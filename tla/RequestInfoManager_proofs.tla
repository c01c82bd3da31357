---------------------- MODULE RequestInfoManager_proofs ----------------------
(***************************************************************************)
(* Proofs about the log records of requests: the transfer of the files     *)
(* they come in (FileTransfer), and what RequestInfoManager tells of a     *)
(* request when it has read them (RequestInfoContainer).                   *)
(*                                                                         *)
(* RequestInfoContainer, for any owners, users, records and distributions: *)
(* profiles and counters keep their types; what is booked of a request is  *)
(* what one profile has or one operation carries; once nothing is on its   *)
(* way, what was told of it is what its records call for.                  *)
(*                                                                         *)
(* FileTransfer, for any files, hosts, tries and failures: a file is never *)
(* lost between its source and a receiver, and receivers take it once, but *)
(* for the copies that failures explain.                                   *)
(***************************************************************************)
EXTENDS RequestInfoContainer, FileTransfer, Sums_proofs

(* RequestInfoContainer.                                                   *)

Bookable == {"request", "impression", "click"}

Tolds == [Kind -> [State -> Nat]]

Normal(told_, kind) == told_[kind]["normal"]

NetOf(told_, kind) ==
    told_[kind]["normal"] + told_[kind]["resave"]
        - told_[kind]["fraud"] - told_[kind]["moved"]

(* What a profile has of a kind, and what of it is not rolled back.        *)
Done(p, kind) ==
    \/ kind = "request" /\ p.request_done
    \/ kind = "impression" /\ p.impression_verified
    \/ kind = "click" /\ p.click_done

Count(p, kind) == IF Done(p, kind) THEN 1 ELSE 0

NetCount(p, kind) == IF p.fraud # "fraud" THEN Count(p, kind) ELSE 0

(* A profile gets its notice after its request, its impression after the   *)
(* notice and its click after the impression; only a request with its      *)
(* impression is rolled back, only one without it leaves.                  *)
WellFormed(p) ==
    /\ p \in Profile
    /\ p.click_done => p.impression_verified
    /\ p.impression_verified => p.notice_received
    /\ p.fraud = "fraud" => p.impression_verified
    /\ p.fraud = "moved" => ~p.impression_verified /\ p.user_id \in User
    /\ p.fraud # "moved" => (p.notice_received => p.request_done)
    /\ p.request_done => p.user_id \in User

IsStore(s) ==
    /\ s = [p |-> s.p, told |-> s.told, operations |-> s.operations]
    /\ s.told \in Tolds

Ready(s) == IsStore(s) /\ WellFormed(s.p) /\ s.p.fraud # "moved"

SameBooks(t, u) ==
    \A kind \in Bookable : Normal(u, kind) = Normal(t, kind) /\ NetOf(u, kind) = NetOf(t, kind)

SameFlags(p, q) ==
    /\ q \in Profile
    /\ q.request_done = p.request_done /\ q.user_id = p.user_id /\ q.fraud = p.fraud
    /\ q.notice_received = p.notice_received
    /\ q.impression_verified = p.impression_verified /\ q.click_done = p.click_done

(* What is told is what the profile gets.                                  *)
Balanced(p, t, q, u) ==
    \A kind \in Bookable :
        /\ Normal(u, kind) - Normal(t, kind) = Count(q, kind) - Count(p, kind)
        /\ NetOf(u, kind) - NetOf(t, kind) = NetCount(q, kind) - NetCount(p, kind)

Follows(s, r) ==
    /\ Ready(r)
    /\ r.operations = s.operations
    /\ Balanced(s.p, s.told, r.p, r.told)

-----------------------------------------------------------------------------
(* What is told.                                                           *)

LEMMA ToldIs ==
    ASSUME NEW t \in Tolds, NEW kind \in Kind
    PROVE  /\ t[kind]["normal"] \in Nat /\ t[kind]["fraud"] \in Nat /\ t[kind]["moved"] \in Nat
           /\ t[kind]["resave"] \in Nat /\ t[kind]["duplicate"] \in Nat
           /\ Normal(t, kind) \in Int /\ NetOf(t, kind) \in Int
<1>1. \A state \in State : t[kind][state] \in Nat
  BY DEF Tolds
<1>2. "normal" \in State /\ "fraud" \in State /\ "moved" \in State /\ "resave" \in State
      /\ "duplicate" \in State
  BY DEF State
<1> QED  BY <1>1, <1>2 DEF Normal, NetOf

LEMMA BookedKinds == Bookable \subseteq Kind
BY DEF Bookable, Kind

LEMMA CountIs ==
    ASSUME NEW p, NEW kind
    PROVE  Count(p, kind) \in {0, 1} /\ NetCount(p, kind) \in {0, 1}
BY DEF Count, NetCount

LEMMA TellTimesResult ==
    ASSUME NEW s, IsStore(s), NEW kind \in Kind, NEW state \in State, NEW n \in Nat,
           NEW r, r = TellTimes(s, kind, state, n)
    PROVE  /\ IsStore(r) /\ r.p = s.p /\ r.operations = s.operations
           /\ \A k \in Kind, x \in State :
                 r.told[k][x] = IF k = kind /\ x = state THEN s.told[k][x] + n ELSE s.told[k][x]
<1>1. s = [p |-> s.p, told |-> s.told, operations |-> s.operations] /\ s.told \in Tolds
  BY DEF IsStore
<1> DEFINE t == [s.told EXCEPT ![kind][state] = @ + n]
<1>2. r = [p |-> s.p, told |-> t, operations |-> s.operations]
  BY <1>1 DEF TellTimes
<1>3. \A k \in Kind, x \in State : s.told[k][x] \in Nat
  BY <1>1 DEF Tolds
<1>4. t \in Tolds
  BY <1>1, <1>3 DEF Tolds
<1>5. \A k \in Kind, x \in State :
         t[k][x] = IF k = kind /\ x = state THEN s.told[k][x] + n ELSE s.told[k][x]
  BY <1>1 DEF Tolds
<1> HIDE DEF t
<1> QED  BY <1>2, <1>4, <1>5 DEF IsStore

(* What a call adds to what is booked.                                     *)
LEMMA TellBooks ==
    ASSUME NEW s, IsStore(s), NEW kind \in Kind, NEW state \in State, NEW n \in Nat,
           NEW r, r = TellTimes(s, kind, state, n), NEW k \in Bookable
    PROVE  /\ Normal(r.told, k) = Normal(s.told, k)
                 + (IF k = kind /\ state = "normal" THEN n ELSE 0)
           /\ NetOf(r.told, k) = NetOf(s.told, k)
                 + (IF k = kind /\ state \in {"normal", "resave"} THEN n
                    ELSE IF k = kind /\ state \in {"fraud", "moved"} THEN -n ELSE 0)
<1>1. \A x \in State :
         r.told[k][x] = IF k = kind /\ x = state THEN s.told[k][x] + n ELSE s.told[k][x]
  BY TellTimesResult, BookedKinds
<1>2. /\ "normal" \in State /\ "fraud" \in State /\ "moved" \in State /\ "resave" \in State
  BY DEF State
<1>3. s.told \in Tolds /\ k \in Kind
  BY BookedKinds DEF IsStore
<1>4. /\ s.told[k]["normal"] \in Nat /\ s.told[k]["fraud"] \in Nat
      /\ s.told[k]["moved"] \in Nat /\ s.told[k]["resave"] \in Nat
  BY <1>3, ToldIs
<1>5. r.told[k]["normal"] = IF k = kind /\ "normal" = state THEN s.told[k]["normal"] + n
                            ELSE s.told[k]["normal"]
  BY <1>1, <1>2
<1>6. r.told[k]["fraud"] = IF k = kind /\ "fraud" = state THEN s.told[k]["fraud"] + n
                           ELSE s.told[k]["fraud"]
  BY <1>1, <1>2
<1>7. r.told[k]["moved"] = IF k = kind /\ "moved" = state THEN s.told[k]["moved"] + n
                           ELSE s.told[k]["moved"]
  BY <1>1, <1>2
<1>8. r.told[k]["resave"] = IF k = kind /\ "resave" = state THEN s.told[k]["resave"] + n
                            ELSE s.told[k]["resave"]
  BY <1>1, <1>2
<1> QED  BY <1>4, <1>5, <1>6, <1>7, <1>8 DEF Normal, NetOf

(* Duplicates and actions are not booked.                                  *)
LEMMA TellOther ==
    ASSUME NEW s, IsStore(s), NEW kind \in Kind, NEW state \in State, NEW n \in Nat,
           state = "duplicate" \/ kind \notin Bookable,
           NEW r, r = TellTimes(s, kind, state, n)
    PROVE  SameBooks(s.told, r.told)
<1> SUFFICES ASSUME NEW k \in Bookable
             PROVE  Normal(r.told, k) = Normal(s.told, k) /\ NetOf(r.told, k) = NetOf(s.told, k)
  BY DEF SameBooks
<1>1. Normal(s.told, k) \in Int /\ NetOf(s.told, k) \in Int
  BY ToldIs, BookedKinds DEF IsStore
<1>2. ~(k = kind /\ state \in {"normal", "resave", "fraud", "moved"})
  OBVIOUS
<1> QED  BY <1>1, <1>2, TellBooks

LEMMA SameIsBalanced ==
    ASSUME NEW p, NEW q, NEW t \in Tolds, NEW u, SameFlags(p, q), SameBooks(t, u)
    PROVE  Balanced(p, t, q, u)
<1> SUFFICES ASSUME NEW kind \in Bookable
             PROVE  /\ Normal(u, kind) - Normal(t, kind) = Count(q, kind) - Count(p, kind)
                    /\ NetOf(u, kind) - NetOf(t, kind) = NetCount(q, kind) - NetCount(p, kind)
  BY DEF Balanced
<1>1. Normal(t, kind) \in Int /\ NetOf(t, kind) \in Int
  BY ToldIs, BookedKinds
<1>2. Done(q, kind) = Done(p, kind) /\ q.fraud = p.fraud
  BY DEF SameFlags, Done
<1>3. Count(q, kind) = Count(p, kind) /\ NetCount(q, kind) = NetCount(p, kind)
  BY <1>2 DEF Count, NetCount
<1>4. Count(q, kind) \in Int /\ NetCount(q, kind) \in Int
  BY CountIs
<1> QED  BY <1>1, <1>3, <1>4 DEF SameBooks

LEMMA SameFlagsFormed ==
    ASSUME NEW p, NEW q, WellFormed(p), SameFlags(p, q)
    PROVE  WellFormed(q)
BY DEF WellFormed, SameFlags

LEMMA SameFollows ==
    ASSUME NEW s, NEW r, Ready(s), IsStore(r), r.operations = s.operations,
           SameFlags(s.p, r.p), SameBooks(s.told, r.told)
    PROVE  Follows(s, r)
<1>1. WellFormed(r.p) /\ r.p.fraud # "moved"
  BY SameFlagsFormed DEF Ready, SameFlags
<1>2. s.told \in Tolds
  BY DEF Ready, IsStore
<1> QED  BY <1>1, <1>2, SameIsBalanced DEF Follows, Ready

LEMMA FollowsOn ==
    ASSUME NEW s, NEW r, NEW q, Ready(s), Follows(s, r), Follows(r, q)
    PROVE  Follows(s, q)
<1>1. s.told \in Tolds /\ r.told \in Tolds /\ q.told \in Tolds
  BY DEF Follows, Ready, IsStore
<1> SUFFICES ASSUME NEW kind \in Bookable
    PROVE  /\ Normal(q.told, kind) - Normal(s.told, kind) = Count(q.p, kind) - Count(s.p, kind)
           /\ NetOf(q.told, kind) - NetOf(s.told, kind) = NetCount(q.p, kind) - NetCount(s.p, kind)
  BY DEF Follows, Balanced
<1>2. /\ Normal(s.told, kind) \in Int /\ NetOf(s.told, kind) \in Int
      /\ Normal(r.told, kind) \in Int /\ NetOf(r.told, kind) \in Int
      /\ Normal(q.told, kind) \in Int /\ NetOf(q.told, kind) \in Int
  BY <1>1, ToldIs, BookedKinds
<1>3. /\ Count(s.p, kind) \in Int /\ Count(r.p, kind) \in Int /\ Count(q.p, kind) \in Int
      /\ NetCount(s.p, kind) \in Int /\ NetCount(r.p, kind) \in Int /\ NetCount(q.p, kind) \in Int
  BY CountIs
<1>4. /\ Normal(r.told, kind) - Normal(s.told, kind) = Count(r.p, kind) - Count(s.p, kind)
      /\ NetOf(r.told, kind) - NetOf(s.told, kind) = NetCount(r.p, kind) - NetCount(s.p, kind)
      /\ Normal(q.told, kind) - Normal(r.told, kind) = Count(q.p, kind) - Count(r.p, kind)
      /\ NetOf(q.told, kind) - NetOf(r.told, kind) = NetCount(q.p, kind) - NetCount(r.p, kind)
  BY DEF Follows, Balanced
<1> DEFINE ns == Normal(s.told, kind)   nr == Normal(r.told, kind)   nq == Normal(q.told, kind)
           ts == NetOf(s.told, kind)    tr == NetOf(r.told, kind)    tq == NetOf(q.told, kind)
           cs == Count(s.p, kind)       cr == Count(r.p, kind)       cq == Count(q.p, kind)
           ms == NetCount(s.p, kind)    mr == NetCount(r.p, kind)    mq == NetCount(q.p, kind)
<1>5. /\ ns \in Int /\ nr \in Int /\ nq \in Int /\ cs \in Int /\ cr \in Int /\ cq \in Int
      /\ nr - ns = cr - cs /\ nq - nr = cq - cr
  BY <1>2, <1>3, <1>4
<1>6. /\ ts \in Int /\ tr \in Int /\ tq \in Int /\ ms \in Int /\ mr \in Int /\ mq \in Int
      /\ tr - ts = mr - ms /\ tq - tr = mq - mr
  BY <1>2, <1>3, <1>4
<1> HIDE DEF ns, nr, nq, ts, tr, tq, cs, cr, cq, ms, mr, mq
<1>7. nq - ns = cq - cs /\ tq - ts = mq - ms
  BY <1>5, <1>6
<1> QED  BY <1>7 DEF ns, nq, ts, tq, cs, cq, ms, mq

-----------------------------------------------------------------------------
(* The operations on an unmoved profile.                                   *)

LEMMA TrackingFlags ==
    ASSUME NEW s, Ready(s)
    PROVE  s.p \in Profile /\ IsStore(s) /\ s.told \in Tolds /\ s.p # Nothing /\ ~Moved(s.p)
BY ProfileAssumption DEF Ready, WellFormed, IsStore, Moved

LEMMA ActionsFollow ==
    ASSUME NEW s, Ready(s), NEW n \in Nat, NEW r, r = ProcessActions(s, n)
    PROVE  Follows(s, r) /\ SameFlags(s.p, r.p)
<1>1. s = [p |-> s.p, told |-> s.told, operations |-> s.operations] /\ s.p \in Profile
      /\ s.told \in Tolds
  BY TrackingFlags DEF IsStore
<1>2. CASE ~s.p.click_done
  <2> DEFINE q == [s.p EXCEPT !.actions_non_considered = @ + n]
  <2>1. r = [p |-> q, told |-> s.told, operations |-> s.operations]
    BY <1>1, <1>2 DEF ProcessActions
  <2>2. SameFlags(s.p, q)
    BY <1>1 DEF SameFlags, Profile
  <2> HIDE DEF q
  <2>3. IsStore(r) /\ SameBooks(s.told, r.told)
    BY <1>1, <2>1 DEF IsStore, SameBooks
  <2> QED  BY <2>1, <2>2, <2>3, SameFollows
<1>3. CASE s.p.click_done /\ tracking.action
  <2> DEFINE q == [s.p EXCEPT !.actions_done = @ + n]
             c == [p |-> q, told |-> s.told, operations |-> s.operations]
  <2>1. r = TellTimes(c, "action", "normal", n)
    <3>1. [s EXCEPT !.p.actions_done = @ + n] = c
      BY <1>1
    <3> QED  BY <1>3, <3>1 DEF ProcessActions
  <2>2. SameFlags(s.p, q)
    BY <1>1 DEF SameFlags, Profile
  <2>3. IsStore(c) /\ c.told = s.told /\ c.operations = s.operations /\ c.p = q
    BY <1>1 DEF IsStore
  <2> HIDE DEF q, c
  <2>4. "action" \in Kind /\ "action" \notin Bookable /\ "normal" \in State
    BY DEF Kind, Bookable, State
  <2>5. IsStore(r) /\ r.p = q /\ r.operations = s.operations
    BY <2>1, <2>3, <2>4, TellTimesResult
  <2>6. SameBooks(s.told, r.told)
    BY <2>1, <2>3, <2>4, TellOther
  <2> QED  BY <2>2, <2>5, <2>6, SameFollows
<1>4. CASE s.p.click_done /\ ~tracking.action
  <2>1. r = s
    BY <1>4 DEF ProcessActions
  <2>2. SameFlags(s.p, s.p) /\ SameBooks(s.told, s.told)
    BY <1>1 DEF SameFlags, SameBooks
  <2> QED  BY <2>1, <2>2, SameFollows, TrackingFlags
<1> QED  BY <1>2, <1>3, <1>4

LEMMA PostActionsFollow ==
    ASSUME NEW s, Ready(s), NEW names \in SUBSET PostAction,
           NEW r, r = ProcessPostActions(s, names)
    PROVE  Follows(s, r) /\ SameFlags(s.p, r.p)
<1>1. s = [p |-> s.p, told |-> s.told, operations |-> s.operations] /\ s.p \in Profile
      /\ s.told \in Tolds
  BY TrackingFlags DEF IsStore
<1> DEFINE new == names \ s.p.post_impression_actions
           q == [s.p EXCEPT !.post_impression_actions = @ \cup names]
           c == [p |-> q, told |-> s.told, operations |-> s.operations]
<1>2. Cardinality(new) \in Nat
  <2>1. IsFiniteSet(new)
    BY ProfileAssumption, FS_Subset
  <2> QED  BY <2>1, FS_CardinalityType
<1>3. SameFlags(s.p, q)
  BY <1>1 DEF SameFlags, Profile
<1>4. IsStore(c) /\ c.told = s.told /\ c.operations = s.operations /\ c.p = q
  BY <1>1 DEF IsStore
<1>5. [s EXCEPT !.p.post_impression_actions = @ \cup names] = c
  BY <1>1
<1>6. r = IF s.p.impression_verified THEN TellTimes(c, "post", "normal", Cardinality(new)) ELSE c
  BY <1>5 DEF ProcessPostActions
<1> HIDE DEF q, c, new
<1>7. "post" \in Kind /\ "post" \notin Bookable /\ "normal" \in State
  BY DEF Kind, Bookable, State
<1>8. CASE s.p.impression_verified
  <2>1. r = TellTimes(c, "post", "normal", Cardinality(new))
    BY <1>6, <1>8
  <2>2. IsStore(r) /\ r.p = q /\ r.operations = s.operations
    BY <1>2, <1>4, <1>7, <2>1, TellTimesResult
  <2>3. SameBooks(s.told, r.told)
    BY <1>2, <1>4, <1>7, <2>1, TellOther
  <2> QED  BY <1>3, <2>2, <2>3, SameFollows
<1>9. CASE ~s.p.impression_verified
  <2>1. r = c /\ SameBooks(s.told, s.told)
    BY <1>6, <1>9 DEF SameBooks
  <2> QED  BY <1>3, <1>4, <2>1, SameFollows
<1> QED  BY <1>8, <1>9

(* The first click after the impression.                                   *)
LEMMA FirstClickFollows ==
    ASSUME NEW s, Ready(s), s.p.impression_verified, ~s.p.click_done, NEW r, r = FirstClick(s)
    PROVE  Follows(s, r) /\ r.p.user_id = s.p.user_id /\ r.p.request_done = s.p.request_done
<1>1. s = [p |-> s.p, told |-> s.told, operations |-> s.operations] /\ s.p \in Profile
      /\ s.told \in Tolds
  BY TrackingFlags DEF IsStore
<1> DEFINE q == ClickDone(s.p)
           c == [p |-> q, told |-> s.told, operations |-> s.operations]
           d == TellTimes(c, "click", "normal", 1)
<1>2. /\ WellFormed(q) /\ q.fraud = s.p.fraud /\ q.user_id = s.p.user_id
      /\ q.request_done = s.p.request_done /\ q.impression_verified /\ q.click_done
  BY <1>1 DEF ClickDone, Ready, WellFormed, Profile
<1>3. IsStore(c) /\ c.told = s.told /\ c.operations = s.operations /\ c.p = q
  BY <1>1 DEF IsStore
<1>4. r = IF s.p.fraud = "fraud" THEN TellTimes(d, "click", "fraud", 1) ELSE d
  BY <1>1 DEF FirstClick, TellIf, Tell
<1>5. "click" \in Kind /\ "normal" \in State /\ "fraud" \in State
  BY DEF Kind, State
<1> HIDE DEF q, c
<1>6. IsStore(d) /\ d.p = q /\ d.operations = s.operations
  BY <1>3, <1>5, TellTimesResult
<1>7. \A k \in Bookable :
         /\ Normal(d.told, k) = Normal(s.told, k) + (IF k = "click" THEN 1 ELSE 0)
         /\ NetOf(d.told, k) = NetOf(s.told, k) + (IF k = "click" THEN 1 ELSE 0)
  <2> TAKE k \in Bookable
  <2> QED  BY <1>3, <1>5, TellBooks
<1> HIDE DEF d
<1>8. /\ IsStore(r) /\ r.p = q /\ r.operations = s.operations
      /\ \A k \in Bookable :
            /\ Normal(r.told, k) = Normal(s.told, k) + (IF k = "click" THEN 1 ELSE 0)
            /\ NetOf(r.told, k) = NetOf(s.told, k)
                   + (IF k = "click" /\ s.p.fraud # "fraud" THEN 1 ELSE 0)
  <2>1. CASE s.p.fraud = "fraud"
    <3>1. r = TellTimes(d, "click", "fraud", 1)
      BY <1>4, <2>1
    <3>2. IsStore(r) /\ r.p = q /\ r.operations = s.operations
      BY <1>5, <1>6, <3>1, TellTimesResult
    <3>3. ASSUME NEW k \in Bookable
          PROVE  /\ Normal(r.told, k) = Normal(s.told, k) + (IF k = "click" THEN 1 ELSE 0)
                 /\ NetOf(r.told, k) = NetOf(s.told, k)
      <4>1. /\ Normal(r.told, k) = Normal(d.told, k) + 0
            /\ NetOf(r.told, k) = NetOf(d.told, k) + (IF k = "click" THEN -1 ELSE 0)
        BY <1>5, <1>6, <3>1, TellBooks
      <4>2. Normal(s.told, k) \in Int /\ NetOf(s.told, k) \in Int
        BY <1>1, ToldIs, BookedKinds
      <4> QED  BY <1>7, <4>1, <4>2
    <3>4. \A k \in Bookable : NetOf(s.told, k) \in Int
      BY <1>1, ToldIs, BookedKinds
    <3> QED  BY <2>1, <3>2, <3>3, <3>4
  <2>2. CASE s.p.fraud # "fraud"
    BY <1>4, <1>6, <1>7, <2>2
  <2> QED  BY <2>1, <2>2
<1>9. Balanced(s.p, s.told, r.p, r.told)
  <2> SUFFICES ASSUME NEW k \in Bookable
      PROVE  /\ Normal(r.told, k) - Normal(s.told, k) = Count(q, k) - Count(s.p, k)
             /\ NetOf(r.told, k) - NetOf(s.told, k) = NetCount(q, k) - NetCount(s.p, k)
    BY <1>8 DEF Balanced
  <2>1. Normal(s.told, k) \in Int /\ NetOf(s.told, k) \in Int
    BY <1>1, ToldIs, BookedKinds
  <2>2. k = "request" \/ k = "impression" \/ k = "click"
    BY DEF Bookable
  <2>3. Count(q, k) - Count(s.p, k) = IF k = "click" THEN 1 ELSE 0
    BY <1>2, <2>2 DEF Count, Done
  <2>4. NetCount(q, k) - NetCount(s.p, k) = IF k = "click" /\ s.p.fraud # "fraud" THEN 1 ELSE 0
    BY <1>2, <2>2 DEF Count, Done, NetCount
  <2> QED  BY <1>8, <2>1, <2>3, <2>4
<1> QED  BY <1>2, <1>8, <1>9 DEF Follows, Ready

LEMMA PutFollows ==
    ASSUME NEW s, Ready(s), NEW q, SameFlags(s.p, q), NEW r, r = [s EXCEPT !.p = q]
    PROVE  Follows(s, r) /\ r.p = q /\ r.told = s.told
<1>1. r = [p |-> q, told |-> s.told, operations |-> s.operations]
  BY DEF Ready, IsStore
<1>2. IsStore(r) /\ SameBooks(s.told, r.told)
  BY <1>1 DEF Ready, IsStore, SameBooks
<1> QED  BY <1>1, <1>2, SameFollows

LEMMA DuplicatesFollow ==
    ASSUME NEW s, Ready(s), NEW kind \in Kind, NEW n \in Nat,
           NEW r, r = TellTimes(s, kind, "duplicate", n)
    PROVE  Follows(s, r) /\ r.p = s.p
<1>1. "duplicate" \in State /\ IsStore(s)
  BY DEF State, Ready
<1>2. IsStore(r) /\ r.p = s.p /\ r.operations = s.operations
  BY <1>1, TellTimesResult
<1>3. SameBooks(s.told, r.told)
  BY <1>1, TellOther
<1>4. SameFlags(s.p, s.p)
  BY DEF Ready, WellFormed, SameFlags
<1> QED  BY <1>2, <1>3, <1>4, SameFollows

LEMMA ClickFollows ==
    ASSUME NEW s, Ready(s), NEW moveable, NEW r, r = ProcessClick(s, moveable)
    PROVE  Follows(s, r) /\ r.p.user_id = s.p.user_id /\ r.p.request_done = s.p.request_done
<1>1. s.p \in Profile /\ Opened(s.p) = s.p /\ ~Moved(s.p)
  BY TrackingFlags DEF Opened
<1>2. CASE ~s.p.impression_verified
  <2> DEFINE q == [s.p EXCEPT !.click_non_considered = @ + 1]
  <2>1. r = [s EXCEPT !.p = q]
    BY <1>1, <1>2 DEF ProcessClick
  <2>2. SameFlags(s.p, q)
    BY <1>1 DEF SameFlags, Profile
  <2> HIDE DEF q
  <2> QED  BY <2>1, <2>2, PutFollows DEF SameFlags
<1>3. CASE s.p.impression_verified /\ s.p.click_done
  <2>1. r = TellTimes(s, "click", "duplicate", 1)
    BY <1>1, <1>3 DEF ProcessClick, Tell
  <2>2. "click" \in Kind
    BY DEF Kind
  <2> QED  BY <2>1, <2>2, DuplicatesFollow
<1>4. CASE s.p.impression_verified /\ ~s.p.click_done
  <2> DEFINE f == FirstClick(s)
             g == TellTimes(f, "click", "duplicate", s.p.click_non_considered)
  <2>1. r = ProcessActions(g, s.p.actions_non_considered)
    BY <1>1, <1>4 DEF ProcessClick
  <2>2. Follows(s, f) /\ f.p.user_id = s.p.user_id /\ f.p.request_done = s.p.request_done
    BY <1>4, FirstClickFollows
  <2>3. s.p.click_non_considered \in Nat /\ s.p.actions_non_considered \in Nat /\ "click" \in Kind
    BY <1>1 DEF Profile, Kind
  <2> HIDE DEF f
  <2>4. Follows(f, g) /\ g.p = f.p
    BY <2>2, <2>3, DuplicatesFollow DEF Follows
  <2> HIDE DEF g
  <2>5. Follows(g, r) /\ SameFlags(g.p, r.p)
    BY <2>1, <2>3, <2>4, ActionsFollow DEF Follows
  <2>6. Follows(s, g)
    BY <2>2, <2>4, FollowsOn
  <2> QED  BY <2>2, <2>4, <2>5, <2>6, FollowsOn DEF SameFlags
<1> QED  BY <1>2, <1>3, <1>4

SameBalance(p, q) ==
    \A k \in Bookable : Count(q, k) = Count(p, k) /\ NetCount(q, k) = NetCount(p, k)

LEMMA NothingTold ==
    ASSUME NEW s, Ready(s), NEW q, WellFormed(q), q.fraud # "moved", SameBalance(s.p, q),
           NEW r, r = [p |-> q, told |-> s.told, operations |-> s.operations]
    PROVE  Follows(s, r)
<1>1. s.told \in Tolds
  BY DEF Ready, IsStore
<1>2. Balanced(s.p, s.told, q, s.told)
  <2> SUFFICES ASSUME NEW k \in Bookable
      PROVE  /\ Normal(s.told, k) - Normal(s.told, k) = Count(q, k) - Count(s.p, k)
             /\ NetOf(s.told, k) - NetOf(s.told, k) = NetCount(q, k) - NetCount(s.p, k)
    BY DEF Balanced
  <2>1. Normal(s.told, k) \in Int /\ NetOf(s.told, k) \in Int
    BY <1>1, ToldIs, BookedKinds
  <2>2. Count(q, k) = Count(s.p, k) /\ NetCount(q, k) = NetCount(s.p, k)
    BY DEF SameBalance
  <2>3. Count(s.p, k) \in Int /\ NetCount(s.p, k) \in Int
    BY CountIs
  <2> QED  BY <2>1, <2>2, <2>3
<1> QED  BY <1>1, <1>2 DEF Follows, Ready, IsStore

(* The first impression that waits names the user.                         *)
NamedBy(s, r, user) ==
    r.p.user_id = s.p.user_id \/ (user # Nothing /\ r.p.user_id = user)

(* An impression that is verified.                                         *)
LEMMA VerifyFollows ==
    ASSUME NEW s, Ready(s), ~s.p.impression_verified, s.p.notice_received,
           NEW user \in User \cup {Nothing}, NEW moveable,
           NEW r, r = VerifyImpression(s, user, moveable)
    PROVE  Follows(s, r) /\ NamedBy(s, r, user)
           /\ r.p.request_done = s.p.request_done
<1>1. s = [p |-> s.p, told |-> s.told, operations |-> s.operations] /\ s.p \in Profile
      /\ s.told \in Tolds
  BY TrackingFlags DEF IsStore
<1> DEFINE q == Verified(s.p, user)
           c == [p |-> q, told |-> s.told, operations |-> s.operations]
           d == TellTimes(c, "impression", "normal", 1)
           e == TellTimes(d, "impression", "duplicate", s.p.impression_non_considered)
           f == IF s.p.click_non_considered > 0 THEN ProcessClick(e, moveable) ELSE e
<1>2. r = ProcessPostActions(f, s.p.post_impression_actions)
  BY <1>1 DEF VerifyImpression, Tell
<1>3. s.p.fraud = "normal" /\ s.p.request_done /\ ~s.p.click_done /\ s.p.user_id \in User
  BY DEF Ready, WellFormed, Profile
<1>4. /\ q \in Profile /\ q.impression_verified
      /\ (q.user_id = s.p.user_id \/ (user # Nothing /\ q.user_id = user))
      /\ q.request_done /\ q.fraud = "normal" /\ q.notice_received /\ ~q.click_done
  <2> DEFINE n == IF s.p.impression_non_considered = 0 THEN Named(s.p, user) ELSE s.p
  <2>1. n \in Profile /\ (n.user_id = s.p.user_id \/ (user # Nothing /\ n.user_id = user))
    BY <1>1 DEF Named, Profile
  <2>3. /\ n.request_done /\ n.fraud = "normal" /\ n.notice_received /\ ~n.click_done
    BY <1>1, <1>3 DEF Named, Profile
  <2>4. q = [n EXCEPT !.impression_verified = TRUE, !.impression_non_considered = 0,
                      !.click_non_considered = IF @ > 0 THEN @ - 1 ELSE 0,
                      !.post_impression_actions = {}]
    BY DEF Verified
  <2> HIDE DEF n, q
  <2>5. n.click_non_considered \in Nat
    BY <2>1 DEF Profile
  <2>6. (IF n.click_non_considered > 0 THEN n.click_non_considered - 1 ELSE 0) \in Nat
    BY <2>5
  <2>7. q \in Profile
    BY <2>1, <2>4, <2>6 DEF Profile
  <2> QED  BY <2>1, <2>3, <2>4, <2>7 DEF Profile
<1> HIDE DEF q
<1>5. WellFormed(q) /\ IsStore(c) /\ c.p = q /\ c.told = s.told /\ c.operations = s.operations
  BY <1>1, <1>3, <1>4 DEF WellFormed, IsStore
<1> HIDE DEF c
<1>6. "impression" \in Kind /\ "normal" \in State
  BY DEF Kind, State
<1>7. IsStore(d) /\ d.p = q /\ d.operations = s.operations
  BY <1>5, <1>6, TellTimesResult
<1>8. Follows(s, d)
  <2>1. Balanced(s.p, s.told, d.p, d.told)
    <3> SUFFICES ASSUME NEW k \in Bookable
        PROVE  /\ Normal(d.told, k) - Normal(s.told, k) = Count(q, k) - Count(s.p, k)
               /\ NetOf(d.told, k) - NetOf(s.told, k) = NetCount(q, k) - NetCount(s.p, k)
      BY <1>7 DEF Balanced
    <3>1. Normal(s.told, k) \in Int /\ NetOf(s.told, k) \in Int
      BY <1>1, ToldIs, BookedKinds
    <3>2. /\ Normal(d.told, k) = Normal(s.told, k) + (IF k = "impression" THEN 1 ELSE 0)
          /\ NetOf(d.told, k) = NetOf(s.told, k) + (IF k = "impression" THEN 1 ELSE 0)
      BY <1>5, <1>6, TellBooks
    <3>3. k = "request" \/ k = "impression" \/ k = "click"
      BY DEF Bookable
    <3>4. Count(q, k) - Count(s.p, k) = IF k = "impression" THEN 1 ELSE 0
      BY <1>3, <1>4, <3>3 DEF Count, Done
    <3>5. NetCount(q, k) - NetCount(s.p, k) = IF k = "impression" THEN 1 ELSE 0
      BY <1>3, <1>4, <3>4 DEF NetCount
    <3> QED  BY <3>1, <3>2, <3>4, <3>5
  <2> QED  BY <1>4, <1>5, <1>7, <2>1 DEF Follows, Ready
<1> HIDE DEF d
<1>9. s.p.impression_non_considered \in Nat /\ s.p.post_impression_actions \in SUBSET PostAction
  BY <1>1 DEF Profile
<1>10. Follows(d, e) /\ e.p = q
  BY <1>6, <1>7, <1>8, <1>9, DuplicatesFollow DEF Follows
<1> HIDE DEF e
<1>11. Follows(s, e)
  BY <1>8, <1>10, FollowsOn
<1>12. Follows(s, f) /\ f.p.user_id = q.user_id /\ f.p.request_done
  <2>1. CASE s.p.click_non_considered > 0
    <3>1. Follows(e, f) /\ f.p.user_id = q.user_id /\ f.p.request_done
      BY <1>4, <1>10, <1>11, <2>1, ClickFollows DEF Follows
    <3> QED  BY <1>11, <3>1, FollowsOn
  <2>2. CASE ~(s.p.click_non_considered > 0)
    BY <1>4, <1>10, <1>11, <2>2
  <2> QED  BY <2>1, <2>2
<1> HIDE DEF f
<1>13. Follows(f, r) /\ SameFlags(f.p, r.p)
  BY <1>2, <1>9, <1>12, PostActionsFollow DEF Follows
<1> QED  BY <1>3, <1>4, <1>12, <1>13, FollowsOn DEF SameFlags, NamedBy

Leaves(s, user, moveable) ==
    /\ moveable /\ s.p.request_done /\ ~s.p.impression_verified
    /\ user # Nothing /\ user # s.p.user_id

LEMMA WaitFollows ==
    ASSUME NEW s, Ready(s), ~s.p.impression_verified,
           NEW user \in User \cup {Nothing}, NEW r, r = WaitImpression(s, user)
    PROVE  Follows(s, r) /\ NamedBy(s, r, user)
           /\ r.p.request_done = s.p.request_done
<1>1. s = [p |-> s.p, told |-> s.told, operations |-> s.operations] /\ s.p \in Profile
      /\ s.told \in Tolds /\ s.p # Nothing
  BY TrackingFlags DEF IsStore
<1> DEFINE n == IF s.p.impression_non_considered = 0 THEN Named(s.p, user) ELSE s.p
           q == [n EXCEPT !.impression_non_considered = @ + 1]
<1>2. n \in Profile /\ (n.user_id = s.p.user_id \/ (user # Nothing /\ n.user_id = user))
  BY <1>1 DEF Named, Profile
<1>3. /\ n.request_done = s.p.request_done /\ n.fraud = s.p.fraud
      /\ n.notice_received = s.p.notice_received
      /\ n.impression_verified = s.p.impression_verified /\ n.click_done = s.p.click_done
  BY <1>1 DEF Named, Profile
<1> HIDE DEF n
<1>4. /\ q \in Profile /\ q.user_id = n.user_id
      /\ q.request_done = s.p.request_done /\ q.fraud = s.p.fraud
      /\ q.notice_received = s.p.notice_received
      /\ q.impression_verified = s.p.impression_verified /\ q.click_done = s.p.click_done
  BY <1>2, <1>3 DEF Profile
<1>5. r = [p |-> q, told |-> s.told, operations |-> s.operations]
  BY <1>1 DEF WaitImpression, n
<1> HIDE DEF q
<1>6. WellFormed(q)
  <2>1. q.request_done => q.user_id \in User
    BY <1>2, <1>4 DEF Ready, WellFormed
  <2> QED  BY <1>4, <2>1 DEF Ready, WellFormed
<1>7. SameBalance(s.p, q)
  BY <1>4 DEF SameBalance, Count, Done, NetCount
<1>8. Follows(s, r)
  BY <1>4, <1>5, <1>6, <1>7, NothingTold DEF Ready
<1> QED  BY <1>2, <1>4, <1>5, <1>8 DEF NamedBy

(* An impression by which the request does not leave.                      *)
LEMMA ImpressionFollows ==
    ASSUME NEW s, Ready(s), NEW user \in User \cup {Nothing}, NEW moveable,
           ~Leaves(s, user, moveable),
           NEW r, r = ProcessImpression(s, user, moveable)
    PROVE  Follows(s, r) /\ NamedBy(s, r, user)
           /\ r.p.request_done = s.p.request_done
<1>1. s.p \in Profile /\ s.p # Nothing /\ ~Moved(s.p)
  BY TrackingFlags
<1>2. CASE s.p.impression_verified
  <2>1. r = TellTimes(s, "impression", "duplicate", 1)
    BY <1>1, <1>2 DEF ProcessImpression, SecondImpression, Tell
  <2>2. "impression" \in Kind
    BY DEF Kind
  <2> QED  BY <2>1, <2>2, DuplicatesFollow DEF NamedBy
<1>3. CASE ~s.p.impression_verified /\ s.p.notice_received
  <2>1. r = VerifyImpression(s, user, moveable)
    BY <1>1, <1>3 DEF ProcessImpression, Leaves
  <2> QED  BY <1>3, <2>1, VerifyFollows
<1>4. CASE ~s.p.impression_verified /\ ~s.p.notice_received
  <2>1. r = WaitImpression(s, user)
    BY <1>1, <1>4 DEF ProcessImpression, Leaves
  <2> QED  BY <1>4, <2>1, WaitFollows
<1> QED  BY <1>2, <1>3, <1>4

(* The notice brings the impression with it that waited for it; its user   *)
(* is that of the request, so that it does not leave.                      *)
LEMMA NoticeReceivedFollows ==
    ASSUME NEW s, Ready(s), s.p.request_done, ~s.p.notice_received, NEW moveable,
           NEW r, r = NoticeReceived(s, moveable)
    PROVE  Follows(s, r) /\ r.p.user_id = s.p.user_id /\ r.p.request_done
<1>1. s = [p |-> s.p, told |-> s.told, operations |-> s.operations] /\ s.p \in Profile
      /\ s.told \in Tolds
  BY TrackingFlags DEF IsStore
<1> DEFINE p == [s.p EXCEPT !.notice_received = TRUE]
           q == [p EXCEPT !.impression_non_considered = @ - 1]
           c == [s EXCEPT !.p = p]
           d == [s EXCEPT !.p = q]
<1>2. s.p.impression_non_considered \in Nat /\ s.p.user_id \in User \cup {Nothing}
  BY <1>1 DEF Profile
<1>3. /\ p \in Profile /\ p.notice_received /\ p.request_done /\ p.user_id = s.p.user_id
      /\ p.fraud = s.p.fraud /\ p.click_done = s.p.click_done
      /\ p.impression_verified = s.p.impression_verified
      /\ p.impression_non_considered = s.p.impression_non_considered
  BY <1>1 DEF Profile
<1>4. ~s.p.impression_verified /\ s.p.fraud = "normal" /\ ~s.p.click_done /\ s.p.user_id \in User
  BY DEF Ready, WellFormed, Profile
<1>5. \A x : [s EXCEPT !.p = x] = [p |-> x, told |-> s.told, operations |-> s.operations]
  BY <1>1
<1>6. /\ c = [p |-> p, told |-> s.told, operations |-> s.operations]
      /\ d = [p |-> q, told |-> s.told, operations |-> s.operations]
  <2> HIDE DEF p, q
  <2> QED  BY <1>5
<1>7. r = IF p.impression_non_considered > 0 THEN ProcessImpression(d, p.user_id, moveable)
          ELSE IF ~tracking.impression THEN ProcessImpression(c, Nothing, moveable)
          ELSE c
  BY DEF NoticeReceived
<1> HIDE DEF c, d
<1>8. Follows(s, c)
  <2>1. WellFormed(p)
    BY <1>3, <1>4 DEF WellFormed
  <2>2. SameBalance(s.p, p)
    BY <1>3, <1>4 DEF SameBalance, Count, NetCount, Done
  <2> HIDE DEF p
  <2> QED  BY <1>1, <1>3, <1>4, <1>6, <2>1, <2>2, NothingTold
<1>9. CASE p.impression_non_considered > 0
  <2>1. /\ q \in Profile /\ q.notice_received /\ q.request_done /\ q.user_id = s.p.user_id
        /\ q.fraud = s.p.fraud /\ q.click_done = s.p.click_done
        /\ q.impression_verified = s.p.impression_verified
    <3> HIDE DEF p
    <3>1. p.impression_non_considered - 1 \in Nat
      BY <1>2, <1>3, <1>9
    <3> QED  BY <1>3, <3>1 DEF Profile
  <2> HIDE DEF q
  <2>2. WellFormed(q)
    BY <1>4, <2>1 DEF WellFormed
  <2>3. SameBalance(s.p, q)
    BY <1>4, <2>1 DEF SameBalance, Count, NetCount, Done
  <2>4. Follows(s, d) /\ d.p = q
    BY <1>1, <1>4, <1>6, <2>1, <2>2, <2>3, NothingTold
  <2>5. r = ProcessImpression(d, s.p.user_id, moveable)
    BY <1>3, <1>7, <1>9
  <2>6. ~Leaves(d, s.p.user_id, moveable)
    BY <2>1, <2>4 DEF Leaves
  <2>7. Follows(d, r) /\ NamedBy(d, r, s.p.user_id)
        /\ r.p.request_done = d.p.request_done
    BY <1>2, <2>4, <2>5, <2>6, ImpressionFollows DEF Follows
  <2> QED  BY <2>1, <2>4, <2>7, FollowsOn DEF NamedBy
<1> HIDE DEF p
<1>10. CASE ~(p.impression_non_considered > 0) /\ ~tracking.impression
  <2>1. r = ProcessImpression(c, Nothing, moveable) /\ c.p = p
    BY <1>6, <1>7, <1>10
  <2>2. ~Leaves(c, Nothing, moveable)
    BY DEF Leaves
  <2>3. Follows(c, r) /\ NamedBy(c, r, Nothing)
        /\ r.p.request_done = c.p.request_done
    BY <1>8, <2>1, <2>2, ImpressionFollows DEF Follows
  <2> QED  BY <1>3, <1>8, <2>1, <2>3, FollowsOn DEF NamedBy
<1>11. CASE ~(p.impression_non_considered > 0) /\ tracking.impression
  BY <1>3, <1>6, <1>7, <1>8, <1>11
<1> QED  BY <1>9, <1>10, <1>11

LEMMA NoticeFollows ==
    ASSUME NEW s, Ready(s), NEW moveable, NEW r, r = ProcessNotice(s, moveable)
    PROVE  Follows(s, r) /\ r.p.user_id = s.p.user_id /\ r.p.request_done = s.p.request_done
<1>1. s.p \in Profile /\ Opened(s.p) = s.p /\ ~Moved(s.p)
  BY TrackingFlags DEF Opened
<1>2. CASE ~s.p.request_done
  <2> DEFINE q == [s.p EXCEPT !.notice_non_considered = TRUE]
  <2>1. r = [s EXCEPT !.p = q]
    BY <1>1, <1>2 DEF ProcessNotice
  <2>2. SameFlags(s.p, q)
    BY <1>1 DEF SameFlags, Profile
  <2> HIDE DEF q
  <2> QED  BY <2>1, <2>2, PutFollows DEF SameFlags
<1>3. CASE s.p.request_done /\ s.p.notice_received
  <2>1. r = s
    BY <1>1, <1>3 DEF ProcessNotice
  <2>2. SameFlags(s.p, s.p) /\ SameBooks(s.told, s.told)
    BY <1>1 DEF SameFlags, SameBooks
  <2> QED  BY <2>1, <2>2, SameFollows, TrackingFlags
<1>4. CASE s.p.request_done /\ ~s.p.notice_received
  <2>1. r = NoticeReceived(s, moveable)
    BY <1>1, <1>4 DEF ProcessNotice
  <2>2. Follows(s, r) /\ r.p.user_id = s.p.user_id /\ r.p.request_done
    BY <1>4, <2>1, NoticeReceivedFollows
  <2>3. r.p.request_done = s.p.request_done
    BY <1>4, <2>2, Zenon
  <2> QED  BY <2>2, <2>3
<1> QED  BY <1>2, <1>3, <1>4

-----------------------------------------------------------------------------
(* A profile that is not there, or has left, counts as an empty one.       *)

Sound(s) == IsStore(s) /\ (s.p = Nothing \/ WellFormed(s.p))

Base(s) == [p |-> Opened(s.p), told |-> s.told, operations |-> s.operations]

LEMMA StubFormed ==
    /\ WellFormed(Stub) /\ Stub.fraud = "normal" /\ ~Stub.request_done
    /\ ~Stub.impression_verified /\ ~Stub.click_done /\ ~Stub.notice_received
    /\ Stub.user_id = Nothing
BY DEF WellFormed, Stub, Profile

LEMMA BaseReady ==
    ASSUME NEW s, Sound(s)
    PROVE  /\ Ready(Base(s)) /\ Base(s).told = s.told /\ Base(s).operations = s.operations
           /\ Base(s).p = Opened(s.p)
           /\ s.p = Nothing \/ s.p.fraud = "moved" => Base(s).p = Stub
           /\ s.p # Nothing /\ s.p.fraud # "moved" => Base(s) = s
<1>1. s = [p |-> s.p, told |-> s.told, operations |-> s.operations] /\ s.told \in Tolds
  BY DEF Sound, IsStore
<1>2. /\ s.p = Nothing \/ s.p.fraud = "moved" => Opened(s.p) = Stub
      /\ s.p # Nothing /\ s.p.fraud # "moved" => Opened(s.p) = s.p
  BY DEF Opened, Moved
<1>3. WellFormed(Opened(s.p)) /\ Opened(s.p).fraud # "moved"
  BY <1>2, StubFormed DEF Sound
<1> QED  BY <1>1, <1>2, <1>3 DEF Base, Ready, IsStore

LEMMA PutIs ==
    ASSUME NEW s, Sound(s), NEW x
    PROVE  /\ [s EXCEPT !.p = x] = [p |-> x, told |-> s.told, operations |-> s.operations]
           /\ [Base(s) EXCEPT !.p = x] = [p |-> x, told |-> s.told, operations |-> s.operations]
BY DEF Sound, IsStore, Base

LEMMA ClickAt ==
    ASSUME NEW s, Sound(s), NEW moveable, ~(Moved(s.p) /\ moveable),
           NEW r, r = ProcessClick(s, moveable)
    PROVE  /\ Follows(Base(s), r) /\ r.p.user_id = Base(s).p.user_id
           /\ r.p.request_done = Base(s).p.request_done
<1>1. r = ProcessClick(Base(s), moveable)
  <2>1. CASE s.p # Nothing /\ s.p.fraud # "moved"
    BY <2>1, BaseReady
  <2>2. CASE s.p = Nothing \/ s.p.fraud = "moved"
    <3> DEFINE x == [Stub EXCEPT !.click_non_considered = @ + 1]
    <3>1. Opened(s.p) = Stub /\ Opened(Stub) = Stub /\ Base(s).p = Stub
      BY <2>2, StubFormed, BaseReady DEF Opened, Moved
    <3>2. ~Moved(Stub) /\ ~Stub.impression_verified
      BY StubFormed DEF Moved
    <3>3. r = [s EXCEPT !.p = x]
      BY <3>1, <3>2 DEF ProcessClick
    <3>4. ProcessClick(Base(s), moveable) = [Base(s) EXCEPT !.p = x]
      BY <3>1, <3>2 DEF ProcessClick
    <3> HIDE DEF x
    <3> QED  BY <3>3, <3>4 DEF Sound, IsStore, Base
  <2> QED  BY <2>1, <2>2
<1> QED  BY <1>1, BaseReady, ClickFollows

LEMMA ActionAt ==
    ASSUME NEW s, Sound(s), NEW moveable, ~(Moved(s.p) /\ moveable),
           NEW r, r = ProcessAction(s, moveable)
    PROVE  /\ Follows(Base(s), r) /\ r.p.user_id = Base(s).p.user_id
           /\ r.p.request_done = Base(s).p.request_done
<1>1. [s EXCEPT !.p = Opened(@)] = Base(s)
  BY DEF Sound, IsStore, Base
<1>2. r = ProcessActions(Base(s), 1)
  BY <1>1 DEF ProcessAction
<1> QED  BY <1>2, BaseReady, ActionsFollow DEF SameFlags

LEMMA PostActionAt ==
    ASSUME NEW s, Sound(s), NEW moveable, ~(Moved(s.p) /\ moveable), NEW name \in PostAction,
           NEW r, r = ProcessPostAction(s, name, moveable)
    PROVE  /\ Follows(Base(s), r) /\ r.p.user_id = Base(s).p.user_id
           /\ r.p.request_done = Base(s).p.request_done
<1>1. [s EXCEPT !.p = Opened(@)] = Base(s)
  BY DEF Sound, IsStore, Base
<1>2. r = ProcessPostActions(Base(s), {name})
  BY <1>1 DEF ProcessPostAction
<1> QED  BY <1>2, BaseReady, PostActionsFollow DEF SameFlags

LEMMA NoticeAt ==
    ASSUME NEW s, Sound(s), NEW moveable, ~(Moved(s.p) /\ moveable),
           NEW r, r = ProcessNotice(s, moveable)
    PROVE  /\ Follows(Base(s), r) /\ r.p.user_id = Base(s).p.user_id
           /\ r.p.request_done = Base(s).p.request_done
<1>1. r = ProcessNotice(Base(s), moveable)
  <2>1. CASE s.p # Nothing /\ s.p.fraud # "moved"
    BY <2>1, BaseReady
  <2>2. CASE s.p = Nothing \/ s.p.fraud = "moved"
    <3> DEFINE x == [Stub EXCEPT !.notice_non_considered = TRUE]
    <3>1. Opened(s.p) = Stub /\ Opened(Stub) = Stub /\ Base(s).p = Stub
      BY <2>2, StubFormed, BaseReady DEF Opened, Moved
    <3>2. ~Moved(Stub) /\ ~Stub.request_done
      BY StubFormed DEF Moved
    <3>3. r = [s EXCEPT !.p = x]
      BY <3>1, <3>2 DEF ProcessNotice
    <3>4. ProcessNotice(Base(s), moveable) = [Base(s) EXCEPT !.p = x]
      BY <3>1, <3>2 DEF ProcessNotice
    <3> HIDE DEF x
    <3> QED  BY <3>3, <3>4 DEF Sound, IsStore, Base
  <2> QED  BY <2>1, <2>2
<1> QED  BY <1>1, BaseReady, NoticeFollows

(* An impression where the request does not leave and has not left.        *)
LEMMA ImpressionAt ==
    ASSUME NEW s, Sound(s), s.p = Nothing \/ s.p.fraud # "moved",
           NEW user \in User \cup {Nothing}, NEW moveable,
           s.p # Nothing => ~Leaves(s, user, moveable),
           NEW r, r = ProcessImpression(s, user, moveable)
    PROVE  /\ Follows(Base(s), r) /\ NamedBy(Base(s), r, user)
           /\ r.p.request_done = Base(s).p.request_done
<1>1. CASE s.p # Nothing
  BY <1>1, BaseReady, ImpressionFollows
<1>2. CASE s.p = Nothing
  <2>1. r = WaitImpression(s, user)
    BY <1>2 DEF ProcessImpression
  <2>2. Base(s).p = Stub /\ Ready(Base(s)) /\ Stub # Nothing
    BY <1>2, BaseReady, TrackingFlags
  <2>3. WaitImpression(s, user) = WaitImpression(Base(s), user)
    <3>1. Stub.impression_non_considered = 0
      BY DEF Stub
    <3> DEFINE x == [(IF Stub.impression_non_considered = 0 THEN Named(Stub, user) ELSE Stub)
                         EXCEPT !.impression_non_considered = @ + 1]
    <3>2. WaitImpression(s, user) = [s EXCEPT !.p = x]
      BY <1>2 DEF WaitImpression
    <3>3. WaitImpression(Base(s), user) = [Base(s) EXCEPT !.p = x]
      BY <2>2 DEF WaitImpression
    <3> HIDE DEF x
    <3> QED  BY <3>2, <3>3 DEF Sound, IsStore, Base
  <2> QED  BY <2>1, <2>2, <2>3, StubFormed, WaitFollows
<1> QED  BY <1>1, <1>2

(* The request, and the notice that waited for it.                         *)
LEMMA RequestDoneAt ==
    ASSUME NEW s, Sound(s),
           s.p # Nothing => s.p.fraud # "moved" /\ ~s.p.request_done,
           NEW user \in User, NEW moveable, NEW r, r = RequestDone(s, user, moveable)
    PROVE  Follows(Base(s), r) /\ r.p.user_id = user /\ r.p.request_done
<1> DEFINE p == IF s.p = Nothing THEN Stub ELSE s.p
           q == [p EXCEPT !.request_done = TRUE, !.user_id = user,
                          !.notice_non_considered = FALSE]
           c == [p |-> q, told |-> s.told, operations |-> s.operations]
           d == TellTimes(c, "request", "normal", 1)
<1>1. /\ Ready(Base(s)) /\ Base(s).told = s.told /\ Base(s).operations = s.operations
      /\ Base(s).p = p /\ s.told \in Tolds
  BY BaseReady DEF Sound, IsStore
<1>2. p \in Profile /\ ~p.request_done /\ WellFormed(p) /\ p.fraud # "moved"
  BY <1>1, StubFormed DEF Ready, WellFormed
<1>3. ~p.notice_received /\ ~p.impression_verified /\ ~p.click_done /\ p.fraud = "normal"
  <2> HIDE DEF p
  <2>1. ~p.notice_received /\ ~p.impression_verified /\ ~p.click_done /\ p.fraud # "fraud"
    BY <1>2 DEF WellFormed
  <2> QED  BY <1>2, <2>1 DEF Profile
<1>4. r = IF p.notice_non_considered \/ ~tracking.notice THEN ProcessNotice(d, moveable) ELSE d
  <2>1. [s EXCEPT !.p = q] = c
    BY PutIs
  <2> QED  BY <2>1 DEF RequestDone, Tell
<1> HIDE DEF p
<1>5. /\ q \in Profile /\ q.request_done /\ q.user_id = user /\ ~q.notice_received
      /\ ~q.impression_verified /\ ~q.click_done /\ q.fraud = "normal"
  BY <1>2, <1>3 DEF Profile
<1> HIDE DEF q
<1>6. WellFormed(q) /\ IsStore(c) /\ c.p = q /\ c.told = s.told /\ c.operations = s.operations
  BY <1>1, <1>5 DEF WellFormed, IsStore
<1> HIDE DEF c
<1>7. "request" \in Kind /\ "normal" \in State
  BY DEF Kind, State
<1>8. IsStore(d) /\ d.p = q /\ d.operations = s.operations
  BY <1>6, <1>7, TellTimesResult
<1>9. Balanced(p, s.told, q, d.told)
  <2> SUFFICES ASSUME NEW k \in Bookable
      PROVE  /\ Normal(d.told, k) - Normal(s.told, k) = Count(q, k) - Count(p, k)
             /\ NetOf(d.told, k) - NetOf(s.told, k) = NetCount(q, k) - NetCount(p, k)
    BY DEF Balanced
  <2>1. Normal(s.told, k) \in Int /\ NetOf(s.told, k) \in Int
    BY <1>1, ToldIs, BookedKinds
  <2>2. /\ Normal(d.told, k) = Normal(s.told, k) + (IF k = "request" THEN 1 ELSE 0)
        /\ NetOf(d.told, k) = NetOf(s.told, k) + (IF k = "request" THEN 1 ELSE 0)
    BY <1>6, <1>7, TellBooks
  <2>3. k = "request" \/ k = "impression" \/ k = "click"
    BY DEF Bookable
  <2>4. Count(q, k) - Count(p, k) = IF k = "request" THEN 1 ELSE 0
    BY <1>2, <1>3, <1>5, <2>3 DEF Count, Done
  <2>5. NetCount(q, k) - NetCount(p, k) = IF k = "request" THEN 1 ELSE 0
    BY <1>3, <1>5, <2>4 DEF NetCount
  <2> QED  BY <2>1, <2>2, <2>4, <2>5
<1>10. Follows(Base(s), d)
  BY <1>1, <1>5, <1>6, <1>8, <1>9 DEF Follows, Ready
<1> HIDE DEF d
<1>11. CASE p.notice_non_considered \/ ~tracking.notice
  <2>1. r = ProcessNotice(d, moveable)
    BY <1>4, <1>11
  <2>2. Follows(d, r) /\ r.p.user_id = d.p.user_id /\ r.p.request_done = d.p.request_done
    BY <1>10, <2>1, NoticeFollows DEF Follows
  <2> QED  BY <1>1, <1>5, <1>8, <1>10, <2>2, FollowsOn
<1>12. CASE ~(p.notice_non_considered \/ ~tracking.notice)
  BY <1>4, <1>5, <1>8, <1>10, <1>12
<1> QED  BY <1>11, <1>12

-----------------------------------------------------------------------------
(* Moves and rollbacks.                                                    *)

LEMMA MoveByImpressionResult ==
    ASSUME NEW s, Ready(s), NEW user \in User \cup {Nothing}, NEW moveable,
           Leaves(s, user, moveable), NEW r, r = ProcessImpression(s, user, moveable)
    PROVE  /\ IsStore(r) /\ WellFormed(r.p) /\ r.p.fraud = "moved" /\ r.p.user_id = user
           /\ ~r.p.request_done /\ ~r.p.impression_verified /\ ~r.p.click_done
           /\ r.operations = BagAdd(s.operations, Op("change", user, r.p))
           /\ \A k \in Bookable :
                 /\ Normal(r.told, k) = Normal(s.told, k)
                 /\ NetOf(r.told, k) = NetOf(s.told, k) - (IF k = "request" THEN 1 ELSE 0)
<1>1. /\ s = [p |-> s.p, told |-> s.told, operations |-> s.operations] /\ s.p \in Profile
      /\ s.told \in Tolds /\ s.p # Nothing /\ ~Moved(s.p)
  BY TrackingFlags DEF IsStore
<1> DEFINE q == [s.p EXCEPT !.fraud = "moved", !.user_id = user, !.request_done = FALSE]
           ops == BagAdd(s.operations, Op("change", user, q))
           c == [p |-> q, told |-> s.told, operations |-> ops]
<1>2. ~s.p.impression_verified /\ ~s.p.click_done /\ user \in User
  BY DEF Leaves, Ready, WellFormed
<1>3. /\ q \in Profile /\ q.fraud = "moved" /\ q.user_id = user /\ ~q.request_done
      /\ ~q.impression_verified /\ ~q.click_done
  BY <1>1, <1>2 DEF Profile
<1>4. [s EXCEPT !.p = q, !.operations = BagAdd(@, Op("change", user, q))] = c
  <2> DEFINE d == [s EXCEPT !.p = q, !.operations = BagAdd(@, Op("change", user, q))]
  <2>1. d = [s EXCEPT !.p = q, !.operations = BagAdd(@, Op("change", user, q))]
    OBVIOUS
  <2> HIDE DEF d, q
  <2>2. d = [p |-> q, told |-> s.told, operations |-> BagAdd(s.operations, Op("change", user, q))]
    BY <1>1, <2>1
  <2> QED  BY <2>2 DEF d
<1>5. r = TellTimes(c, "request", "moved", 1)
  <2>1. r = MoveByImpression(s, user)
    BY <1>1, <1>2 DEF ProcessImpression, Leaves
  <2> QED  BY <1>4, <2>1 DEF MoveByImpression, Tell
<1> HIDE DEF q
<1>6. WellFormed(q)
  BY <1>2, <1>3 DEF WellFormed
<1>7. IsStore(c) /\ c.p = q /\ c.told = s.told /\ c.operations = ops
  BY <1>1 DEF IsStore
<1> HIDE DEF c
<1>8. "request" \in Kind /\ "moved" \in State
  BY DEF Kind, State
<1>9. IsStore(r) /\ r.p = q /\ r.operations = ops
  BY <1>5, <1>7, <1>8, TellTimesResult
<1>10. ASSUME NEW k \in Bookable
       PROVE  /\ Normal(r.told, k) = Normal(s.told, k)
              /\ NetOf(r.told, k) = NetOf(s.told, k) - (IF k = "request" THEN 1 ELSE 0)
  <2>1. Normal(s.told, k) \in Int /\ NetOf(s.told, k) \in Int
    BY <1>1, ToldIs, BookedKinds
  <2>2. /\ Normal(r.told, k) = Normal(s.told, k) + 0
        /\ NetOf(r.told, k) = NetOf(s.told, k) + (IF k = "request" THEN -1 ELSE 0)
    BY <1>5, <1>7, <1>8, TellBooks
  <2> QED  BY <2>1, <2>2
<1> QED  BY <1>3, <1>6, <1>9, <1>10

LEMMA MoveByRequestResult ==
    ASSUME NEW s, Ready(s), ~s.p.request_done, s.p.user_id \in User,
           NEW r, r = MoveByRequest(s)
    PROVE  /\ IsStore(r) /\ r.told = s.told /\ WellFormed(r.p) /\ r.p.fraud = "moved"
           /\ \E arg \in Profile :
                 /\ arg.user_id = s.p.user_id /\ ~arg.impression_verified /\ ~arg.click_done
                 /\ arg.fraud = "normal"
                 /\ r.operations = BagAdd(s.operations, Op("change", s.p.user_id, arg))
<1>1. /\ s = [p |-> s.p, told |-> s.told, operations |-> s.operations] /\ s.p \in Profile
      /\ s.told \in Tolds
  BY TrackingFlags DEF IsStore
<1> DEFINE q == [s.p EXCEPT !.request_done = TRUE, !.fraud = "normal"]
           m == [q EXCEPT !.fraud = "moved"]
           ops == BagAdd(s.operations, Op("change", q.user_id, q))
<1>2. ~s.p.impression_verified /\ ~s.p.click_done
  BY DEF Ready, WellFormed
<1>3. /\ q \in Profile /\ q.user_id = s.p.user_id /\ ~q.impression_verified /\ ~q.click_done
      /\ q.fraud = "normal"
  BY <1>1, <1>2 DEF Profile
<1>4. /\ m \in Profile /\ m.user_id = s.p.user_id /\ ~m.impression_verified /\ ~m.click_done
      /\ m.fraud = "moved"
  BY <1>1, <1>2 DEF Profile
<1>5. WellFormed(m)
  <2> HIDE DEF m
  <2> QED  BY <1>4 DEF WellFormed
<1>6. r = [p |-> m, told |-> s.told, operations |-> ops]
  <2>1. r = [s EXCEPT !.p = m, !.operations = BagAdd(@, Op("change", q.user_id, q))]
    BY DEF MoveByRequest
  <2> HIDE DEF m, q
  <2> QED  BY <1>1, <2>1
<1> HIDE DEF m, q
<1>7. IsStore(r) /\ r.told = s.told /\ r.p = m /\ r.operations = ops
  BY <1>1, <1>6 DEF IsStore
<1> QED  BY <1>3, <1>4, <1>5, <1>7

LEMMA RollbackFollows ==
    ASSUME NEW s, Ready(s), s.p.impression_verified, s.p.fraud = "normal",
           NEW r, r = ProcessFraudRollback(s)
    PROVE  Follows(s, r) /\ r.p.user_id = s.p.user_id /\ r.p.request_done = s.p.request_done
<1>1. /\ s = [p |-> s.p, told |-> s.told, operations |-> s.operations] /\ s.p \in Profile
      /\ s.told \in Tolds /\ s.p # Nothing
  BY TrackingFlags DEF IsStore
<1>2. s.p.request_done /\ s.p.notice_received
  BY DEF Ready, WellFormed
<1> DEFINE a == TellTimes(s, "request", "fraud", 1)
           b == TellTimes(a, "impression", "fraud", 1)
           c == IF s.p.click_done THEN TellTimes(b, "click", "fraud", 1) ELSE b
           q == [s.p EXCEPT !.fraud = "fraud"]
<1>3. r = [c EXCEPT !.p.fraud = "fraud"]
  BY <1>1, <1>2 DEF ProcessFraudRollback, TellIf, Tell
<1>4. "request" \in Kind /\ "impression" \in Kind /\ "click" \in Kind /\ "fraud" \in State
  BY DEF Kind, State
<1>5. IsStore(a) /\ a.p = s.p /\ a.operations = s.operations
  BY <1>1, <1>4, TellTimesResult DEF IsStore
<1>6. \A k \in Bookable :
         /\ Normal(a.told, k) = Normal(s.told, k) + 0
         /\ NetOf(a.told, k) = NetOf(s.told, k) + (IF k = "request" THEN -1 ELSE 0)
  <2> TAKE k \in Bookable
  <2>1. IsStore(s)
    BY DEF Ready
  <2> QED  BY <2>1, <1>4, TellBooks
<1> HIDE DEF a
<1>7. IsStore(b) /\ b.p = s.p /\ b.operations = s.operations
  BY <1>4, <1>5, TellTimesResult
<1>8. \A k \in Bookable :
         /\ Normal(b.told, k) = Normal(a.told, k) + 0
         /\ NetOf(b.told, k) = NetOf(a.told, k) + (IF k = "impression" THEN -1 ELSE 0)
  <2> TAKE k \in Bookable
  <2> QED  BY <1>4, <1>5, TellBooks
<1> HIDE DEF b
<1>9. /\ IsStore(c) /\ c.p = s.p /\ c.operations = s.operations
      /\ \A k \in Bookable :
            /\ Normal(c.told, k) = Normal(b.told, k) + 0
            /\ NetOf(c.told, k)
                  = NetOf(b.told, k) + (IF k = "click" /\ s.p.click_done THEN -1 ELSE 0)
  <2>1. CASE s.p.click_done
    <3>1. c = TellTimes(b, "click", "fraud", 1)
      BY <2>1
    <3>2. IsStore(c) /\ c.p = s.p /\ c.operations = s.operations
      BY <1>4, <1>7, <3>1, TellTimesResult
    <3>3. ASSUME NEW k \in Bookable
          PROVE  /\ Normal(c.told, k) = Normal(b.told, k) + 0
                 /\ NetOf(c.told, k) = NetOf(b.told, k) + (IF k = "click" THEN -1 ELSE 0)
      BY <1>4, <1>7, <3>1, TellBooks
    <3> QED  BY <2>1, <3>2, <3>3
  <2>2. CASE ~s.p.click_done
    <3>1. c = b
      BY <2>2
    <3>2. \A k \in Bookable : Normal(b.told, k) \in Int /\ NetOf(b.told, k) \in Int
      BY <1>7, ToldIs, BookedKinds DEF IsStore
    <3>3. \A k \in Bookable : Normal(b.told, k) = Normal(b.told, k) + 0
                            /\ NetOf(b.told, k) = NetOf(b.told, k) + 0
      BY <3>2
    <3> QED  BY <1>7, <2>2, <3>1, <3>3
  <2> QED  BY <2>1, <2>2
<1> HIDE DEF c
<1>10. r = [p |-> q, told |-> c.told, operations |-> s.operations]
  <2>1. c = [p |-> s.p, told |-> c.told, operations |-> s.operations]
    BY <1>9 DEF IsStore
  <2> QED  BY <1>3, <2>1
<1>11. /\ q \in Profile /\ q.fraud = "fraud" /\ q.user_id = s.p.user_id
       /\ q.request_done = s.p.request_done /\ q.impression_verified = s.p.impression_verified
       /\ q.click_done = s.p.click_done /\ q.notice_received = s.p.notice_received
  BY <1>1 DEF Profile
<1> HIDE DEF q
<1>12. WellFormed(q)
  BY <1>11 DEF Ready, WellFormed
<1>13. Balanced(s.p, s.told, q, c.told)
  <2> SUFFICES ASSUME NEW k \in Bookable
      PROVE  /\ Normal(c.told, k) - Normal(s.told, k) = Count(q, k) - Count(s.p, k)
             /\ NetOf(c.told, k) - NetOf(s.told, k) = NetCount(q, k) - NetCount(s.p, k)
    BY DEF Balanced
  <2>1. /\ Normal(s.told, k) \in Int /\ NetOf(s.told, k) \in Int
        /\ Normal(a.told, k) \in Int /\ NetOf(a.told, k) \in Int
        /\ Normal(b.told, k) \in Int /\ NetOf(b.told, k) \in Int
    BY <1>1, <1>5, <1>7, ToldIs, BookedKinds DEF IsStore
  <2>2. k = "request" \/ k = "impression" \/ k = "click"
    BY DEF Bookable
  <2>3. Count(q, k) = Count(s.p, k) /\ Count(s.p, k) \in Int
    BY <1>11, CountIs DEF Count, Done
  <2>4. NetCount(q, k) = 0
    BY <1>11 DEF NetCount
  <2>5. NetCount(s.p, k) = IF k = "click" /\ ~s.p.click_done THEN 0 ELSE 1
    BY <1>2, <2>2 DEF NetCount, Count, Done
  <2>6. Normal(c.told, k) = Normal(s.told, k)
    BY <1>6, <1>8, <1>9, <2>1
  <2>7. CASE k = "request"
    BY <1>6, <1>8, <1>9, <2>1, <2>3, <2>4, <2>5, <2>6, <2>7
  <2>8. CASE k = "impression"
    BY <1>6, <1>8, <1>9, <2>1, <2>3, <2>4, <2>5, <2>6, <2>8
  <2>9. CASE k = "click"
    BY <1>6, <1>8, <1>9, <2>1, <2>3, <2>4, <2>5, <2>6, <2>9
  <2> QED  BY <2>2, <2>7, <2>8, <2>9
<1> QED  BY <1>9, <1>10, <1>11, <1>12, <1>13 DEF Follows, Ready, IsStore

LEMMA ForwardResult ==
    ASSUME NEW s, Sound(s), Moved(s.p), NEW type, NEW arg,
           NEW r, r = Forward(s, Op(type, Nothing, arg))
    PROVE  /\ r = [p |-> s.p, told |-> s.told,
                   operations |-> BagAdd(s.operations, Op(type, s.p.user_id, arg))]
           /\ s.p.user_id \in User /\ IsStore(r)
<1>1. s = [p |-> s.p, told |-> s.told, operations |-> s.operations] /\ s.told \in Tolds
  BY DEF Sound, IsStore
<1>2. [Op(type, Nothing, arg) EXCEPT !.user = s.p.user_id] = Op(type, s.p.user_id, arg)
  BY DEF Op
<1>3. r = [s EXCEPT !.operations = BagAdd(@, Op(type, s.p.user_id, arg))]
  BY <1>2 DEF Forward
<1>4. r = [p |-> s.p, told |-> s.told,
           operations |-> BagAdd(s.operations, Op(type, s.p.user_id, arg))]
  BY <1>1, <1>3
<1>5. s.p.user_id \in User
  BY DEF Moved, Sound, WellFormed
<1> QED  BY <1>1, <1>4, <1>5 DEF IsStore

(* A request that was told where it left is told as RS_RESAVE.             *)
Resaved(moved, k) == IF k = "request" /\ moved.fraud # "normal" THEN 1 ELSE 0

LEMMA RequestMovedResult ==
    ASSUME NEW s, Sound(s), NEW moved \in Profile, moved.user_id \in User,
           NEW r, r = RequestMoved(s, moved)
    PROVE  /\ Ready(r) /\ r.p.request_done /\ r.operations = s.operations
           /\ \A k \in Bookable :
                 /\ Normal(r.told, k) - Normal(s.told, k) = Count(r.p, k) - Resaved(moved, k)
                 /\ NetOf(r.told, k) - NetOf(s.told, k) = NetCount(r.p, k)
<1> DEFINE e == [p |-> Nothing, told |-> s.told, operations |-> s.operations]
           f == RequestDone(e, moved.user_id, FALSE)
<1>1. s = [p |-> s.p, told |-> s.told, operations |-> s.operations] /\ s.told \in Tolds
  BY DEF Sound, IsStore
<1>2. [s EXCEPT !.p = Nothing] = e
  BY <1>1
<1>3. Sound(e) /\ e.p = Nothing /\ e.told = s.told /\ e.operations = s.operations
  BY <1>1 DEF Sound, IsStore
<1>4. /\ r = IF moved.fraud = "normal" THEN f
             ELSE [f EXCEPT !.told.request.normal = s.told.request.normal,
                            !.told.request.resave = @ + 1]
  <2> DEFINE g == RequestDone([s EXCEPT !.p = Nothing], moved.user_id, FALSE)
  <2>1. r = IF moved.fraud = "normal" THEN g
            ELSE [g EXCEPT !.told.request.normal = s.told.request.normal,
                           !.told.request.resave = @ + 1]
    BY DEF RequestMoved
  <2>2. g = f
    BY <1>2
  <2> HIDE DEF f, g
  <2> QED  BY <2>1, <2>2
<1> HIDE DEF e
<1>5. Follows(Base(e), f) /\ f.p.request_done
  BY <1>3, RequestDoneAt
<1>6. Base(e).p = Stub /\ Base(e).told = s.told /\ Base(e).operations = s.operations
  BY <1>3, BaseReady
<1> HIDE DEF f
<1>7. Ready(f) /\ f.operations = s.operations /\ IsStore(f)
  BY <1>5, <1>6 DEF Follows, Ready
<1>8. ASSUME NEW k \in Bookable
      PROVE  /\ Normal(f.told, k) = Normal(s.told, k) + Count(f.p, k)
             /\ NetOf(f.told, k) = NetOf(s.told, k) + NetCount(f.p, k)
  <2>1. /\ Normal(f.told, k) - Normal(s.told, k) = Count(f.p, k) - Count(Stub, k)
        /\ NetOf(f.told, k) - NetOf(s.told, k) = NetCount(f.p, k) - NetCount(Stub, k)
    BY <1>5, <1>6 DEF Follows, Balanced
  <2>2. Count(Stub, k) = 0 /\ NetCount(Stub, k) = 0
    BY StubFormed DEF Count, NetCount, Done
  <2>3. /\ Normal(s.told, k) \in Int /\ NetOf(s.told, k) \in Int
        /\ Normal(f.told, k) \in Int /\ NetOf(f.told, k) \in Int
    BY <1>1, <1>7, ToldIs, BookedKinds DEF IsStore
  <2>4. Count(f.p, k) \in Int /\ NetCount(f.p, k) \in Int
    BY CountIs
  <2> QED  BY <2>1, <2>2, <2>3, <2>4
<1>9. ASSUME NEW k \in Bookable
      PROVE  /\ Normal(s.told, k) \in Int /\ NetOf(s.told, k) \in Int
             /\ Count(f.p, k) \in Int /\ NetCount(f.p, k) \in Int
  BY <1>1, ToldIs, BookedKinds, CountIs
<1>10. CASE moved.fraud = "normal"
  <2>1. r = f
    BY <1>4, <1>10
  <2>2. \A k \in Bookable : Resaved(moved, k) = 0
    BY <1>10 DEF Resaved
  <2> QED  BY <1>5, <1>7, <1>8, <1>9, <2>1, <2>2
<1>11. CASE moved.fraud # "normal"
  <2> DEFINE t == [f.told EXCEPT !["request"]["normal"] = s.told["request"]["normal"],
                                 !["request"]["resave"] = @ + 1]
  <2>1. r = [f EXCEPT !.told = t]
    BY <1>4, <1>11
  <2>2. f = [p |-> f.p, told |-> f.told, operations |-> f.operations] /\ f.told \in Tolds
    BY <1>7 DEF IsStore
  <2>3. "request" \in Kind /\ "normal" \in State /\ "resave" \in State /\ "fraud" \in State
        /\ "moved" \in State
    BY DEF Kind, State
  <2>4. s.told["request"]["normal"] \in Nat /\ f.told["request"]["resave"] \in Nat
    BY <1>1, <2>2, <2>3, ToldIs
  <2>5. /\ t \in Tolds
        /\ t["request"]["normal"] = s.told["request"]["normal"]
        /\ t["request"]["resave"] = f.told["request"]["resave"] + 1
        /\ t["request"]["fraud"] = f.told["request"]["fraud"]
        /\ t["request"]["moved"] = f.told["request"]["moved"]
        /\ t["impression"] = f.told["impression"] /\ t["click"] = f.told["click"]
    BY <2>2, <2>3, <2>4 DEF Tolds, Kind
  <2> HIDE DEF t
  <2>6. r = [p |-> f.p, told |-> t, operations |-> s.operations]
    BY <1>7, <2>1, <2>2
  <2>7. Ready(r) /\ r.p = f.p /\ r.told = t /\ r.operations = s.operations
    BY <1>7, <2>5, <2>6 DEF Ready, IsStore
  <2>8. Count(f.p, "request") = 1
    BY <1>5 DEF Count, Done
  <2>9. ASSUME NEW k \in Bookable
        PROVE  /\ Normal(t, k) - Normal(s.told, k) = Count(f.p, k) - Resaved(moved, k)
               /\ NetOf(t, k) - NetOf(s.told, k) = NetCount(f.p, k)
    <3>1. CASE k = "request"
      <4>1. Resaved(moved, k) = 1
        BY <1>11, <3>1 DEF Resaved
      <4>2. /\ f.told["request"]["normal"] \in Nat /\ f.told["request"]["resave"] \in Nat
            /\ f.told["request"]["fraud"] \in Nat /\ f.told["request"]["moved"] \in Nat
        BY <2>2, <2>3, ToldIs
      <4>3. f.told["request"]["normal"] = s.told["request"]["normal"] + 1
        BY <1>8, <2>8, <3>1 DEF Normal
      <4>4. Normal(t, k) = Normal(s.told, k)
        BY <2>5, <3>1 DEF Normal
      <4>5. NetOf(t, k) = NetOf(f.told, k)
        BY <2>4, <2>5, <3>1, <4>2, <4>3 DEF NetOf
      <4>6. NetOf(t, k) = NetOf(s.told, k) + NetCount(f.p, k)
        BY <1>8, <4>5
      <4> QED  BY <1>9, <2>8, <3>1, <4>1, <4>4, <4>6
    <3>2. CASE k = "impression" \/ k = "click"
      <4>1. Resaved(moved, k) = 0
        BY <3>2 DEF Resaved
      <4>2. Normal(t, k) = Normal(f.told, k) /\ NetOf(t, k) = NetOf(f.told, k)
        BY <2>5, <3>2 DEF Normal, NetOf
      <4> QED  BY <1>8, <1>9, <4>1, <4>2
    <3> QED  BY <3>1, <3>2 DEF Bookable
  <2> QED  BY <1>5, <2>7, <2>9
<1> QED  BY <1>10, <1>11

LEMMA WaitsAre ==
    ASSUME NEW moved \in Profile, NEW old, old = Nothing \/ WellFormed(old)
    PROVE  /\ Waits(moved, old).impressions \in Nat /\ Waits(moved, old).clicks \in Nat
           /\ Waits(moved, old).actions \in Nat
<1> DEFINE stub == Opened(old)
<1>1. stub \in Profile
  BY StubFormed DEF Opened, WellFormed
<1> HIDE DEF stub
<1>2. /\ moved.impression_non_considered \in Nat /\ stub.impression_non_considered \in Nat
      /\ moved.click_non_considered \in Nat /\ stub.click_non_considered \in Nat
      /\ moved.actions_non_considered \in Nat /\ moved.actions_done \in Nat
  BY <1>1 DEF Profile
<1>3. (IF moved.click_done THEN 1 ELSE 0) \in Nat
  OBVIOUS
<1>4. 2 * (moved.actions_non_considered + moved.actions_done) \in Nat
      /\ moved.actions_non_considered + moved.actions_done \in Nat
  BY <1>2
<1>5. Waits(moved, old).actions \in Nat
  BY <1>4 DEF Waits
<1>6. Waits(moved, old).impressions
         = moved.impression_non_considered + stub.impression_non_considered
  BY DEF Waits, stub
<1>7. Waits(moved, old).clicks
         = (IF moved.click_done THEN 1 ELSE 0)
              + moved.click_non_considered + stub.click_non_considered
  BY DEF Waits, stub
<1> QED  BY <1>2, <1>3, <1>5, <1>6, <1>7

(* What a moved request books with its new owner.                          *)
LEMMA ChangeResult ==
    ASSUME NEW s, Sound(s), NEW moved \in Profile, moved.user_id \in User,
           NEW r, r = ChangeRequestUser(s, moved)
    PROVE  /\ Ready(r) /\ r.p.request_done /\ r.operations = s.operations
           /\ \A k \in Bookable :
                 /\ Normal(r.told, k) - Normal(s.told, k) = Count(r.p, k) - Resaved(moved, k)
                 /\ NetOf(r.told, k) - NetOf(s.told, k) = NetCount(r.p, k)
<1> DEFINE waits == Waits(moved, s.p)
           request == RequestMoved(s, moved)
           i == IF waits.impressions > 0 \/ waits.clicks > 0
                THEN Less1(waits.impressions) ELSE request.p.impression_non_considered
           c == IF waits.clicks > 0 THEN waits.clicks - 1 ELSE request.p.click_non_considered
           q == [request.p EXCEPT !.impression_non_considered = i, !.click_non_considered = c]
           restored == [request EXCEPT !.p.impression_non_considered =
                                           IF waits.impressions > 0 \/ waits.clicks > 0
                                           THEN Less1(waits.impressions) ELSE @,
                                       !.p.click_non_considered =
                                           IF waits.clicks > 0 THEN waits.clicks - 1 ELSE @]
           impression == ProcessImpression(restored, moved.user_id, FALSE)
           notice == IF waits.notice THEN ProcessNotice(impression, FALSE) ELSE impression
           click == IF waits.clicks > 0 THEN ProcessClick(notice, FALSE) ELSE notice
           post == ProcessPostActions(click, moved.post_impression_actions)
<1>1. waits.impressions \in Nat /\ waits.clicks \in Nat /\ waits.actions \in Nat
  BY WaitsAre DEF Sound
<1>2. /\ Ready(request) /\ request.p.request_done /\ request.operations = s.operations
      /\ \A k \in Bookable :
            /\ Normal(request.told, k) - Normal(s.told, k)
                  = Count(request.p, k) - Resaved(moved, k)
            /\ NetOf(request.told, k) - NetOf(s.told, k) = NetCount(request.p, k)
  BY RequestMovedResult
<1>3. r = ProcessActions(post, waits.actions)
  BY DEF ChangeRequestUser
<1> HIDE DEF waits, request
<1>13. restored = [request EXCEPT !.p = q]
  <2>1. request = [p |-> request.p, told |-> request.told, operations |-> request.operations]
        /\ request.p \in Profile
    BY <1>2 DEF Ready, IsStore, WellFormed
  <2>2. restored = [request EXCEPT !.p.impression_non_considered = i,
                                   !.p.click_non_considered = c]
    BY <2>1 DEF Profile
  <2> HIDE DEF i, c, restored
  <2> QED  BY <2>1, <2>2 DEF Profile
<1>4. SameFlags(request.p, q)
  <2>1. request.p \in Profile
    BY <1>2 DEF Ready, WellFormed
  <2>2. i \in Nat /\ c \in Nat
    BY <1>1, <2>1 DEF Less1, Profile
  <2> HIDE DEF i, c
  <2> QED  BY <2>1, <2>2 DEF SameFlags, Profile
<1> HIDE DEF q
<1>5. Follows(request, restored)
  <2> HIDE DEF restored
  <2> QED  BY <1>2, <1>4, <1>13, PutFollows
<1>14. restored.p = q
  <2> HIDE DEF restored
  <2> QED  BY <1>2, <1>4, <1>13, PutFollows
<1> HIDE DEF restored
<1>6. Follows(request, impression) /\ impression.p.request_done
  <2>1. ~Leaves(restored, moved.user_id, FALSE)
    BY DEF Leaves
  <2>4. moved.user_id \in User \cup {Nothing}
    OBVIOUS
  <2>5. Ready(restored)
    BY <1>5 DEF Follows
  <2>2. /\ Follows(restored, impression) /\ NamedBy(restored, impression, moved.user_id)
        /\ impression.p.request_done = restored.p.request_done
    <3> DEFINE m == FALSE
               x == ProcessImpression(restored, moved.user_id, m)
    <3>1. ~Leaves(restored, moved.user_id, m)
      BY <2>1
    <3> HIDE DEF m
    <3>2. /\ Follows(restored, x) /\ NamedBy(restored, x, moved.user_id)
          /\ x.p.request_done = restored.p.request_done
      BY <2>4, <2>5, <3>1, ImpressionFollows
    <3> QED  BY <3>2 DEF m
  <2>3. restored.p.request_done
    BY <1>2, <1>4, <1>14 DEF SameFlags
  <2> QED  BY <1>2, <1>5, <2>2, <2>3, FollowsOn
<1> HIDE DEF impression
<1>7. Follows(request, notice) /\ notice.p.request_done
  <2>1. CASE waits.notice
    <3>1. Follows(impression, notice) /\ notice.p.request_done = impression.p.request_done
      BY <1>6, <2>1, NoticeFollows DEF Follows
    <3> QED  BY <1>2, <1>6, <3>1, FollowsOn
  <2> QED  BY <1>6, <2>1
<1> HIDE DEF notice
<1>8. Follows(request, click) /\ click.p.request_done
  <2>1. CASE waits.clicks > 0
    <3>1. Follows(notice, click) /\ click.p.request_done = notice.p.request_done
      BY <1>7, <2>1, ClickFollows DEF Follows
    <3> QED  BY <1>2, <1>7, <3>1, FollowsOn
  <2> QED  BY <1>7, <2>1
<1> HIDE DEF click
<1>9. Follows(request, post) /\ post.p.request_done
  <2>1. moved.post_impression_actions \in SUBSET PostAction
    BY DEF Profile
  <2>2. Follows(click, post) /\ SameFlags(click.p, post.p)
    BY <1>8, <2>1, PostActionsFollow DEF Follows
  <2> QED  BY <1>2, <1>8, <2>2, FollowsOn DEF SameFlags
<1> HIDE DEF post
<1>10. Follows(request, r) /\ r.p.request_done
  <2>1. Follows(post, r) /\ SameFlags(post.p, r.p)
    BY <1>1, <1>3, <1>9, ActionsFollow DEF Follows
  <2> QED  BY <1>2, <1>9, <2>1, FollowsOn DEF SameFlags
<1>11. ASSUME NEW k \in Bookable
       PROVE  /\ Normal(r.told, k) - Normal(s.told, k) = Count(r.p, k) - Resaved(moved, k)
              /\ NetOf(r.told, k) - NetOf(s.told, k) = NetCount(r.p, k)
  <2> DEFINE ns == Normal(s.told, k)  nq == Normal(request.told, k)  nr == Normal(r.told, k)
             ts == NetOf(s.told, k)   tq == NetOf(request.told, k)   tr == NetOf(r.told, k)
             cq == Count(request.p, k)     cr == Count(r.p, k)    x == Resaved(moved, k)
             mq == NetCount(request.p, k)  mr == NetCount(r.p, k)
  <2>1. ns \in Int /\ nq \in Int /\ nr \in Int /\ ts \in Int /\ tq \in Int /\ tr \in Int
    BY <1>2, <1>10, ToldIs, BookedKinds DEF Follows, Ready, IsStore, Sound
  <2>2. cq \in Int /\ cr \in Int /\ mq \in Int /\ mr \in Int
    BY CountIs
  <2>3. x \in Int
    BY DEF Resaved
  <2>4. nq - ns = cq - x /\ tq - ts = mq
    BY <1>2
  <2>5. nr - nq = cr - cq /\ tr - tq = mr - mq
    BY <1>10 DEF Follows, Balanced
  <2> HIDE DEF ns, nq, nr, ts, tq, tr, cq, cr, x, mq, mr
  <2>6. nr - ns = cr - x /\ tr - ts = mr
    BY <2>1, <2>2, <2>3, <2>4, <2>5
  <2> QED  BY <2>6 DEF ns, nr, ts, tr, cr, x, mr
<1>12. Ready(r) /\ r.operations = s.operations
  BY <1>2, <1>10 DEF Follows
<1> QED  BY <1>10, <1>11, <1>12

-----------------------------------------------------------------------------
(* What is handed on between the owners.                                   *)

OpOK(op) ==
    /\ op = Op(op.type, op.user, op.arg)
    /\ op.type \in {"change", "notice", "impression", "click", "action", "post"}
    /\ op.user \in User
    /\ op.type = "change" => op.arg \in Profile /\ op.arg.user_id = op.user
    /\ op.type = "post" => op.arg \in PostAction

OpsOK(ops) ==
    /\ ops \in [DOMAIN ops -> Nat \ {0}]
    /\ \A op \in DOMAIN ops : OpOK(op)

LEMMA AddedIs ==
    ASSUME NEW ops, NEW op
    PROVE  /\ DOMAIN BagAdd(ops, op) = DOMAIN ops \cup {op}
           /\ \A x \in DOMAIN ops : x # op => BagAdd(ops, op)[x] = ops[x]
           /\ op \in DOMAIN ops => BagAdd(ops, op)[op] = ops[op] + 1
           /\ op \notin DOMAIN ops => BagAdd(ops, op)[op] = 1
BY DEF BagAdd

LEMMA Added ==
    ASSUME NEW ops, OpsOK(ops), NEW op, OpOK(op)
    PROVE  OpsOK(BagAdd(ops, op))
<1> DEFINE new == BagAdd(ops, op)
<1>1. /\ DOMAIN new = DOMAIN ops \cup {op}
      /\ \A x \in DOMAIN ops : x # op => new[x] = ops[x]
      /\ op \in DOMAIN ops => new[op] = ops[op] + 1
      /\ op \notin DOMAIN ops => new[op] = 1
  BY AddedIs
<1>5. new = [x \in DOMAIN new |-> new[x]]
  BY DEF BagAdd
<1> HIDE DEF new
<1>2. \A x \in DOMAIN ops : ops[x] \in Nat \ {0} /\ OpOK(x)
  BY DEF OpsOK
<1>3. \A x \in DOMAIN new : new[x] \in Nat \ {0} /\ OpOK(x)
  BY <1>1, <1>2
<1>4. new \in [DOMAIN new -> Nat \ {0}]
  BY <1>3, <1>5
<1> QED  BY <1>3, <1>4 DEF OpsOK, new

LEMMA Removed ==
    ASSUME NEW ops, OpsOK(ops), NEW op \in DOMAIN ops, NEW new, new = BagRemove(ops, op)
    PROVE  /\ OpsOK(new) /\ DOMAIN new \subseteq DOMAIN ops
           /\ \A x \in DOMAIN ops : x # op => x \in DOMAIN new /\ new[x] = ops[x]
           /\ ops[op] = 1 => op \notin DOMAIN new
<1>1. ops \in [DOMAIN ops -> Nat \ {0}]
  BY DEF OpsOK
<1>2. CASE ops[op] = 1
  <2>1. new = [e \in DOMAIN ops \ {op} |-> ops[e]]
    BY <1>2 DEF BagRemove
  <2>2. DOMAIN new = DOMAIN ops \ {op} /\ new \in [DOMAIN ops \ {op} -> Nat \ {0}]
    BY <1>1, <2>1
  <2> QED  BY <2>1, <2>2 DEF OpsOK
<1>3. CASE ops[op] # 1
  <2>1. new = [e \in DOMAIN ops |-> IF e = op THEN ops[e] - 1 ELSE ops[e]]
    BY <1>3 DEF BagRemove
  <2>2. \A e \in DOMAIN ops : ops[e] \in Nat \ {0}
    BY <1>1
  <2>3. ops[op] - 1 \in Nat \ {0}
    BY <1>3, <2>2
  <2>4. DOMAIN new = DOMAIN ops /\ new \in [DOMAIN ops -> Nat \ {0}]
    BY <2>1, <2>2, <2>3
  <2> QED  BY <1>3, <2>1, <2>4 DEF OpsOK
<1> QED  BY <1>2, <1>3

-----------------------------------------------------------------------------
(* A request is booked by the owner whose profile has it and has not       *)
(* handed it on.  A transaction is steady if it does not change who that   *)
(* is: what it tells is what the profile of a booked request gets.         *)

Active(p) == p # Nothing /\ p.fraud # "moved" /\ p.request_done

Steady(s, r, user) ==
    /\ Sound(r)
    /\ Active(r.p) <=> Active(s.p)
    /\ Active(s.p) => Balanced(s.p, s.told, r.p, r.told)
    /\ ~Active(s.p) => SameBooks(s.told, r.told)
    /\ \/ /\ r.operations = s.operations
          /\ \/ r.p = s.p
             \/ r.p # Nothing /\ r.p.fraud # "moved" /\ NamedBy(Base(s), r, user)
       \/ /\ Moved(s.p) /\ r.p = s.p
          /\ \E op : OpOK(op) /\ op.type # "change" /\ r.operations = BagAdd(s.operations, op)

LEMMA UnbookedCounts ==
    ASSUME NEW p, WellFormed(p), p.fraud # "moved", ~p.request_done, NEW k \in Bookable
    PROVE  Count(p, k) = 0 /\ NetCount(p, k) = 0
BY DEF WellFormed, Count, NetCount, Done

LEMMA FollowsIsSteady ==
    ASSUME NEW s, Sound(s), NEW r, NEW user, Follows(Base(s), r), NamedBy(Base(s), r, user),
           r.p.request_done = Base(s).p.request_done
    PROVE  Steady(s, r, user)
<1>1. Ready(r) /\ r.operations = s.operations /\ Balanced(Base(s).p, s.told, r.p, r.told)
  BY BaseReady DEF Follows
<1>2. Sound(r) /\ r.p # Nothing /\ r.p.fraud # "moved" /\ r.told \in Tolds
  BY <1>1, TrackingFlags DEF Sound, Ready
<1>3. CASE s.p # Nothing /\ s.p.fraud # "moved"
  <2>1. Base(s) = s
    BY <1>3, BaseReady
  <2>2. Active(r.p) <=> Active(s.p)
    BY <1>2, <1>3, <2>1 DEF Active
  <2>3. ASSUME ~Active(s.p), NEW k \in Bookable
        PROVE  Normal(r.told, k) = Normal(s.told, k) /\ NetOf(r.told, k) = NetOf(s.told, k)
    <3>1. ~s.p.request_done /\ ~r.p.request_done
      BY <1>3, <2>1, <2>3 DEF Active
    <3>2. Count(s.p, k) = 0 /\ NetCount(s.p, k) = 0 /\ Count(r.p, k) = 0 /\ NetCount(r.p, k) = 0
      BY <1>1, <1>3, <3>1, UnbookedCounts DEF Ready, Sound
    <3>3. /\ Normal(r.told, k) - Normal(s.told, k) = 0
          /\ NetOf(r.told, k) - NetOf(s.told, k) = 0
      BY <1>1, <2>1, <3>2 DEF Balanced
    <3>4. /\ Normal(r.told, k) \in Int /\ Normal(s.told, k) \in Int
          /\ NetOf(r.told, k) \in Int /\ NetOf(s.told, k) \in Int
      BY <1>2, ToldIs, BookedKinds DEF Sound, IsStore
    <3> QED  BY <3>3, <3>4
  <2> QED  BY <1>1, <1>2, <2>1, <2>2, <2>3 DEF Steady, SameBooks
<1>4. CASE s.p = Nothing \/ s.p.fraud = "moved"
  <2>1. Base(s).p = Stub
    BY <1>4, BaseReady
  <2>2. ~Active(r.p) /\ ~Active(s.p) /\ ~r.p.request_done
    BY <1>2, <1>4, <2>1, StubFormed DEF Active
  <2>3. ASSUME NEW k \in Bookable
        PROVE  Normal(r.told, k) = Normal(s.told, k) /\ NetOf(r.told, k) = NetOf(s.told, k)
    <3>2. Count(Stub, k) = 0 /\ NetCount(Stub, k) = 0 /\ Count(r.p, k) = 0 /\ NetCount(r.p, k) = 0
      BY <1>1, <2>2, UnbookedCounts, StubFormed DEF Ready
    <3>3. /\ Normal(r.told, k) - Normal(s.told, k) = 0
          /\ NetOf(r.told, k) - NetOf(s.told, k) = 0
      BY <1>1, <2>1, <3>2 DEF Balanced
    <3>4. /\ Normal(r.told, k) \in Int /\ Normal(s.told, k) \in Int
          /\ NetOf(r.told, k) \in Int /\ NetOf(s.told, k) \in Int
      BY <1>2, ToldIs, BookedKinds DEF Sound, IsStore
    <3> QED  BY <3>3, <3>4
  <2> QED  BY <1>1, <1>2, <2>2, <2>3 DEF Steady, SameBooks
<1> QED  BY <1>3, <1>4

LEMMA SameIsSteady ==
    ASSUME NEW s, Sound(s), NEW r, IsStore(r), r.p = s.p, r.operations = s.operations,
           SameBooks(s.told, r.told), NEW user
    PROVE  Steady(s, r, user)
<1>1. Sound(r)
  BY DEF Sound
<1>2. ASSUME Active(s.p)
      PROVE  Balanced(s.p, s.told, r.p, r.told)
  <2>1. SameFlags(s.p, r.p) /\ s.told \in Tolds
    BY <1>2 DEF Active, Sound, IsStore, WellFormed, SameFlags
  <2> QED  BY <2>1, SameIsBalanced
<1> QED  BY <1>1, <1>2 DEF Steady

LEMMA ForwardIsSteady ==
    ASSUME NEW s, Sound(s), Moved(s.p),
           NEW type \in {"notice", "impression", "click", "action", "post"}, NEW arg,
           type = "post" => arg \in PostAction,
           NEW r, r = Forward(s, Op(type, Nothing, arg)), NEW user
    PROVE  Steady(s, r, user)
<1> DEFINE op == Op(type, s.p.user_id, arg)
<1>1. /\ r = [p |-> s.p, told |-> s.told, operations |-> BagAdd(s.operations, op)]
      /\ s.p.user_id \in User /\ IsStore(r)
  BY ForwardResult
<1>2. OpOK(op) /\ op.type # "change"
  BY <1>1 DEF OpOK, Op
<1> HIDE DEF op
<1>3. Sound(r) /\ ~Active(s.p) /\ r.p = s.p /\ SameBooks(s.told, r.told)
      /\ r.operations = BagAdd(s.operations, op)
  BY <1>1 DEF Sound, Active, Moved, SameBooks
<1> QED  BY <1>2, <1>3 DEF Steady

LEMMA ClickSteady ==
    ASSUME NEW s, Sound(s), NEW moveable, NEW r, r = ProcessClick(s, moveable), NEW user
    PROVE  Steady(s, r, user)
<1>1. CASE Moved(s.p) /\ moveable
  <2>1. r = Forward(s, Op("click", Nothing, Nothing))
    BY <1>1 DEF ProcessClick
  <2> QED  BY <1>1, <2>1, ForwardIsSteady
<1>2. CASE ~(Moved(s.p) /\ moveable)
  BY <1>2, ClickAt, FollowsIsSteady DEF NamedBy
<1> QED  BY <1>1, <1>2

LEMMA ActionSteady ==
    ASSUME NEW s, Sound(s), NEW moveable, NEW r, r = ProcessAction(s, moveable), NEW user
    PROVE  Steady(s, r, user)
<1>1. CASE Moved(s.p) /\ moveable
  <2>1. r = Forward(s, Op("action", Nothing, Nothing))
    BY <1>1 DEF ProcessAction
  <2> QED  BY <1>1, <2>1, ForwardIsSteady
<1>2. CASE ~(Moved(s.p) /\ moveable)
  BY <1>2, ActionAt, FollowsIsSteady DEF NamedBy
<1> QED  BY <1>1, <1>2

LEMMA PostActionSteady ==
    ASSUME NEW s, Sound(s), NEW moveable, NEW name \in PostAction,
           NEW r, r = ProcessPostAction(s, name, moveable), NEW user
    PROVE  Steady(s, r, user)
<1>1. CASE Moved(s.p) /\ moveable
  <2>1. r = Forward(s, Op("post", Nothing, name))
    BY <1>1 DEF ProcessPostAction
  <2> QED  BY <1>1, <2>1, ForwardIsSteady
<1>2. CASE ~(Moved(s.p) /\ moveable)
  BY <1>2, PostActionAt, FollowsIsSteady DEF NamedBy
<1> QED  BY <1>1, <1>2

LEMMA NoticeSteady ==
    ASSUME NEW s, Sound(s), NEW moveable, NEW r, r = ProcessNotice(s, moveable), NEW user
    PROVE  Steady(s, r, user)
<1>1. CASE Moved(s.p) /\ moveable
  <2>1. r = Forward(s, Op("notice", Nothing, Nothing))
    BY <1>1 DEF ProcessNotice
  <2> QED  BY <1>1, <2>1, ForwardIsSteady
<1>2. CASE ~(Moved(s.p) /\ moveable)
  BY <1>2, NoticeAt, FollowsIsSteady DEF NamedBy
<1> QED  BY <1>1, <1>2

LEMMA ImpressionSteady ==
    ASSUME NEW s, Sound(s), NEW user \in User \cup {Nothing}, NEW moveable,
           s.p # Nothing /\ s.p.fraud # "moved" => ~Leaves(s, user, moveable),
           NEW r, r = ProcessImpression(s, user, moveable)
    PROVE  Steady(s, r, user)
<1>1. CASE Moved(s.p) /\ moveable
  <2>1. r = Forward(s, Op("impression", Nothing, Nothing))
    BY <1>1 DEF ProcessImpression, SecondImpression, Moved
  <2> QED  BY <1>1, <2>1, ForwardIsSteady
<1>2. CASE Moved(s.p) /\ ~moveable
  <2>1. r = TellTimes(s, "impression", "duplicate", 1)
    BY <1>2 DEF ProcessImpression, SecondImpression, Moved, Tell
  <2>2. "impression" \in Kind /\ "duplicate" \in State /\ IsStore(s)
    BY DEF Kind, State, Sound
  <2>3. IsStore(r) /\ r.p = s.p /\ r.operations = s.operations
    BY <2>1, <2>2, TellTimesResult
  <2>4. SameBooks(s.told, r.told)
    BY <2>1, <2>2, TellOther
  <2> QED  BY <2>3, <2>4, SameIsSteady
<1>3. CASE ~Moved(s.p)
  <2>1. s.p = Nothing \/ s.p.fraud # "moved"
    BY <1>3 DEF Moved
  <2> QED  BY <2>1, ImpressionAt, FollowsIsSteady
<1> QED  BY <1>1, <1>2, <1>3

LEMMA RollbackSteady ==
    ASSUME NEW s, Sound(s), s.p # Nothing, s.p.impression_verified, s.p.fraud = "normal",
           NEW r, r = ProcessFraudRollback(s), NEW user
    PROVE  Steady(s, r, user)
<1>1. Base(s) = s /\ Ready(s)
  BY BaseReady
<1> QED  BY <1>1, RollbackFollows, FollowsIsSteady DEF NamedBy

(* The request of a stub that names another user goes to that user.        *)
MovesAway(s, r) ==
    /\ s.p # Nothing /\ s.p.fraud # "moved" /\ ~s.p.request_done
    /\ s.p.user_id \notin {Nothing, RequestUser}
    /\ Sound(r) /\ ~Active(r.p) /\ r.told = s.told
    /\ \E op : /\ OpOK(op) /\ op.type = "change" /\ op.arg.fraud = "normal"
               /\ r.operations = BagAdd(s.operations, op)

Begins(s, r) ==
    /\ s.p = Nothing \/ (s.p.fraud # "moved" /\ ~s.p.request_done)
    /\ Follows(Base(s), r) /\ r.p.user_id = RequestUser /\ r.p.request_done

LEMMA RequestResult ==
    ASSUME NEW s, Sound(s), NEW r, r = ProcessRequest(s, RequestUser, TRUE)
    PROVE  \/ r = s /\ s.p # Nothing /\ (s.p.request_done \/ s.p.fraud = "moved")
           \/ MovesAway(s, r)
           \/ Begins(s, r)
<1>1. CASE s.p # Nothing /\ (s.p.request_done \/ s.p.fraud = "moved")
  BY <1>1 DEF ProcessRequest, Moved
<1>2. CASE s.p # Nothing /\ ~s.p.request_done /\ s.p.fraud # "moved"
           /\ s.p.user_id \notin {Nothing, RequestUser}
  <2>1. r = MoveByRequest(s)
    BY <1>2 DEF ProcessRequest, Moved
  <2>2. Ready(s) /\ s.p \in Profile
    BY <1>2, BaseReady DEF Ready, WellFormed
  <2>3. s.p.user_id \in User
    BY <1>2, <2>2 DEF Profile
  <2>4. IsStore(r) /\ r.told = s.told /\ WellFormed(r.p) /\ r.p.fraud = "moved"
    BY <1>2, <2>1, <2>2, <2>3, MoveByRequestResult
  <2>5. PICK arg \in Profile :
           /\ arg.user_id = s.p.user_id /\ arg.fraud = "normal"
           /\ r.operations = BagAdd(s.operations, Op("change", s.p.user_id, arg))
    BY <1>2, <2>1, <2>2, <2>3, MoveByRequestResult
  <2>6. /\ OpOK(Op("change", s.p.user_id, arg))
        /\ Op("change", s.p.user_id, arg).type = "change"
        /\ Op("change", s.p.user_id, arg).arg.fraud = "normal"
    BY <2>3, <2>5 DEF OpOK, Op
  <2> QED  BY <1>2, <2>4, <2>5, <2>6 DEF MovesAway, Sound, Active
<1>3. CASE \/ s.p = Nothing
           \/ /\ s.p # Nothing /\ ~s.p.request_done /\ s.p.fraud # "moved"
              /\ s.p.user_id \in {Nothing, RequestUser}
  <2>1. r = RequestDone(s, RequestUser, TRUE)
    BY <1>3 DEF ProcessRequest, Moved
  <2>3. RequestUser \in User
    BY OwnerAssumption
  <2>4. s.p # Nothing => s.p.fraud # "moved" /\ ~s.p.request_done
    BY <1>3
  <2>5. Follows(Base(s), r) /\ r.p.user_id = RequestUser /\ r.p.request_done
    <3>1. \A m, x : x = RequestDone(s, RequestUser, m) =>
             Follows(Base(s), x) /\ x.p.user_id = RequestUser /\ x.p.request_done
      BY <2>3, <2>4, RequestDoneAt
    <3> QED  BY <2>1, <3>1
  <2> QED  BY <2>4, <2>5 DEF Begins
<1> QED  BY <1>1, <1>2, <1>3

(* An impression with another user id takes the request away.              *)
Departs(s, r) ==
    /\ Active(s.p) /\ Sound(r) /\ ~Active(r.p)
    /\ s.p.fraud = "normal" /\ ~s.p.impression_verified /\ ~s.p.click_done
    /\ \E op : /\ OpOK(op) /\ op.type = "change" /\ op.arg.fraud = "moved"
               /\ r.operations = BagAdd(s.operations, op)
    /\ \A k \in Bookable :
          /\ Normal(r.told, k) = Normal(s.told, k)
          /\ NetOf(r.told, k) = NetOf(s.told, k) - (IF k = "request" THEN 1 ELSE 0)

LEMMA DepartResult ==
    ASSUME NEW s, Sound(s), s.p # Nothing, s.p.fraud # "moved",
           NEW user \in User \cup {Nothing}, NEW moveable, Leaves(s, user, moveable),
           NEW r, r = ProcessImpression(s, user, moveable)
    PROVE  Departs(s, r)
<1>1. Ready(s) /\ s.p \in Profile
  BY BaseReady DEF Ready, WellFormed
<1>2. /\ IsStore(r) /\ WellFormed(r.p) /\ r.p.fraud = "moved" /\ r.p.user_id = user
      /\ r.operations = BagAdd(s.operations, Op("change", user, r.p))
      /\ \A k \in Bookable :
            /\ Normal(r.told, k) = Normal(s.told, k)
            /\ NetOf(r.told, k) = NetOf(s.told, k) - (IF k = "request" THEN 1 ELSE 0)
  BY <1>1, MoveByImpressionResult
<1>3. user \in User /\ ~s.p.impression_verified /\ Active(s.p)
  BY DEF Leaves, Active
<1>4. /\ OpOK(Op("change", user, r.p))
      /\ Op("change", user, r.p).type = "change" /\ Op("change", user, r.p).arg.fraud = "moved"
  BY <1>2, <1>3 DEF OpOK, Op, WellFormed
<1>5. s.p.fraud = "normal" /\ ~s.p.click_done
  BY <1>1, <1>3 DEF Ready, WellFormed, Profile
<1> QED  BY <1>2, <1>3, <1>4, <1>5 DEF Departs, Sound, Active

-----------------------------------------------------------------------------
(* What the state holds.                                                   *)

Typed ==
    /\ home \in Homes /\ tracking \in Trackings /\ arrived \in [Record -> Nat]
    /\ profile \in [Owner -> Profile \cup {Nothing}]
    /\ \A o \in Owner : profile[o] = Nothing \/ WellFormed(profile[o])
    /\ OpsOK(operations) /\ told \in Tolds

LEMMA AtIs ==
    ASSUME Typed, NEW o \in Owner
    PROVE  /\ Sound(At(o)) /\ At(o).p = profile[o] /\ At(o).told = told
           /\ At(o).operations = operations /\ OpsOK(At(o).operations)
BY DEF Typed, At, Sound, IsStore

Taken(o, op) == [At(o) EXCEPT !.operations = BagRemove(@, op)]

LEMMA TakenIs ==
    ASSUME Typed, NEW o \in Owner, NEW op \in DOMAIN operations
    PROVE  /\ Sound(Taken(o, op)) /\ Taken(o, op).p = profile[o] /\ Taken(o, op).told = told
           /\ Taken(o, op).operations = BagRemove(operations, op)
           /\ OpsOK(Taken(o, op).operations)
<1>1. Taken(o, op) = [p |-> profile[o], told |-> told, operations |-> BagRemove(operations, op)]
  BY DEF Taken, At
<1>2. OpsOK(BagRemove(operations, op))
  BY Removed DEF Typed
<1> QED  BY <1>1, <1>2 DEF Typed, Sound, IsStore

LEMMA ProfileSaved ==
    ASSUME Typed, NEW o \in Owner, NEW r, SaveProfile(o, r), Sound(r), OpsOK(r.operations),
           UNCHANGED <<home, tracking>>, arrived' \in [Record -> Nat]
    PROVE  Typed'
<1>1. /\ profile' = [profile EXCEPT ![o] = r.p] /\ told' = r.told
      /\ operations' = r.operations
  BY DEF SaveProfile
<1>2. r.p \in Profile \cup {Nothing} /\ r.told \in Tolds /\ (r.p = Nothing \/ WellFormed(r.p))
  BY DEF Sound, IsStore, WellFormed
<1>3. profile' \in [Owner -> Profile \cup {Nothing}]
  BY <1>1, <1>2 DEF Typed
<1>4. \A x \in Owner : profile'[x] = Nothing \/ WellFormed(profile'[x])
  BY <1>1, <1>2 DEF Typed
<1> QED  BY <1>1, <1>2, <1>3, <1>4 DEF Typed

LEMMA ArriveIs ==
    ASSUME Typed, NEW record \in Record, Arrive(record)
    PROVE  /\ arrived' \in [Record -> Nat] /\ arrived' \in Arrivals
           /\ UNCHANGED <<home, tracking>>
           /\ arrived'[record] = arrived[record] + 1
           /\ \A x \in Record : x # record => arrived'[x] = arrived[x]
<1>1. arrived \in [Record -> Nat] /\ arrived' = [arrived EXCEPT ![record] = @ + 1]
  BY DEF Typed, Arrive
<1>2. arrived[record] + 1 \in Nat
  BY <1>1
<1> QED  BY <1>1, <1>2 DEF Arrive

(* The operations for a move are the same.                                 *)
SameMoves(ops, new) ==
    \A x : x.type = "change" =>
        /\ x \in DOMAIN new <=> x \in DOMAIN ops
        /\ x \in DOMAIN ops => new[x] = ops[x]

LEMMA SteadyMoves ==
    ASSUME NEW s, OpsOK(s.operations), NEW r, NEW user, Steady(s, r, user)
    PROVE  OpsOK(r.operations) /\ SameMoves(s.operations, r.operations)
<1>1. CASE r.operations = s.operations
  BY <1>1 DEF SameMoves
<1>2. CASE \E op : /\ OpOK(op) /\ op.type # "change"
                   /\ r.operations = BagAdd(s.operations, op)
  <2>1. PICK op : /\ OpOK(op) /\ op.type # "change"
                  /\ r.operations = BagAdd(s.operations, op)
    BY <1>2
  <2>3. OpsOK(r.operations)
    BY <2>1, Added
  <2>2. /\ DOMAIN r.operations = DOMAIN s.operations \cup {op}
        /\ \A x \in DOMAIN s.operations : x # op => r.operations[x] = s.operations[x]
    <3>1. r.operations = BagAdd(s.operations, op)
      BY <2>1
    <3> QED  BY <3>1 DEF BagAdd
  <2> QED  BY <2>1, <2>2, <2>3 DEF SameMoves
<1> QED  BY <1>1, <1>2 DEF Steady

LEMMA OperationIs ==
    ASSUME NEW s, Sound(s), NEW op, OpOK(op), op.type # "change",
           NEW r, r = Processed(s, op)
    PROVE  Steady(s, r, op.user)
<1>1. op.user \in User \cup {Nothing}
  BY DEF OpOK
<1> DEFINE m == FALSE
<1>2. /\ op.type = "notice" => r = ProcessNotice(s, m)
      /\ op.type = "impression" => r = ProcessImpression(s, op.user, m)
      /\ op.type = "click" => r = ProcessClick(s, m)
      /\ op.type = "action" => r = ProcessAction(s, m)
      /\ op.type = "post" => r = ProcessPostAction(s, op.arg, m)
  BY DEF Processed
<1>3. ~Leaves(s, op.user, m)
  BY DEF Leaves
<1> HIDE DEF m
<1>4. CASE op.type = "notice"
  BY <1>2, <1>4, NoticeSteady
<1>5. CASE op.type = "impression"
  BY <1>1, <1>2, <1>3, <1>5, ImpressionSteady
<1>6. CASE op.type = "click"
  BY <1>2, <1>6, ClickSteady
<1>7. CASE op.type = "action"
  BY <1>2, <1>7, ActionSteady
<1>8. CASE op.type = "post"
  <2>1. op.arg \in PostAction
    BY <1>8 DEF OpOK
  <2> QED  BY <1>2, <1>8, <2>1, PostActionSteady
<1> QED  BY <1>4, <1>5, <1>6, <1>7, <1>8 DEF OpOK

-----------------------------------------------------------------------------
(* The type invariant.                                                     *)

(* A request that has moved is booked anew.                                *)
Settles(s, r, moved) ==
    /\ Ready(r) /\ r.p.request_done /\ r.operations = s.operations
    /\ \A k \in Bookable :
          /\ Normal(r.told, k) - Normal(s.told, k) = Count(r.p, k) - Resaved(moved, k)
          /\ NetOf(r.told, k) - NetOf(s.told, k) = NetCount(r.p, k)

Outcome(s, r) ==
    \/ \E user : Steady(s, r, user)
    \/ MovesAway(s, r)
    \/ Begins(s, r)
    \/ Departs(s, r)
    \/ \E moved : Settles(s, r, moved)

LEMMA OutcomeTyped ==
    ASSUME NEW s, Sound(s), OpsOK(s.operations), NEW r, Outcome(s, r)
    PROVE  Sound(r) /\ OpsOK(r.operations)
<1>1. CASE \E user : Steady(s, r, user)
  <2>1. PICK user : Steady(s, r, user)
    BY <1>1
  <2> QED  BY <2>1, SteadyMoves DEF Steady
<1>2. CASE MovesAway(s, r)
  <2>1. PICK op : OpOK(op) /\ r.operations = BagAdd(s.operations, op)
    BY <1>2 DEF MovesAway
  <2>2. OpsOK(r.operations)
    BY <2>1, Added
  <2> QED  BY <1>2, <2>2 DEF MovesAway
<1>3. CASE Begins(s, r)
  <2>1. Ready(r) /\ r.operations = s.operations
    BY <1>3, BaseReady DEF Begins, Follows
  <2> QED  BY <2>1 DEF Ready, Sound
<1>4. CASE Departs(s, r)
  <2>1. PICK op : OpOK(op) /\ r.operations = BagAdd(s.operations, op)
    BY <1>4 DEF Departs
  <2>2. OpsOK(r.operations)
    BY <2>1, Added
  <2> QED  BY <1>4, <2>2 DEF Departs
<1>5. CASE \E moved : Settles(s, r, moved)
  BY <1>5 DEF Settles, Ready, Sound
<1> QED  BY <1>1, <1>2, <1>3, <1>4, <1>5 DEF Outcome

LEMMA OperationOutcome ==
    ASSUME Typed, NEW op \in DOMAIN operations, NEW r,
           r = Processed(Taken(home[op.user], op), op)
    PROVE  /\ home[op.user] \in Owner /\ OpOK(op)
           /\ op.type # "change" => Steady(Taken(home[op.user], op), r, op.user)
           /\ op.type = "change" => Settles(Taken(home[op.user], op), r, op.arg)
<1>1. OpOK(op)
  BY DEF Typed, OpsOK
<1>2. home[op.user] \in Owner
  BY <1>1, OwnerAssumption DEF Typed, OpOK
<1> DEFINE s == Taken(home[op.user], op)
<1>3. Sound(s)
  BY <1>2, TakenIs
<1> HIDE DEF s
<1>4. r = Processed(s, op)
  BY DEF s
<1>5. ASSUME op.type # "change"
      PROVE  Steady(s, r, op.user)
  BY <1>1, <1>3, <1>4, <1>5, OperationIs
<1>6. ASSUME op.type = "change"
      PROVE  Settles(s, r, op.arg)
  <2>1. r = ChangeRequestUser(s, op.arg)
    BY <1>4, <1>6 DEF Processed
  <2>2. op.arg \in Profile /\ op.arg.user_id \in User
    BY <1>1, <1>6 DEF OpOK
  <2> QED  BY <1>3, <2>1, <2>2, ChangeResult DEF Settles
<1> QED  BY <1>1, <1>2, <1>5, <1>6 DEF s

(* What an impression does where it comes.                                 *)
LEMMA ImpressionOutcome ==
    ASSUME Typed, NEW user \in User \cup {Nothing},
           NEW r, r = ProcessImpression(At(Entry), user, TRUE)
    PROVE  \/ Steady(At(Entry), r, user)
           \/ /\ Departs(At(Entry), r) /\ profile[Entry] # Nothing
              /\ profile[Entry].fraud # "moved" /\ Leaves(At(Entry), user, TRUE)
<1> DEFINE m == TRUE
<1>1. Sound(At(Entry)) /\ At(Entry).p = profile[Entry]
  BY AtIs, OwnerAssumption
<1>2. r = ProcessImpression(At(Entry), user, m)
  OBVIOUS
<1> HIDE DEF m
<1>3. CASE At(Entry).p # Nothing /\ At(Entry).p.fraud # "moved" /\ Leaves(At(Entry), user, m)
  <2>1. Departs(At(Entry), r)
    BY <1>1, <1>2, <1>3, DepartResult
  <2> QED  BY <1>1, <1>3, <2>1 DEF m
<1>4. CASE ~(At(Entry).p # Nothing /\ At(Entry).p.fraud # "moved"
                /\ Leaves(At(Entry), user, m))
  BY <1>1, <1>2, <1>4, ImpressionSteady
<1> QED  BY <1>3, <1>4

LEMMA TypedInit == RequestInit => Typed
<1> SUFFICES ASSUME RequestInit
             PROVE  Typed
  OBVIOUS
<1>1. DOMAIN operations = {} /\ operations \in [DOMAIN operations -> Nat \ {0}]
  BY DEF RequestInit, EmptyBag, SetToBag
<1>2. OpsOK(operations)
  BY <1>1 DEF OpsOK
<1>3. told \in Tolds
  BY DEF RequestInit, Tolds
<1>4. arrived \in [Record -> Nat]
  BY DEF RequestInit
<1> QED  BY <1>2, <1>3, <1>4 DEF RequestInit, Typed

LEMMA TypedNext == Typed /\ [RequestNext]_requestVars => Typed'
<1> SUFFICES ASSUME Typed, [RequestNext]_requestVars
             PROVE  Typed'
  OBVIOUS
<1>1. /\ Entry \in Owner /\ Sound(At(Entry)) /\ OpsOK(At(Entry).operations)
  BY AtIs, OwnerAssumption
<1>2. ASSUME NEW record \in Record, Arrive(record), NEW r, SaveProfile(Entry, r),
             Outcome(At(Entry), r)
      PROVE  Typed'
  <2>1. Sound(r) /\ OpsOK(r.operations)
    BY <1>1, <1>2, OutcomeTyped
  <2>2. arrived' \in [Record -> Nat] /\ UNCHANGED <<home, tracking>>
    BY <1>2, ArriveIs
  <2> QED  BY <1>1, <1>2, <2>1, <2>2, ProfileSaved
<1>3. "request" \in Record /\ "notice" \in Record /\ "impression" \in Record
      /\ "foreign" \in Record /\ "click" \in Record /\ "action" \in Record
      /\ PostAction \subseteq Record
  BY DEF Record
<1>4. CASE RequestRecord
  <2> DEFINE r == ProcessRequest(At(Entry), RequestUser, TRUE)
  <2>1. Arrive("request") /\ SaveProfile(Entry, r)
    BY <1>4 DEF RequestRecord
  <2>2. \/ r = At(Entry)
        \/ MovesAway(At(Entry), r) \/ Begins(At(Entry), r)
    BY <1>1, RequestResult
  <2>3. r = At(Entry) => Steady(At(Entry), r, Nothing)
    <3> SUFFICES ASSUME r = At(Entry)
                 PROVE  Steady(At(Entry), At(Entry), Nothing)
      OBVIOUS
    <3> HIDE DEF r
    <3>1. IsStore(At(Entry)) /\ SameBooks(At(Entry).told, At(Entry).told)
      BY <1>1 DEF Sound, SameBooks
    <3> QED  BY <1>1, <3>1, SameIsSteady
  <2> HIDE DEF r
  <2>4. Outcome(At(Entry), r)
    BY <2>2, <2>3 DEF Outcome
  <2> QED  BY <1>2, <1>3, <2>1, <2>4
<1>5. CASE Notice
  <2>1. Steady(At(Entry), ProcessNotice(At(Entry), TRUE), Nothing)
    BY <1>1, NoticeSteady
  <2>2. Outcome(At(Entry), ProcessNotice(At(Entry), TRUE))
    BY <2>1 DEF Outcome
  <2> QED  BY <1>2, <1>3, <1>5, <2>2 DEF Notice
<1>6. ASSUME NEW user \in User \cup {Nothing}, NEW record \in Record, Arrive(record),
             SaveProfile(Entry, ProcessImpression(At(Entry), user, TRUE))
      PROVE  Typed'
  <2>1. \/ Steady(At(Entry), ProcessImpression(At(Entry), user, TRUE), user)
        \/ Departs(At(Entry), ProcessImpression(At(Entry), user, TRUE))
    BY ImpressionOutcome
  <2>2. Outcome(At(Entry), ProcessImpression(At(Entry), user, TRUE))
    BY <2>1 DEF Outcome
  <2> QED  BY <1>2, <1>6, <2>2
<1>7. CASE Impression
  <2>1. RequestUser \in User
    BY OwnerAssumption
  <2> QED  BY <1>3, <1>6, <1>7, <2>1 DEF Impression
<1>8. CASE ForeignImpression
  BY <1>3, <1>6, <1>8 DEF ForeignImpression
<1>9. CASE Click
  <2>1. Steady(At(Entry), ProcessClick(At(Entry), TRUE), Nothing)
    BY <1>1, ClickSteady
  <2>2. Outcome(At(Entry), ProcessClick(At(Entry), TRUE))
    BY <2>1 DEF Outcome
  <2> QED  BY <1>2, <1>3, <1>9, <2>2 DEF Click
<1>10. CASE Action
  <2>1. Steady(At(Entry), ProcessAction(At(Entry), TRUE), Nothing)
    BY <1>1, ActionSteady
  <2>2. Outcome(At(Entry), ProcessAction(At(Entry), TRUE))
    BY <2>1 DEF Outcome
  <2> QED  BY <1>2, <1>3, <1>10, <2>2 DEF Action
<1>11. CASE Post
  <2>1. PICK name \in PostAction :
           Arrive(name) /\ SaveProfile(Entry, ProcessPostAction(At(Entry), name, TRUE))
    BY <1>11 DEF Post
  <2>2. Steady(At(Entry), ProcessPostAction(At(Entry), name, TRUE), Nothing)
    BY <1>1, PostActionSteady
  <2>3. Outcome(At(Entry), ProcessPostAction(At(Entry), name, TRUE))
    BY <2>2 DEF Outcome
  <2> QED  BY <1>2, <1>3, <2>1, <2>3
<1>12. CASE \E o \in Owner : FraudRollback(o)
  <2>1. PICK o \in Owner : FraudRollback(o)
    BY <1>12
  <2> DEFINE r == ProcessFraudRollback(At(o))
  <2>2. Sound(At(o)) /\ At(o).p = profile[o] /\ OpsOK(At(o).operations)
    BY AtIs
  <2>3. Steady(At(o), r, Nothing)
    BY <2>1, <2>2, RollbackSteady DEF FraudRollback
  <2>4. SaveProfile(o, r) /\ UNCHANGED <<home, tracking, arrived>>
    BY <2>1 DEF FraudRollback
  <2> HIDE DEF r
  <2>5. Sound(r) /\ OpsOK(r.operations)
    BY <2>2, <2>3, SteadyMoves DEF Steady
  <2>6. arrived' \in [Record -> Nat]
    BY <2>4 DEF Typed
  <2> QED  BY <2>4, <2>5, <2>6, ProfileSaved
<1>13. CASE \E op \in BagToSet(operations) : Operation(op)
  <2>1. PICK op \in DOMAIN operations : Operation(op)
    BY <1>13 DEF BagToSet
  <2> DEFINE o == home[op.user]
             s == Taken(o, op)
             r == Processed(s, op)
  <2>2. SaveProfile(o, r) /\ UNCHANGED <<home, tracking, arrived>>
    BY <2>1 DEF Operation, Taken
  <2>3. o \in Owner /\ (Steady(s, r, op.user) \/ Settles(s, r, op.arg))
    BY OperationOutcome
  <2>4. Sound(s) /\ OpsOK(s.operations)
    BY <2>3, TakenIs
  <2> HIDE DEF o, s, r
  <2>5. Outcome(s, r)
    BY <2>3 DEF Outcome
  <2>6. Sound(r) /\ OpsOK(r.operations)
    BY <2>4, <2>5, OutcomeTyped
  <2>7. arrived' \in [Record -> Nat]
    BY <2>2 DEF Typed
  <2> QED  BY <2>2, <2>3, <2>6, <2>7, ProfileSaved
<1>14. CASE UNCHANGED requestVars
  BY <1>14 DEF Typed, requestVars
<1> QED  BY <1>4, <1>5, <1>7, <1>8, <1>9, <1>10, <1>11, <1>12, <1>13, <1>14 DEF RequestNext

(* Whatever comes, in whatever order, and wherever it is handed: profiles, *)
(* what was told and what arrived keep their types, and no counter of a    *)
(* profile falls below zero (process_*_buf_, change_request_user_id_).     *)
THEOREM RequestsKeepTypes == RequestSpec => []RequestsTypeOK
<1>1. Typed => RequestsTypeOK
  BY DEF Typed, RequestsTypeOK, OpsOK, OpOK, BagToSet, Tolds
<1> QED  BY <1>1, TypedInit, TypedNext, PTL DEF RequestSpec

(* Whatever the records overtake, a profile has a click only with its      *)
(* impression, that only with its notice, and that only with its request   *)
(* unless it has left for another owner; a request is rolled back as fraud *)
(* only with its impression and leaves only without it (the conditions     *)
(* that process_*_buf_ and change_request_user_id_ check on what waits).   *)
THEOREM StagesAreOrdered ==
    RequestSpec => [](\A o \in Owner : profile[o] = Nothing \/ WellFormed(profile[o]))
<1>1. Typed => \A o \in Owner : profile[o] = Nothing \/ WellFormed(profile[o])
  BY DEF Typed
<1> QED  BY <1>1, TypedInit, TypedNext, PTL DEF RequestSpec

-----------------------------------------------------------------------------
(* What is booked is what one profile has, or one operation carries.       *)

Agrees(p, t) ==
    \A k \in Bookable : Normal(t, k) = Count(p, k) /\ NetOf(t, k) = NetCount(p, k)

NoMove(ops) == \A x \in DOMAIN ops : x.type # "change"

Unbooked(prof, ops, t) ==
    /\ \A o \in Owner : ~Active(prof[o])
    /\ NoMove(ops)
    /\ \A k \in Bookable : Normal(t, k) = 0 /\ NetOf(t, k) = 0

BookedAt(o, prof, ops, t) ==
    /\ Active(prof[o])
    /\ \A x \in Owner : Active(prof[x]) => x = o
    /\ NoMove(ops)
    /\ Agrees(prof[o], t)

UnderWay(op, prof, ops, t) ==
    /\ op \in DOMAIN ops /\ op.type = "change" /\ ops[op] = 1
    /\ \A x \in DOMAIN ops : x.type = "change" => x = op
    /\ \A o \in Owner : ~Active(prof[o])
    /\ \A k \in Bookable : Normal(t, k) = Resaved(op.arg, k) /\ NetOf(t, k) = 0

Requested(prof, ops, t) ==
    \/ \E o \in Owner : BookedAt(o, prof, ops, t)
    \/ \E op : UnderWay(op, prof, ops, t)

Books(prof, ops, t, requested) ==
    Unbooked(prof, ops, t) \/ (requested /\ Requested(prof, ops, t))

(* Without impressions of other users the request stays where it came.     *)
Here ==
    /\ DOMAIN operations = {}
    /\ \A o \in Owner : profile[o] # Nothing =>
          /\ o = Entry /\ profile[o].fraud # "moved"
          /\ profile[o].user_id \in {Nothing, RequestUser}

BooksInv ==
    /\ Typed
    /\ arrived["foreign"] > 0 => arrived["request"] <= 1
    /\ arrived["foreign"] = 0 => Here
    /\ Books(profile, operations, told, arrived["request"] > 0)

LEMMA PutProfile ==
    ASSUME Typed, NEW o \in Owner, NEW r, SaveProfile(o, r)
    PROVE  /\ profile'[o] = r.p /\ \A x \in Owner : x # o => profile'[x] = profile[x]
           /\ told' = r.told /\ operations' = r.operations
BY DEF Typed, SaveProfile

LEMMA NoMoveKept ==
    ASSUME NEW ops, NEW new, SameMoves(ops, new), NoMove(ops)
    PROVE  NoMove(new)
BY DEF SameMoves, NoMove

(* A steady transaction keeps the books.                                   *)
LEMMA SteadyBooks ==
    ASSUME Typed, NEW o \in Owner, NEW s, Sound(s), s.p = profile[o], s.told = told,
           OpsOK(s.operations), SameMoves(operations, s.operations),
           NEW r, NEW user, Steady(s, r, user), SaveProfile(o, r)
    PROVE  /\ Unbooked(profile, operations, told) => Unbooked(profile', operations', told')
           /\ Requested(profile, operations, told) => Requested(profile', operations', told')
<1>1. /\ profile'[o] = r.p /\ \A x \in Owner : x # o => profile'[x] = profile[x]
      /\ told' = r.told /\ operations' = r.operations
  BY PutProfile
<1>2. SameMoves(operations, operations')
  <2>1. SameMoves(s.operations, r.operations)
    BY SteadyMoves
  <2> QED  BY <1>1, <2>1 DEF SameMoves
<1>3. \A x \in Owner : Active(profile'[x]) <=> Active(profile[x])
  BY <1>1 DEF Steady
<1>4. ~Active(profile[o]) => SameBooks(told, told')
  BY <1>1 DEF Steady
<1>5. Active(profile[o]) => Balanced(profile[o], told, profile'[o], told')
  BY <1>1 DEF Steady
<1>6. ASSUME Unbooked(profile, operations, told)
      PROVE  Unbooked(profile', operations', told')
  <2>1. NoMove(operations')
    BY <1>2, <1>6, NoMoveKept DEF Unbooked
  <2>2. SameBooks(told, told')
    BY <1>4, <1>6 DEF Unbooked
  <2> QED  BY <1>3, <1>6, <2>1, <2>2 DEF Unbooked, SameBooks
<1>7. ASSUME NEW x \in Owner, BookedAt(x, profile, operations, told)
      PROVE  BookedAt(x, profile', operations', told')
  <2>1. NoMove(operations')
    BY <1>2, <1>7, NoMoveKept DEF BookedAt
  <2>2. Agrees(profile'[x], told')
    <3>1. CASE x = o
      <4> SUFFICES ASSUME NEW k \in Bookable
                   PROVE  /\ Normal(told', k) = Count(profile'[o], k)
                          /\ NetOf(told', k) = NetCount(profile'[o], k)
        BY <3>1 DEF Agrees
      <4>1. /\ Normal(told', k) - Normal(told, k) = Count(profile'[o], k) - Count(profile[o], k)
            /\ NetOf(told', k) - NetOf(told, k) = NetCount(profile'[o], k) - NetCount(profile[o], k)
        BY <1>5, <1>7, <3>1 DEF BookedAt, Balanced
      <4>2. Normal(told, k) = Count(profile[o], k) /\ NetOf(told, k) = NetCount(profile[o], k)
        BY <1>7, <3>1 DEF BookedAt, Agrees
      <4>3. /\ Count(profile[o], k) \in Int /\ Count(profile'[o], k) \in Int
            /\ NetCount(profile[o], k) \in Int /\ NetCount(profile'[o], k) \in Int
        BY CountIs
      <4>4. Normal(told', k) \in Int /\ NetOf(told', k) \in Int
        BY <1>1, ToldIs, BookedKinds DEF Steady, Sound, IsStore
      <4> QED  BY <4>1, <4>2, <4>3, <4>4
    <3>2. CASE x # o
      <4>1. SameBooks(told, told') /\ profile'[x] = profile[x]
        BY <1>1, <1>4, <1>7, <3>2 DEF BookedAt
      <4> QED  BY <1>7, <4>1 DEF BookedAt, Agrees, SameBooks
    <3> QED  BY <3>1, <3>2
  <2> QED  BY <1>3, <1>7, <2>1, <2>2 DEF BookedAt
<1>8. ASSUME NEW op, UnderWay(op, profile, operations, told)
      PROVE  UnderWay(op, profile', operations', told')
  <2>1. SameBooks(told, told')
    BY <1>4, <1>8 DEF UnderWay
  <2>2. /\ op \in DOMAIN operations' /\ operations'[op] = 1
        /\ \A x \in DOMAIN operations' : x.type = "change" => x = op
    BY <1>2, <1>8 DEF UnderWay, SameMoves
  <2> QED  BY <1>3, <1>8, <2>1, <2>2 DEF UnderWay, SameBooks
<1> QED  BY <1>6, <1>7, <1>8 DEF Requested

LEMMA SameOperations ==
    ASSUME NEW ops
    PROVE  SameMoves(ops, ops)
BY DEF SameMoves

(* The first request of an unbooked one is booked.                         *)
LEMMA BeginBooks ==
    ASSUME Typed, Unbooked(profile, operations, told), NEW o \in Owner, NEW r,
           Begins(At(o), r), SaveProfile(o, r)
    PROVE  Requested(profile', operations', told')
<1>1. /\ profile'[o] = r.p /\ \A x \in Owner : x # o => profile'[x] = profile[x]
      /\ told' = r.told /\ operations' = r.operations
  BY PutProfile
<1>2. Sound(At(o)) /\ At(o).p = profile[o] /\ At(o).told = told /\ At(o).operations = operations
  BY AtIs
<1>3. /\ Ready(r) /\ r.operations = operations
      /\ Balanced(Base(At(o)).p, told, r.p, r.told)
  BY <1>2, BaseReady DEF Begins, Follows
<1>4. WellFormed(Base(At(o)).p) /\ Base(At(o)).p.fraud # "moved" /\ ~Base(At(o)).p.request_done
  <2>1. Ready(Base(At(o)))
    BY <1>2, BaseReady
  <2>2. ~Base(At(o)).p.request_done
    BY <1>2, BaseReady, StubFormed DEF Begins
  <2> QED  BY <2>1, <2>2 DEF Ready
<1>5. Active(r.p)
  BY <1>3, TrackingFlags DEF Begins, Active, Ready
<1>6. ASSUME NEW k \in Bookable
      PROVE  Normal(told', k) = Count(r.p, k) /\ NetOf(told', k) = NetCount(r.p, k)
  <2>1. Count(Base(At(o)).p, k) = 0 /\ NetCount(Base(At(o)).p, k) = 0
    BY <1>4, UnbookedCounts
  <2>2. Normal(told, k) = 0 /\ NetOf(told, k) = 0
    BY DEF Unbooked
  <2>3. /\ Normal(told', k) - 0 = Count(r.p, k) - 0
        /\ NetOf(told', k) - 0 = NetCount(r.p, k) - 0
    BY <1>1, <1>3, <2>1, <2>2 DEF Balanced
  <2>4. Normal(told', k) \in Int /\ NetOf(told', k) \in Int
    BY <1>1, <1>3, ToldIs, BookedKinds DEF Ready, IsStore
  <2>5. Count(r.p, k) \in Int /\ NetCount(r.p, k) \in Int
    BY CountIs
  <2> QED  BY <2>3, <2>4, <2>5
<1>7. BookedAt(o, profile', operations', told')
  BY <1>1, <1>3, <1>5, <1>6 DEF BookedAt, Unbooked, Agrees
<1> QED  BY <1>7 DEF Requested

(* An operation for a move is the only one.                                *)
LEMMA OnlyMove ==
    ASSUME NEW ops, NoMove(ops), NEW op, op.type = "change", NEW new, new = BagAdd(ops, op)
    PROVE  /\ op \in DOMAIN new /\ new[op] = 1
           /\ \A x \in DOMAIN new : x.type = "change" => x = op
BY DEF NoMove, BagAdd

LEMMA MoveAwayBooks ==
    ASSUME Typed, Unbooked(profile, operations, told), NEW o \in Owner, NEW r,
           MovesAway(At(o), r), SaveProfile(o, r)
    PROVE  Requested(profile', operations', told')
<1>1. /\ profile'[o] = r.p /\ \A x \in Owner : x # o => profile'[x] = profile[x]
      /\ told' = r.told /\ operations' = r.operations
  BY PutProfile
<1>2. At(o).told = told /\ At(o).operations = operations
  BY AtIs
<1>3. PICK op : /\ op.type = "change" /\ op.arg.fraud = "normal"
                /\ r.operations = BagAdd(operations, op)
  BY <1>2 DEF MovesAway
<1>4. /\ op \in DOMAIN operations' /\ operations'[op] = 1
      /\ \A x \in DOMAIN operations' : x.type = "change" => x = op
  BY <1>1, <1>3, OnlyMove DEF Unbooked
<1>5. \A x \in Owner : ~Active(profile'[x])
  BY <1>1 DEF MovesAway, Unbooked
<1>6. \A k \in Bookable : Normal(told', k) = Resaved(op.arg, k) /\ NetOf(told', k) = 0
  BY <1>1, <1>2, <1>3 DEF MovesAway, Unbooked, Resaved
<1>7. UnderWay(op, profile', operations', told')
  BY <1>3, <1>4, <1>5, <1>6 DEF UnderWay
<1> QED  BY <1>7 DEF Requested

LEMMA DepartBooks ==
    ASSUME Typed, Requested(profile, operations, told), NEW o \in Owner, NEW r,
           Departs(At(o), r), SaveProfile(o, r)
    PROVE  Requested(profile', operations', told')
<1>1. /\ profile'[o] = r.p /\ \A x \in Owner : x # o => profile'[x] = profile[x]
      /\ told' = r.told /\ operations' = r.operations
  BY PutProfile
<1>2. At(o).p = profile[o] /\ At(o).told = told /\ At(o).operations = operations
  BY AtIs
<1>3. Active(profile[o])
  BY <1>2 DEF Departs
<1>4. BookedAt(o, profile, operations, told)
  BY <1>3 DEF Requested, UnderWay, BookedAt
<1>5. PICK op : /\ op.type = "change" /\ op.arg.fraud = "moved"
                /\ r.operations = BagAdd(operations, op)
  BY <1>2 DEF Departs
<1>6. /\ op \in DOMAIN operations' /\ operations'[op] = 1
      /\ \A x \in DOMAIN operations' : x.type = "change" => x = op
  BY <1>1, <1>4, <1>5, OnlyMove DEF BookedAt
<1>7. \A x \in Owner : ~Active(profile'[x])
  BY <1>1, <1>4 DEF Departs, BookedAt
<1>8. ASSUME NEW k \in Bookable
      PROVE  Normal(told', k) = Resaved(op.arg, k) /\ NetOf(told', k) = 0
  <2>1. Normal(told, k) = Count(profile[o], k) /\ NetOf(told, k) = NetCount(profile[o], k)
    BY <1>4 DEF BookedAt, Agrees
  <2>2. /\ Normal(told', k) = Normal(told, k)
        /\ NetOf(told', k) = NetOf(told, k) - (IF k = "request" THEN 1 ELSE 0)
    BY <1>1, <1>2 DEF Departs
  <2>3. k = "request" \/ k = "impression" \/ k = "click"
    BY DEF Bookable
  <2>4. Count(profile[o], k) = IF k = "request" THEN 1 ELSE 0
    BY <1>2, <2>3 DEF Departs, Active, Count, Done
  <2>5. NetCount(profile[o], k) = IF k = "request" THEN 1 ELSE 0
    BY <1>2, <2>4 DEF Departs, NetCount
  <2> QED  BY <1>5, <2>1, <2>2, <2>4, <2>5 DEF Resaved
<1>9. UnderWay(op, profile', operations', told')
  BY <1>5, <1>6, <1>7, <1>8 DEF UnderWay
<1> QED  BY <1>9 DEF Requested

LEMMA SettleBooks ==
    ASSUME Typed, Requested(profile, operations, told), NEW op \in DOMAIN operations,
           op.type = "change", NEW o \in Owner, NEW r,
           Settles(Taken(o, op), r, op.arg), SaveProfile(o, r)
    PROVE  Requested(profile', operations', told')
<1>1. /\ profile'[o] = r.p /\ \A x \in Owner : x # o => profile'[x] = profile[x]
      /\ told' = r.told /\ operations' = r.operations
  BY PutProfile
<1>2. Taken(o, op).told = told /\ Taken(o, op).operations = BagRemove(operations, op)
  BY TakenIs
<1>3. UnderWay(op, profile, operations, told)
  BY DEF Requested, BookedAt, NoMove, UnderWay
<1>4. operations' = BagRemove(operations, op)
  BY <1>1, <1>2 DEF Settles
<1>5. NoMove(operations')
  <2>1. operations' = [e \in DOMAIN operations \ {op} |-> operations[e]]
    BY <1>3, <1>4 DEF BagRemove, UnderWay
  <2> QED  BY <1>3, <2>1 DEF NoMove, UnderWay
<1>6. Active(r.p)
  BY TrackingFlags DEF Settles, Active, Ready
<1>7. \A x \in Owner : Active(profile'[x]) => x = o
  BY <1>1, <1>3 DEF UnderWay
<1>8. ASSUME NEW k \in Bookable
      PROVE  Normal(told', k) = Count(r.p, k) /\ NetOf(told', k) = NetCount(r.p, k)
  <2>1. /\ Normal(told', k) - Normal(told, k) = Count(r.p, k) - Resaved(op.arg, k)
        /\ NetOf(told', k) - NetOf(told, k) = NetCount(r.p, k)
    BY <1>1, <1>2 DEF Settles
  <2>2. Normal(told, k) = Resaved(op.arg, k) /\ NetOf(told, k) = 0
    BY <1>3 DEF UnderWay
  <2>3. Normal(told', k) \in Int /\ NetOf(told', k) \in Int
    BY <1>1, ToldIs, BookedKinds DEF Settles, Ready, IsStore
  <2>4. Count(r.p, k) \in Int /\ NetCount(r.p, k) \in Int /\ Resaved(op.arg, k) \in Int
    BY CountIs DEF Resaved
  <2> QED  BY <2>1, <2>2, <2>3, <2>4
<1>9. BookedAt(o, profile', operations', told')
  BY <1>1, <1>5, <1>6, <1>7, <1>8 DEF BookedAt, Agrees
<1> QED  BY <1>9 DEF Requested

LEMMA HereKept ==
    ASSUME Typed, Here, NEW user \in {Nothing, RequestUser}, NEW r,
           Steady(At(Entry), r, user), SaveProfile(Entry, r)
    PROVE  Here'
<1>1. Entry \in Owner
  BY OwnerAssumption
<1>2. /\ profile'[Entry] = r.p /\ \A x \in Owner : x # Entry => profile'[x] = profile[x]
      /\ operations' = r.operations
  BY <1>1, PutProfile
<1>3. /\ Sound(At(Entry)) /\ At(Entry).p = profile[Entry]
      /\ At(Entry).operations = operations
  BY <1>1, AtIs
<1>4. ~Moved(profile[Entry])
  BY <1>1 DEF Here, Moved
<1>5. /\ r.operations = operations
      /\ \/ r.p = profile[Entry]
         \/ r.p # Nothing /\ r.p.fraud # "moved" /\ NamedBy(Base(At(Entry)), r, user)
  BY <1>3, <1>4 DEF Steady
<1>6. Base(At(Entry)).p.user_id \in {Nothing, RequestUser}
  <2>1. CASE profile[Entry] = Nothing
    BY <1>3, <2>1, BaseReady, StubFormed
  <2>2. CASE profile[Entry] # Nothing
    <3>1. profile[Entry].fraud # "moved" /\ profile[Entry].user_id \in {Nothing, RequestUser}
      BY <1>1, <2>2 DEF Here
    <3> QED  BY <1>3, <2>2, <3>1, BaseReady
  <2> QED  BY <2>1, <2>2
<1>7. r.p # Nothing => r.p.fraud # "moved" /\ r.p.user_id \in {Nothing, RequestUser}
  BY <1>1, <1>5, <1>6 DEF Here, NamedBy
<1> QED  BY <1>2, <1>5, <1>7 DEF Here

(* A record that does not change who has the request.                      *)
LEMMA SteadyRecord ==
    ASSUME BooksInv, OneRequestMoves', NEW record \in Record, Arrive(record),
           NEW r, NEW user, Steady(At(Entry), r, user), SaveProfile(Entry, r),
           record = "foreign" \/ user \in {Nothing, RequestUser}
    PROVE  BooksInv'
<1>1. Typed /\ Entry \in Owner
  BY OwnerAssumption DEF BooksInv
<1>2. /\ arrived' \in Arrivals /\ arrived' \in [Record -> Nat]
      /\ arrived'[record] = arrived[record] + 1
      /\ \A x \in Record : x # record => arrived'[x] = arrived[x]
      /\ UNCHANGED <<home, tracking>>
  BY <1>1, ArriveIs
<1>3. /\ Sound(At(Entry)) /\ At(Entry).p = profile[Entry] /\ At(Entry).told = told
      /\ At(Entry).operations = operations /\ OpsOK(At(Entry).operations)
  BY <1>1, AtIs
<1>4. Typed'
  <2>1. Sound(r) /\ OpsOK(r.operations)
    BY <1>3, SteadyMoves DEF Steady
  <2> QED  BY <1>1, <1>2, <2>1, ProfileSaved
<1>5. "request" \in Record /\ "foreign" \in Record
  BY DEF Record
<1>6. \A x \in Record : arrived[x] \in Nat
  BY <1>1 DEF Typed
<1>7. arrived'["foreign"] > 0 => arrived'["request"] <= 1
  BY <1>2 DEF OneRequestMoves
<1>8. arrived'["foreign"] = 0 => Here'
  <2> SUFFICES ASSUME arrived'["foreign"] = 0
               PROVE  Here'
    OBVIOUS
  <2>1. record # "foreign" /\ arrived["foreign"] = 0
    BY <1>2, <1>5, <1>6
  <2> QED  BY <1>1, <2>1, HereKept DEF BooksInv
<1>9. Books(profile', operations', told', arrived'["request"] > 0)
  <2>1. arrived["request"] > 0 => arrived'["request"] > 0
    BY <1>2, <1>5, <1>6
  <2>2. SameMoves(operations, At(Entry).operations)
    BY <1>3, SameOperations
  <2>3. /\ Unbooked(profile, operations, told) => Unbooked(profile', operations', told')
        /\ Requested(profile, operations, told) => Requested(profile', operations', told')
    BY <1>1, <1>3, <2>2, SteadyBooks
  <2> QED  BY <2>1, <2>3 DEF BooksInv, Books
<1> QED  BY <1>4, <1>7, <1>8, <1>9 DEF BooksInv

(* The request record comes once if the request may have moved; else the   *)
(* request is where it came, and known there once it is booked.            *)
LEMMA RequestBooks ==
    ASSUME BooksInv, OneRequestMoves', RequestRecord
    PROVE  BooksInv'
<1> DEFINE s == At(Entry)
           r == ProcessRequest(s, RequestUser, TRUE)
<1>1. Typed /\ Entry \in Owner
  BY OwnerAssumption DEF BooksInv
<1>2. "request" \in Record /\ "foreign" \in Record
  BY DEF Record
<1>3. Arrive("request") /\ SaveProfile(Entry, r)
  BY DEF RequestRecord
<1>4. /\ Sound(s) /\ s.p = profile[Entry] /\ s.told = told
      /\ s.operations = operations /\ OpsOK(s.operations)
  BY <1>1, AtIs
<1>5. \/ r = s /\ s.p # Nothing /\ (s.p.request_done \/ s.p.fraud = "moved")
      \/ MovesAway(s, r)
      \/ Begins(s, r)
  BY <1>4, RequestResult
<1> HIDE DEF s, r
<1>6. CASE r = s
  <2>1. IsStore(r) /\ SameBooks(s.told, r.told)
    BY <1>4, <1>6 DEF Sound, SameBooks
  <2>2. Steady(s, r, Nothing)
    BY <1>4, <1>6, <2>1, SameIsSteady
  <2> QED  BY <1>2, <1>3, <2>2, SteadyRecord DEF s
<1>7. ASSUME MovesAway(s, r) \/ Begins(s, r)
      PROVE  BooksInv'
  <2>1. /\ arrived' \in Arrivals /\ arrived' \in [Record -> Nat]
        /\ arrived'["request"] = arrived["request"] + 1
        /\ arrived'["foreign"] = arrived["foreign"]
        /\ UNCHANGED <<home, tracking>>
    BY <1>1, <1>2, <1>3, ArriveIs
  <2>2. arrived["request"] \in Nat /\ arrived["foreign"] \in Nat
    BY <1>1, <1>2 DEF Typed
  <2>3. ~Active(s.p)
    BY <1>7 DEF MovesAway, Begins, Active
  <2>4. Unbooked(profile, operations, told)
    <3>1. CASE arrived["foreign"] > 0
      <4>1. arrived'["request"] <= 1
        BY <2>1, <3>1 DEF OneRequestMoves
      <4>2. ~(arrived["request"] > 0)
        BY <2>1, <2>2, <4>1
      <4> QED  BY <4>2 DEF BooksInv, Books
    <3>2. CASE arrived["foreign"] = 0
      <4>1. Here
        BY <3>2 DEF BooksInv
      <4>2. ~Requested(profile, operations, told)
        <5>1. \A o \in Owner : ~Active(profile[o])
          BY <1>4, <2>3, <4>1 DEF Here, Active
        <5>2. DOMAIN operations = {}
          BY <4>1 DEF Here
        <5> QED  BY <5>1, <5>2 DEF Requested, BookedAt, UnderWay
      <4> QED  BY <4>2 DEF BooksInv, Books
    <3> QED  BY <2>2, <3>1, <3>2
  <2>5. Typed'
    <3>1. Outcome(s, r)
      BY <1>7 DEF Outcome
    <3>2. Sound(r) /\ OpsOK(r.operations)
      BY <1>4, <3>1, OutcomeTyped
    <3> QED  BY <1>1, <1>3, <2>1, <3>2, ProfileSaved
  <2>6. Requested(profile', operations', told')
    <3>1. CASE MovesAway(s, r)
      BY <1>1, <1>3, <2>4, <3>1, MoveAwayBooks DEF s
    <3>2. CASE Begins(s, r)
      BY <1>1, <1>3, <2>4, <3>2, BeginBooks DEF s
    <3> QED  BY <1>7, <3>1, <3>2
  <2>7. Books(profile', operations', told', arrived'["request"] > 0)
    BY <2>1, <2>2, <2>6 DEF Books
  <2>8. arrived'["foreign"] > 0 => arrived'["request"] <= 1
    BY <2>1 DEF OneRequestMoves
  <2>9. arrived'["foreign"] = 0 => Here'
    <3> SUFFICES ASSUME arrived'["foreign"] = 0
                 PROVE  Here'
      OBVIOUS
    <3>1. Here
      BY <2>1 DEF BooksInv
    <3>2. ~MovesAway(s, r)
      BY <1>1, <1>4, <3>1 DEF Here, MovesAway
    <3>3. Ready(r) /\ r.operations = operations /\ r.p.user_id = RequestUser
      BY <1>4, <1>7, <3>2, BaseReady DEF Begins, Follows
    <3>4. /\ profile'[Entry] = r.p /\ \A x \in Owner : x # Entry => profile'[x] = profile[x]
          /\ operations' = r.operations
      BY <1>1, <1>3, PutProfile
    <3> QED  BY <3>1, <3>3, <3>4 DEF Here, Ready
  <2> QED  BY <2>5, <2>7, <2>8, <2>9 DEF BooksInv
<1> QED  BY <1>5, <1>6, <1>7

(* An impression takes the request away only if it is of another user.     *)
LEMMA ImpressionBooks ==
    ASSUME BooksInv, OneRequestMoves', NEW record \in Record, Arrive(record),
           NEW user \in User \cup {Nothing},
           record = "foreign" \/ user \in {Nothing, RequestUser},
           SaveProfile(Entry, ProcessImpression(At(Entry), user, TRUE)), record # "request"
    PROVE  BooksInv'
<1> DEFINE r == ProcessImpression(At(Entry), user, TRUE)
<1>1. Typed /\ Entry \in Owner
  BY OwnerAssumption DEF BooksInv
<1>2. \/ Steady(At(Entry), r, user)
      \/ /\ Departs(At(Entry), r) /\ profile[Entry] # Nothing
         /\ profile[Entry].fraud # "moved" /\ Leaves(At(Entry), user, TRUE)
  BY <1>1, ImpressionOutcome
<1>3. SaveProfile(Entry, r)
  OBVIOUS
<1> HIDE DEF r
<1>4. CASE Steady(At(Entry), r, user)
  BY <1>3, <1>4, SteadyRecord
<1>5. CASE /\ Departs(At(Entry), r) /\ profile[Entry] # Nothing
           /\ profile[Entry].fraud # "moved" /\ Leaves(At(Entry), user, TRUE)
  <2>1. /\ arrived' \in Arrivals /\ arrived' \in [Record -> Nat]
        /\ arrived'[record] = arrived[record] + 1
        /\ \A x \in Record : x # record => arrived'[x] = arrived[x]
        /\ UNCHANGED <<home, tracking>>
    BY <1>1, ArriveIs
  <2>2. "request" \in Record /\ "foreign" \in Record /\ \A x \in Record : arrived[x] \in Nat
    BY <1>1 DEF Record, Typed
  <2>3. /\ Sound(At(Entry)) /\ At(Entry).p = profile[Entry]
        /\ At(Entry).operations = operations /\ OpsOK(At(Entry).operations)
    BY <1>1, AtIs
  <2>4. Typed'
    <3>1. Outcome(At(Entry), r)
      BY <1>5 DEF Outcome
    <3>2. Sound(r) /\ OpsOK(r.operations)
      BY <2>3, <3>1, OutcomeTyped
    <3> QED  BY <1>1, <1>3, <2>1, <3>2, ProfileSaved
  <2>5. Active(profile[Entry])
    BY <1>5, <2>3 DEF Departs
  <2>6. arrived["request"] > 0 /\ Requested(profile, operations, told)
    BY <1>1, <2>5 DEF BooksInv, Books, Unbooked
  <2>7. Requested(profile', operations', told')
    BY <1>1, <1>3, <1>5, <2>6, DepartBooks
  <2>8. Books(profile', operations', told', arrived'["request"] > 0)
    BY <2>1, <2>2, <2>6, <2>7 DEF Books
  <2>9. arrived'["foreign"] > 0 => arrived'["request"] <= 1
    BY <2>1 DEF OneRequestMoves
  <2>10. arrived'["foreign"] # 0
    <3>1. CASE record = "foreign"
      BY <2>1, <2>2, <3>1
    <3>2. CASE record # "foreign"
      <4>1. ~Here
        <5>1. /\ user # Nothing /\ user # At(Entry).p.user_id /\ At(Entry).p.request_done
          BY <1>5 DEF Leaves
        <5>2. profile[Entry].user_id # RequestUser /\ profile[Entry].user_id \in User
          BY <1>1, <1>5, <2>3, <3>2, <5>1 DEF Typed, WellFormed
        <5>3. Nothing \notin User
          BY OwnerAssumption
        <5> QED  BY <1>1, <1>5, <5>2, <5>3 DEF Here
      <4> QED  BY <2>1, <2>2, <3>2, <4>1 DEF BooksInv
    <3> QED  BY <3>1, <3>2
  <2> QED  BY <2>4, <2>8, <2>9, <2>10 DEF BooksInv
<1> QED  BY <1>2, <1>4, <1>5

LEMMA BooksInit == RequestInit => BooksInv
<1> SUFFICES ASSUME RequestInit
             PROVE  BooksInv
  OBVIOUS
<1>1. Typed
  BY TypedInit
<1>2. DOMAIN operations = {}
  BY DEF RequestInit, EmptyBag, SetToBag
<1>3. \A o \in Owner : profile[o] = Nothing
  BY DEF RequestInit
<1>4. Here
  BY <1>2, <1>3 DEF Here
<1>5. \A k \in Bookable : Normal(told, k) = 0 /\ NetOf(told, k) = 0
  <2> TAKE k \in Bookable
  <2>1. k \in Kind /\ "normal" \in State /\ "resave" \in State /\ "fraud" \in State
        /\ "moved" \in State
    BY BookedKinds DEF State
  <2>2. /\ told[k]["normal"] = 0 /\ told[k]["resave"] = 0 /\ told[k]["fraud"] = 0
        /\ told[k]["moved"] = 0
    BY <2>1 DEF RequestInit
  <2> QED  BY <2>2 DEF Normal, NetOf
<1>6. Unbooked(profile, operations, told)
  BY <1>2, <1>3, <1>5 DEF Unbooked, NoMove, Active
<1>7. "foreign" \in Record /\ arrived["foreign"] = 0
  BY DEF Record, RequestInit
<1> QED  BY <1>1, <1>4, <1>6, <1>7 DEF BooksInv, Books

LEMMA BooksNext ==
    ASSUME BooksInv, [RequestNext]_requestVars, OneRequestMoves'
    PROVE  BooksInv'
<1>1. Typed /\ Typed' /\ Entry \in Owner
  BY TypedNext, OwnerAssumption DEF BooksInv
<1>2. Sound(At(Entry))
  BY <1>1, AtIs
<1>3. "request" \in Record /\ "notice" \in Record /\ "impression" \in Record
      /\ "foreign" \in Record /\ "click" \in Record /\ "action" \in Record
      /\ PostAction \subseteq Record
  BY DEF Record
<1>4. CASE RequestRecord
  BY <1>4, RequestBooks
<1>5. CASE Notice
  <2>1. Steady(At(Entry), ProcessNotice(At(Entry), TRUE), Nothing)
    BY <1>2, NoticeSteady
  <2> QED  BY <1>3, <1>5, <2>1, SteadyRecord DEF Notice
<1>6. CASE Impression
  <2>1. PICK user \in {Nothing, RequestUser} :
           SaveProfile(Entry, ProcessImpression(At(Entry), user, TRUE))
    BY <1>6 DEF Impression
  <2>2. Arrive("impression") /\ user \in User \cup {Nothing}
    BY <1>6, OwnerAssumption DEF Impression
  <2> QED  BY <1>3, <2>1, <2>2, ImpressionBooks
<1>7. CASE ForeignImpression
  <2>1. PICK user \in User \ {RequestUser} :
           SaveProfile(Entry, ProcessImpression(At(Entry), user, TRUE))
    BY <1>7 DEF ForeignImpression
  <2>2. Arrive("foreign") /\ user \in User \cup {Nothing}
    BY <1>7 DEF ForeignImpression
  <2> QED  BY <1>3, <2>1, <2>2, ImpressionBooks
<1>8. CASE Click
  <2>1. Steady(At(Entry), ProcessClick(At(Entry), TRUE), Nothing)
    BY <1>2, ClickSteady
  <2> QED  BY <1>3, <1>8, <2>1, SteadyRecord DEF Click
<1>9. CASE Action
  <2>1. Steady(At(Entry), ProcessAction(At(Entry), TRUE), Nothing)
    BY <1>2, ActionSteady
  <2> QED  BY <1>3, <1>9, <2>1, SteadyRecord DEF Action
<1>10. CASE Post
  <2>1. PICK name \in PostAction :
           Arrive(name) /\ SaveProfile(Entry, ProcessPostAction(At(Entry), name, TRUE))
    BY <1>10 DEF Post
  <2>2. Steady(At(Entry), ProcessPostAction(At(Entry), name, TRUE), Nothing)
    BY <1>2, PostActionSteady
  <2> QED  BY <1>3, <2>1, <2>2, SteadyRecord
<1>11. CASE \E o \in Owner : FraudRollback(o)
  <2>1. PICK o \in Owner : FraudRollback(o)
    BY <1>11
  <2> DEFINE r == ProcessFraudRollback(At(o))
  <2>2. /\ Sound(At(o)) /\ At(o).p = profile[o] /\ At(o).told = told
        /\ At(o).operations = operations /\ OpsOK(At(o).operations)
    BY <1>1, AtIs
  <2>3. Steady(At(o), r, Nothing)
    BY <2>1, <2>2, RollbackSteady DEF FraudRollback
  <2>4. SaveProfile(o, r) /\ arrived' = arrived
    BY <2>1 DEF FraudRollback
  <2> HIDE DEF r
  <2>5. SameMoves(operations, At(o).operations)
    BY <2>2, SameOperations
  <2>6. /\ Unbooked(profile, operations, told) => Unbooked(profile', operations', told')
        /\ Requested(profile, operations, told) => Requested(profile', operations', told')
    BY <1>1, <2>2, <2>3, <2>4, <2>5, SteadyBooks
  <2>7. Here => Here'
    <3> SUFFICES ASSUME Here
                 PROVE  Here'
      OBVIOUS
    <3>1. o = Entry
      BY <2>1 DEF Here, FraudRollback
    <3> QED  BY <1>1, <2>3, <2>4, <3>1, HereKept
  <2> QED  BY <1>1, <2>4, <2>6, <2>7 DEF BooksInv, Books
<1>12. CASE \E op \in BagToSet(operations) : Operation(op)
  <2>1. PICK op \in DOMAIN operations : Operation(op)
    BY <1>12 DEF BagToSet
  <2> DEFINE o == home[op.user]
             s == Taken(o, op)
             r == Processed(s, op)
  <2>2. SaveProfile(o, r) /\ arrived' = arrived
    BY <2>1 DEF Operation, Taken
  <2>3. /\ o \in Owner /\ OpOK(op)
        /\ op.type # "change" => Steady(s, r, op.user)
        /\ op.type = "change" => Settles(s, r, op.arg)
    BY <1>1, OperationOutcome
  <2>4. /\ Sound(s) /\ s.p = profile[o] /\ s.told = told
        /\ s.operations = BagRemove(operations, op) /\ OpsOK(s.operations)
    BY <1>1, <2>3, TakenIs
  <2>5. ~Here
    BY DEF Here
  <2> HIDE DEF o, r, s
  <2>6. arrived'["foreign"] # 0 /\ (arrived'["foreign"] > 0 => arrived'["request"] <= 1)
    BY <2>2, <2>5 DEF BooksInv
  <2>7. Books(profile', operations', told', arrived'["request"] > 0)
    <3>1. CASE op.type # "change"
      <4>1. SameMoves(operations, s.operations)
        <5>1. /\ DOMAIN s.operations \subseteq DOMAIN operations
              /\ \A x \in DOMAIN operations :
                    x # op => x \in DOMAIN s.operations /\ s.operations[x] = operations[x]
          BY <1>1, <2>4, Removed DEF Typed
        <5> QED  BY <3>1, <5>1 DEF SameMoves
      <4>2. /\ Unbooked(profile, operations, told) => Unbooked(profile', operations', told')
            /\ Requested(profile, operations, told) => Requested(profile', operations', told')
        BY <1>1, <2>2, <2>3, <2>4, <3>1, <4>1, SteadyBooks
      <4> QED  BY <2>2, <4>2 DEF BooksInv, Books
    <3>2. CASE op.type = "change"
      <4>1. arrived["request"] > 0 /\ Requested(profile, operations, told)
        BY <3>2 DEF BooksInv, Books, Unbooked, NoMove
      <4>2. Requested(profile', operations', told')
        BY <1>1, <2>2, <2>3, <3>2, <4>1, SettleBooks DEF s
      <4> QED  BY <2>2, <4>1, <4>2 DEF Books
    <3> QED  BY <3>1, <3>2
  <2> QED  BY <1>1, <2>6, <2>7 DEF BooksInv
<1>13. CASE UNCHANGED requestVars
  BY <1>1, <1>13 DEF BooksInv, Books, Here, Unbooked, Requested, BookedAt, UnderWay, requestVars
<1> QED  BY <1>4, <1>5, <1>6, <1>7, <1>8, <1>9, <1>10, <1>11, <1>12, <1>13 DEF RequestNext

LEMMA BooksSay ==
    ASSUME BooksInv
    PROVE  BookedAtMostOnce /\ FraudNetsToZero
<1> DEFINE kinds == {"request", "impression", "click"}
<1>1. kinds = Bookable
  BY DEF Bookable
<1>2. \A kind \in Bookable : /\ Net(kind) = NetOf(told, kind)
                           /\ told[kind].normal = Normal(told, kind)
  BY DEF Net, NetOf, Normal
<1>3. ASSUME NEW kind \in Bookable
      PROVE  NetOf(told, kind) \in 0..1 /\ Normal(told, kind) <= 1
  <2>1. CASE Unbooked(profile, operations, told)
    BY <2>1 DEF Unbooked
  <2>2. ASSUME NEW o \in Owner, BookedAt(o, profile, operations, told)
        PROVE  NetOf(told, kind) \in 0..1 /\ Normal(told, kind) <= 1
    <3>1. /\ Normal(told, kind) = Count(profile[o], kind)
          /\ NetOf(told, kind) = NetCount(profile[o], kind)
      BY <2>2 DEF BookedAt, Agrees
    <3>2. Count(profile[o], kind) \in {0, 1} /\ NetCount(profile[o], kind) \in {0, 1}
      BY CountIs
    <3> QED  BY <3>1, <3>2
  <2>3. ASSUME NEW op, UnderWay(op, profile, operations, told)
        PROVE  NetOf(told, kind) \in 0..1 /\ Normal(told, kind) <= 1
    BY <2>3 DEF UnderWay, Resaved
  <2> QED  BY <2>1, <2>2, <2>3 DEF BooksInv, Books, Requested
<1>4. BookedAtMostOnce
  BY <1>1, <1>2, <1>3 DEF BookedAtMostOnce
<1>5. FraudNetsToZero
  <2> SUFFICES ASSUME NEW o \in Owner, profile[o] # Nothing, profile[o].fraud = "fraud",
                      NEW kind \in Bookable
               PROVE  NetOf(told, kind) = 0
    BY <1>1, <1>2 DEF FraudNetsToZero, RolledBack
  <2>1. Active(profile[o])
    BY DEF BooksInv, Typed, WellFormed, Active
  <2>2. BookedAt(o, profile, operations, told)
    BY <2>1 DEF BooksInv, Books, Unbooked, Requested, BookedAt, UnderWay
  <2> QED  BY <2>2 DEF BookedAt, Agrees, NetCount
<1> QED  BY <1>4, <1>5

(* What has come before is not more than what has come.                    *)
LEMMA OneRequestBefore ==
    ASSUME Typed, [RequestNext]_requestVars, OneRequestMoves'
    PROVE  OneRequestMoves
<1>1. \A x \in Record : arrived[x] \in Nat
  BY DEF Typed
<1>2. "request" \in Record /\ "foreign" \in Record
  BY DEF Record
<1>3. CASE arrived' = arrived
  BY <1>3 DEF OneRequestMoves
<1>4. CASE \E record \in Record : Arrive(record)
  <2>1. PICK record \in Record : Arrive(record)
    BY <1>4
  <2>2. /\ arrived'[record] = arrived[record] + 1
        /\ \A x \in Record : x # record => arrived'[x] = arrived[x]
    BY <2>1, ArriveIs
  <2>3. /\ arrived["request"] <= arrived'["request"]
        /\ arrived["foreign"] > 0 => arrived'["foreign"] > 0
    BY <1>1, <1>2, <2>2
  <2>4. arrived'["request"] \in Nat
    BY <1>1, <1>2, <2>2
  <2> QED  BY <1>1, <1>2, <2>3, <2>4 DEF OneRequestMoves
<1>5. arrived' = arrived \/ \E record \in Record : Arrive(record)
  BY DEF RequestNext, RequestRecord, Notice, Impression, ForeignImpression, Click, Action, Post,
         FraudRollback, Operation, requestVars, Record
<1> QED  BY <1>3, <1>4, <1>5

(* The books as long as they are in order.                                 *)
OrderInv == Typed /\ (OneRequestMoves => BooksInv)

LEMMA OrderHolds == RequestSpec => []OrderInv
<1>1. RequestInit => OrderInv
  BY BooksInit DEF OrderInv, BooksInv
<1>2. OrderInv /\ [RequestNext]_requestVars => OrderInv'
  BY TypedNext, OneRequestBefore, BooksNext DEF OrderInv
<1> QED  BY <1>1, <1>2, PTL DEF RequestSpec

(* As long as a request with impressions of other users has had one        *)
(* request record, a request, its impression and its click are never       *)
(* booked twice nor taken back unbooked, whatever order the records, the   *)
(* rollback and the operations between the owners come in: the profile of  *)
(* one owner, or the one operation by which the request moves, is all that *)
(* is booked (process_*_buf_, change_request_user_id_).                    *)
THEOREM BookedAtMostOnceHolds == RequestSpec => []BookedAtMostOnce
<1>1. OrderInv => BookedAtMostOnce
  BY BooksSay DEF OrderInv, BookedAtMostOnce
<1> QED  BY <1>1, OrderHolds, PTL

(* Just as long a rollback leaves nothing booked, nor does what comes      *)
(* after it (process_fraud_rollback_buf_).                                 *)
THEOREM FraudNetsToZeroHolds == RequestSpec => []FraudNetsToZero
<1>1. OrderInv => FraudNetsToZero
  BY BooksSay DEF OrderInv, FraudNetsToZero
<1> QED  BY <1>1, OrderHolds, PTL

-----------------------------------------------------------------------------
(* What was told once nothing is on its way: OutcomeIsOrderFree.           *)

(* What came of the records of a request, in numbers: a sheet.  It has of  *)
(* a profile what has come and what waits, and of what was told the        *)
(* duplicates, the actions and the post impression actions.                *)

Sheet(s) ==
    [requested |-> s.p.request_done,
     noticed |-> s.p.notice_received, early |-> s.p.notice_non_considered,
     shown |-> s.p.impression_verified, waiting |-> s.p.impression_non_considered,
     clicked |-> s.p.click_done, clicks |-> s.p.click_non_considered,
     actions |-> s.p.actions_non_considered, names |-> s.p.post_impression_actions,
     shownAgain |-> s.told["impression"]["duplicate"],
     clickedAgain |-> s.told["click"]["duplicate"],
     acted |-> s.told["action"]["normal"], posted |-> s.told["post"]["normal"]]

Sheets ==
    [requested : BOOLEAN, noticed : BOOLEAN, early : BOOLEAN, shown : BOOLEAN, waiting : Nat,
     clicked : BOOLEAN, clicks : Nat, actions : Nat, names : SUBSET PostAction,
     shownAgain : Nat, clickedAgain : Nat, acted : Nat, posted : Nat]

(* The transactions on a sheet.                                            *)
ActionsOn(x, n) ==
    IF ~x.clicked THEN [x EXCEPT !.actions = @ + n]
    ELSE IF tracking.action THEN [x EXCEPT !.acted = @ + n] ELSE x

NamesOn(x, names) ==
    [x EXCEPT !.names = @ \cup names,
              !.posted = IF x.shown THEN @ + Cardinality(names \ x.names) ELSE @]

FirstClickOn(x) ==
    ActionsOn([x EXCEPT !.clicked = TRUE, !.clicks = 0, !.actions = 0,
                        !.clickedAgain = @ + x.clicks], x.actions)

ClickOn(x) ==
    IF ~x.shown THEN [x EXCEPT !.clicks = @ + 1]
    ELSE IF x.clicked THEN [x EXCEPT !.clickedAgain = @ + 1]
    ELSE FirstClickOn(x)

ShownOn(x) ==
    [x EXCEPT !.shown = TRUE, !.waiting = 0, !.clicks = Less1(@), !.names = {},
              !.shownAgain = @ + x.waiting]

VerifyOn(x) ==
    NamesOn(IF x.clicks > 0 THEN ClickOn(ShownOn(x)) ELSE ShownOn(x), x.names)

ImpressionOn(x) ==
    IF x.shown THEN [x EXCEPT !.shownAgain = @ + 1]
    ELSE IF x.noticed THEN VerifyOn(x)
    ELSE [x EXCEPT !.waiting = @ + 1]

NoticedOn(x) ==
    IF x.waiting > 0 THEN ImpressionOn([x EXCEPT !.noticed = TRUE, !.waiting = @ - 1])
    ELSE IF ~tracking.impression THEN ImpressionOn([x EXCEPT !.noticed = TRUE])
    ELSE [x EXCEPT !.noticed = TRUE]

NoticeOn(x) ==
    IF ~x.requested THEN [x EXCEPT !.early = TRUE]
    ELSE IF x.noticed THEN x ELSE NoticedOn(x)

RequestOn(x) ==
    IF x.early \/ ~tracking.notice
    THEN NoticeOn([x EXCEPT !.requested = TRUE, !.early = FALSE])
    ELSE [x EXCEPT !.requested = TRUE, !.early = FALSE]

-----------------------------------------------------------------------------
(* The transactions are what they are on sheets.                           *)

LEMMA SheetType ==
    ASSUME NEW s, IsStore(s), s.p \in Profile
    PROVE  Sheet(s) \in Sheets
<1>1. "impression" \in Kind /\ "click" \in Kind /\ "action" \in Kind /\ "post" \in Kind
  BY DEF Kind
<1>2. /\ s.told["impression"]["duplicate"] \in Nat /\ s.told["click"]["duplicate"] \in Nat
      /\ s.told["action"]["normal"] \in Nat /\ s.told["post"]["normal"] \in Nat
  BY <1>1, ToldIs DEF IsStore
<1> QED  BY <1>2 DEF Sheet, Sheets, Profile

LEMMA TellSheet ==
    ASSUME NEW s, IsStore(s), s.p \in Profile,
           NEW kind \in Kind, NEW state \in State, NEW n \in Nat,
           NEW r, r = TellTimes(s, kind, state, n)
    PROVE  /\ kind = "impression" /\ state = "duplicate" =>
                Sheet(r) = [Sheet(s) EXCEPT !.shownAgain = @ + n]
           /\ kind = "click" /\ state = "duplicate" =>
                Sheet(r) = [Sheet(s) EXCEPT !.clickedAgain = @ + n]
           /\ kind = "action" /\ state = "normal" =>
                Sheet(r) = [Sheet(s) EXCEPT !.acted = @ + n]
           /\ kind = "post" /\ state = "normal" =>
                Sheet(r) = [Sheet(s) EXCEPT !.posted = @ + n]
           /\ kind \in Bookable /\ state # "duplicate" => Sheet(r) = Sheet(s)
<1>1. "impression" \in Kind /\ "click" \in Kind /\ "action" \in Kind /\ "post" \in Kind
      /\ "duplicate" \in State /\ "normal" \in State
  BY DEF Kind, State
<1>2. /\ r.p = s.p
      /\ \A k \in Kind, x \in State :
            r.told[k][x] = IF k = kind /\ x = state THEN s.told[k][x] + n ELSE s.told[k][x]
  BY TellTimesResult
<1> DEFINE Is(k, x) == IF k = kind /\ x = state THEN s.told[k][x] + n ELSE s.told[k][x]
<1>3. /\ r.told["impression"]["duplicate"] = Is("impression", "duplicate")
      /\ r.told["click"]["duplicate"] = Is("click", "duplicate")
      /\ r.told["action"]["normal"] = Is("action", "normal")
      /\ r.told["post"]["normal"] = Is("post", "normal")
  BY <1>1, <1>2
<1>4. kind = "impression" /\ state = "duplicate" =>
        Sheet(r) = [Sheet(s) EXCEPT !.shownAgain = @ + n]
  BY <1>2, <1>3 DEF Sheet
<1>5. kind = "click" /\ state = "duplicate" =>
        Sheet(r) = [Sheet(s) EXCEPT !.clickedAgain = @ + n]
  BY <1>2, <1>3 DEF Sheet
<1>6. kind = "action" /\ state = "normal" => Sheet(r) = [Sheet(s) EXCEPT !.acted = @ + n]
  BY <1>2, <1>3 DEF Sheet
<1>7. kind = "post" /\ state = "normal" => Sheet(r) = [Sheet(s) EXCEPT !.posted = @ + n]
  BY <1>2, <1>3 DEF Sheet
<1>8. kind \in Bookable /\ state # "duplicate" => Sheet(r) = Sheet(s)
  BY <1>2, <1>3 DEF Sheet, Bookable
<1> QED  BY <1>4, <1>5, <1>6, <1>7, <1>8

LEMMA ActionsSheet ==
    ASSUME NEW s, Ready(s), NEW n \in Nat, NEW r, r = ProcessActions(s, n)
    PROVE  Sheet(r) = ActionsOn(Sheet(s), n)
<1>1. s = [p |-> s.p, told |-> s.told, operations |-> s.operations] /\ s.p \in Profile
      /\ s.told \in Tolds /\ IsStore(s)
  BY TrackingFlags DEF IsStore
<1>2. CASE ~s.p.click_done
  <2>1. r = [p |-> [s.p EXCEPT !.actions_non_considered = @ + n], told |-> s.told,
             operations |-> s.operations]
    BY <1>1, <1>2 DEF ProcessActions
  <2> QED  BY <1>1, <1>2, <2>1 DEF Sheet, ActionsOn, Profile
<1>3. CASE s.p.click_done /\ tracking.action
  <2> DEFINE q == [s.p EXCEPT !.actions_done = @ + n]
             c == [p |-> q, told |-> s.told, operations |-> s.operations]
  <2>1. r = TellTimes(c, "action", "normal", n)
    <3>1. [s EXCEPT !.p.actions_done = @ + n] = c
      BY <1>1
    <3> QED  BY <1>3, <3>1 DEF ProcessActions
  <2>2. IsStore(c) /\ c.p \in Profile
    BY <1>1 DEF IsStore, Profile
  <2>3. Sheet(c) = Sheet(s)
    BY <1>1 DEF Sheet, Profile
  <2> HIDE DEF c, q
  <2>4. "action" \in Kind /\ "normal" \in State
    BY DEF Kind, State
  <2>5. Sheet(r) = [Sheet(c) EXCEPT !.acted = @ + n]
    BY <2>1, <2>2, <2>4, TellSheet
  <2>6. Sheet(s).clicked
    BY <1>3 DEF Sheet
  <2> QED  BY <1>3, <2>3, <2>5, <2>6 DEF ActionsOn
<1>4. CASE s.p.click_done /\ ~tracking.action
  BY <1>4 DEF ProcessActions, ActionsOn, Sheet
<1> QED  BY <1>2, <1>3, <1>4

LEMMA NamesSheet ==
    ASSUME NEW s, Ready(s), NEW names \in SUBSET PostAction,
           NEW r, r = ProcessPostActions(s, names)
    PROVE  Sheet(r) = NamesOn(Sheet(s), names)
<1>1. s = [p |-> s.p, told |-> s.told, operations |-> s.operations] /\ s.p \in Profile
      /\ s.told \in Tolds
  BY TrackingFlags DEF IsStore
<1> DEFINE new == names \ s.p.post_impression_actions
           q == [s.p EXCEPT !.post_impression_actions = @ \cup names]
           c == [p |-> q, told |-> s.told, operations |-> s.operations]
<1>2. Cardinality(new) \in Nat
  <2>1. IsFiniteSet(new)
    BY ProfileAssumption, FS_Subset
  <2> QED  BY <2>1, FS_CardinalityType
<1>3. IsStore(c) /\ c.p \in Profile
  BY <1>1 DEF IsStore, Profile
<1>4. Sheet(c) = [Sheet(s) EXCEPT !.names = @ \cup names]
  BY <1>1 DEF Sheet, Profile
<1>5. [s EXCEPT !.p.post_impression_actions = @ \cup names] = c
  BY <1>1
<1>6. r = IF s.p.impression_verified THEN TellTimes(c, "post", "normal", Cardinality(new)) ELSE c
  BY <1>5 DEF ProcessPostActions
<1>7. "post" \in Kind /\ "normal" \in State
  BY DEF Kind, State
<1>9. Sheet(s) \in Sheets /\ (Sheet(s).shown <=> s.p.impression_verified)
      /\ new = names \ Sheet(s).names
  BY <1>1, SheetType DEF Sheet, Ready
<1> HIDE DEF q, c, new
<1>8. CASE s.p.impression_verified
  <2>1. Sheet(r) = [Sheet(c) EXCEPT !.posted = @ + Cardinality(new)]
    BY <1>2, <1>3, <1>6, <1>7, <1>8, TellSheet

  <2> QED  BY <1>4, <1>8, <1>9, <2>1 DEF NamesOn, Sheets
<1>10. CASE ~s.p.impression_verified
  BY <1>4, <1>6, <1>9, <1>10 DEF NamesOn, Sheets
<1> QED  BY <1>8, <1>10

LEMMA SameSheet ==
    ASSUME NEW x \in Sheets, NEW y \in Sheets,
           x.requested <=> y.requested, x.noticed <=> y.noticed, x.early <=> y.early,
           x.shown <=> y.shown, x.waiting = y.waiting, x.clicked <=> y.clicked,
           x.clicks = y.clicks, x.actions = y.actions, x.names = y.names,
           x.shownAgain = y.shownAgain, x.clickedAgain = y.clickedAgain,
           x.acted = y.acted, x.posted = y.posted
    PROVE  x = y
BY DEF Sheets

LEMMA FirstClickSheet ==
    ASSUME NEW s, Ready(s), s.p.impression_verified, ~s.p.click_done,
           NEW r, r = FirstClick(s)
    PROVE  Sheet(r) = [Sheet(s) EXCEPT !.clicked = TRUE, !.clicks = 0, !.actions = 0]
<1>1. s = [p |-> s.p, told |-> s.told, operations |-> s.operations] /\ s.p \in Profile
      /\ s.told \in Tolds
  BY TrackingFlags DEF IsStore
<1> DEFINE q == ClickDone(s.p)
           c == [p |-> q, told |-> s.told, operations |-> s.operations]
           d == TellTimes(c, "click", "normal", 1)
<1>2. IsStore(c) /\ c.p = q /\ q \in Profile
  BY <1>1 DEF IsStore, ClickDone, Profile
<1>3. Sheet(c) = [Sheet(s) EXCEPT !.clicked = TRUE, !.clicks = 0, !.actions = 0]
  <2>1. /\ q.request_done = s.p.request_done /\ q.notice_received = s.p.notice_received
        /\ q.notice_non_considered = s.p.notice_non_considered
        /\ q.impression_verified = s.p.impression_verified
        /\ q.impression_non_considered = s.p.impression_non_considered /\ q.click_done
        /\ q.click_non_considered = 0 /\ q.actions_non_considered = 0
        /\ q.post_impression_actions = s.p.post_impression_actions /\ q.click_done = TRUE
    BY <1>1 DEF ClickDone, Profile
  <2>2. c.p = q /\ c.told = s.told
    OBVIOUS
  <2> HIDE DEF c, q
  <2> DEFINE x == Sheet(s)
             y == [x EXCEPT !.clicked = TRUE, !.clicks = 0, !.actions = 0]
             z == Sheet(c)
  <2>3. x \in Sheets /\ z \in Sheets
    BY <1>1, <1>2, SheetType DEF Ready
  <2>4. y \in Sheets
    BY <2>3 DEF Sheets
  <2>5. /\ z.requested = x.requested /\ z.noticed = x.noticed /\ z.early = x.early
        /\ z.shown = x.shown /\ z.waiting = x.waiting /\ z.clicked
        /\ z.clicks = 0 /\ z.actions = 0 /\ z.names = x.names
        /\ z.shownAgain = x.shownAgain /\ z.clickedAgain = x.clickedAgain
        /\ z.acted = x.acted /\ z.posted = x.posted
    BY <2>1, <2>2 DEF Sheet
  <2> HIDE DEF x, z
  <2>6. /\ y.requested = x.requested /\ y.noticed = x.noticed /\ y.early = x.early
        /\ y.shown = x.shown /\ y.waiting = x.waiting /\ y.clicked
        /\ y.clicks = 0 /\ y.actions = 0 /\ y.names = x.names
        /\ y.shownAgain = x.shownAgain /\ y.clickedAgain = x.clickedAgain
        /\ y.acted = x.acted /\ y.posted = x.posted
    BY <2>3 DEF Sheets
  <2> HIDE DEF y
  <2>7. z = y
    BY <2>3, <2>4, <2>5, <2>6, SameSheet
  <2> QED  BY <2>7 DEF x, y, z
<1>4. r = IF s.p.fraud = "fraud" THEN TellTimes(d, "click", "fraud", 1) ELSE d
  BY <1>1 DEF FirstClick, TellIf, Tell
<1>5. "click" \in Kind /\ "click" \in Bookable /\ "normal" \in State /\ "fraud" \in State
  BY DEF Kind, State, Bookable
<1> HIDE DEF q, c
<1>6. IsStore(d) /\ d.p = q /\ Sheet(d) = Sheet(c)
  BY <1>2, <1>5, TellTimesResult, TellSheet
<1> HIDE DEF d
<1>7. CASE s.p.fraud = "fraud"
  <2>1. r = TellTimes(d, "click", "fraud", 1)
    BY <1>4, <1>7
  <2>2. Sheet(r) = Sheet(d)
    BY <1>2, <1>5, <1>6, <2>1, TellSheet
  <2> QED  BY <1>3, <1>6, <2>2
<1>8. CASE s.p.fraud # "fraud"
  BY <1>3, <1>4, <1>6, <1>8
<1> QED  BY <1>7, <1>8

LEMMA ClickSheet ==
    ASSUME NEW s, Ready(s), NEW moveable, NEW r, r = ProcessClick(s, moveable)
    PROVE  Sheet(r) = ClickOn(Sheet(s))
<1>1. s.p \in Profile /\ Opened(s.p) = s.p /\ ~Moved(s.p) /\ IsStore(s)
  BY TrackingFlags DEF Opened
<1> DEFINE x == Sheet(s)
<1>2. /\ x \in Sheets /\ x.shown = s.p.impression_verified /\ x.clicked = s.p.click_done
      /\ x.clicks = s.p.click_non_considered /\ x.actions = s.p.actions_non_considered
  BY <1>1, SheetType DEF Sheet
<1> HIDE DEF x
<1>3. CASE ~s.p.impression_verified
  <2>1. r = [s EXCEPT !.p = [s.p EXCEPT !.click_non_considered = @ + 1]]
    BY <1>1, <1>3 DEF ProcessClick
  <2>2. Sheet(r) = [x EXCEPT !.clicks = @ + 1]
    BY <1>1, <2>1 DEF Sheet, Profile, IsStore, x
  <2> QED  BY <1>2, <1>3, <2>2 DEF ClickOn, x
<1>4. CASE s.p.impression_verified /\ s.p.click_done
  <2>1. r = TellTimes(s, "click", "duplicate", 1)
    BY <1>1, <1>4 DEF ProcessClick, Tell
  <2>2. "click" \in Kind /\ "duplicate" \in State
    BY DEF Kind, State
  <2>3. Sheet(r) = [x EXCEPT !.clickedAgain = @ + 1]
    BY <1>1, <2>1, <2>2, TellSheet DEF x
  <2> QED  BY <1>2, <1>4, <2>3 DEF ClickOn, x
<1>5. CASE s.p.impression_verified /\ ~s.p.click_done
  <2> DEFINE f == FirstClick(s)
             g == TellTimes(f, "click", "duplicate", s.p.click_non_considered)
  <2>1. r = ProcessActions(g, s.p.actions_non_considered)
    BY <1>1, <1>5 DEF ProcessClick
  <2>2. Follows(s, f)
    BY <1>5, FirstClickFollows
  <2>3. Sheet(f) = [x EXCEPT !.clicked = TRUE, !.clicks = 0, !.actions = 0]
    BY <1>5, FirstClickSheet DEF x
  <2>4. s.p.click_non_considered \in Nat /\ s.p.actions_non_considered \in Nat /\ "click" \in Kind
        /\ "duplicate" \in State
    BY <1>1 DEF Profile, Kind, State
  <2> HIDE DEF f
  <2>5. Follows(f, g)
    BY <2>2, <2>4, DuplicatesFollow DEF Follows
  <2>6. Sheet(g) = [Sheet(f) EXCEPT !.clickedAgain = @ + s.p.click_non_considered]
    BY <2>2, <2>4, TellSheet, TrackingFlags DEF Follows
  <2> HIDE DEF g
  <2>7. Sheet(r) = ActionsOn(Sheet(g), s.p.actions_non_considered)
    BY <2>1, <2>4, <2>5, ActionsSheet DEF Follows
  <2>8. Sheet(g) = [x EXCEPT !.clicked = TRUE, !.clicks = 0, !.actions = 0,
                             !.clickedAgain = @ + x.clicks]
    BY <1>2, <2>3, <2>6 DEF Sheets
  <2>9. Sheet(r) = FirstClickOn(x)
    BY <1>2, <2>7, <2>8 DEF FirstClickOn
  <2> QED  BY <1>2, <1>5, <2>9 DEF ClickOn, x
<1> QED  BY <1>3, <1>4, <1>5

LEMMA VerifySheet ==
    ASSUME NEW s, Ready(s), ~s.p.impression_verified, s.p.notice_received,
           NEW user \in User \cup {Nothing}, NEW moveable,
           NEW r, r = VerifyImpression(s, user, moveable)
    PROVE  Sheet(r) = VerifyOn(Sheet(s))
<1>1. s = [p |-> s.p, told |-> s.told, operations |-> s.operations] /\ s.p \in Profile
      /\ s.told \in Tolds
  BY TrackingFlags DEF IsStore
<1> DEFINE q == Verified(s.p, user)
           c == [p |-> q, told |-> s.told, operations |-> s.operations]
           d == TellTimes(c, "impression", "normal", 1)
           e == TellTimes(d, "impression", "duplicate", s.p.impression_non_considered)
           f == IF s.p.click_non_considered > 0 THEN ProcessClick(e, moveable) ELSE e
           x == Sheet(s)
<1>2. r = ProcessPostActions(f, s.p.post_impression_actions)
  BY <1>1 DEF VerifyImpression, Tell
<1>3. /\ x \in Sheets /\ x.clicks = s.p.click_non_considered
      /\ x.waiting = s.p.impression_non_considered /\ x.names = s.p.post_impression_actions
      /\ s.p.click_non_considered \in Nat /\ s.p.impression_non_considered \in Nat
      /\ s.p.post_impression_actions \in SUBSET PostAction
  BY <1>1, SheetType DEF Sheet, Ready, Profile
<1>4. s.p.fraud = "normal" /\ s.p.request_done /\ ~s.p.click_done /\ s.p.user_id \in User
  BY DEF Ready, WellFormed, Profile
<1>5. /\ q \in Profile /\ WellFormed(q) /\ q.fraud = "normal"
      /\ Sheet(c) = [x EXCEPT !.shown = TRUE, !.waiting = 0, !.clicks = Less1(@), !.names = {}]
  <2> DEFINE n == IF s.p.impression_non_considered = 0 THEN Named(s.p, user) ELSE s.p
             l == Less1(s.p.click_non_considered)
  <2>1. n \in Profile /\ n.user_id \in User
    BY <1>1, <1>4 DEF Named, Profile
  <2>2. /\ n.request_done = s.p.request_done /\ n.fraud = "normal"
        /\ n.notice_received = s.p.notice_received /\ n.click_done = s.p.click_done
        /\ n.notice_non_considered = s.p.notice_non_considered
        /\ n.click_non_considered = s.p.click_non_considered
        /\ n.actions_non_considered = s.p.actions_non_considered
    BY <1>1, <1>4 DEF Named, Profile
  <2>3. l \in Nat
    BY <1>3 DEF Less1
  <2>4. q = [n EXCEPT !.impression_verified = TRUE, !.impression_non_considered = 0,
                      !.click_non_considered = l, !.post_impression_actions = {}]
    BY <2>1, <2>2 DEF Verified, Less1, Profile
  <2> HIDE DEF n, q, l
  <2>5. q \in Profile /\ q.fraud = "normal"
    BY <2>1, <2>2, <2>3, <2>4 DEF Profile
  <2>6. /\ q.request_done = s.p.request_done /\ q.notice_received = s.p.notice_received
        /\ q.notice_non_considered = s.p.notice_non_considered /\ q.impression_verified = TRUE
        /\ q.impression_non_considered = 0 /\ q.click_done = s.p.click_done
        /\ q.click_non_considered = l /\ q.post_impression_actions = {}
        /\ q.actions_non_considered = s.p.actions_non_considered /\ q.user_id \in User
    BY <2>1, <2>2, <2>4 DEF Profile
  <2>7. WellFormed(q)
    BY <1>4, <2>5, <2>6 DEF WellFormed
  <2>8. c.p = q /\ c.told = s.told
    OBVIOUS
  <2> HIDE DEF c
  <2>9. Sheet(c) = [x EXCEPT !.shown = TRUE, !.waiting = 0, !.clicks = l, !.names = {}]
    <3> DEFINE y == [x EXCEPT !.shown = TRUE, !.waiting = 0, !.clicks = l, !.names = {}]
               z == Sheet(c)
    <3>1. IsStore(c)
      BY <1>1, <2>8 DEF c, IsStore
    <3>2. x \in Sheets /\ z \in Sheets
      BY <1>3, <2>5, <2>8, <3>1, SheetType
    <3>3. y \in Sheets
      BY <2>3, <3>2 DEF Sheets
    <3>4. /\ z.requested = x.requested /\ z.noticed = x.noticed /\ z.early = x.early
          /\ z.shown /\ z.waiting = 0 /\ z.clicked = x.clicked
          /\ z.clicks = l /\ z.actions = x.actions /\ z.names = {}
          /\ z.shownAgain = x.shownAgain /\ z.clickedAgain = x.clickedAgain
          /\ z.acted = x.acted /\ z.posted = x.posted
      BY <2>6, <2>8 DEF Sheet
    <3> HIDE DEF x, z
    <3>5. /\ y.requested = x.requested /\ y.noticed = x.noticed /\ y.early = x.early
          /\ y.shown /\ y.waiting = 0 /\ y.clicked = x.clicked
          /\ y.clicks = l /\ y.actions = x.actions /\ y.names = {}
          /\ y.shownAgain = x.shownAgain /\ y.clickedAgain = x.clickedAgain
          /\ y.acted = x.acted /\ y.posted = x.posted
      BY <3>2 DEF Sheets
    <3> HIDE DEF y
    <3>6. /\ (z.requested <=> y.requested) /\ (z.noticed <=> y.noticed)
          /\ (z.early <=> y.early) /\ (z.shown <=> y.shown) /\ z.waiting = y.waiting
          /\ (z.clicked <=> y.clicked) /\ z.clicks = y.clicks /\ z.actions = y.actions
          /\ z.names = y.names /\ z.shownAgain = y.shownAgain
          /\ z.clickedAgain = y.clickedAgain /\ z.acted = y.acted /\ z.posted = y.posted
      BY <3>4, <3>5
    <3>7. z = y
      BY <3>2, <3>3, <3>6, SameSheet
    <3> QED  BY <3>7 DEF y, z
  <2> QED  BY <1>3, <2>5, <2>7, <2>9 DEF Sheets, l
<1> HIDE DEF q
<1>6. IsStore(c) /\ c.p = q /\ c.told = s.told
  BY <1>1 DEF IsStore
<1> HIDE DEF c
<1>7. "impression" \in Kind /\ "impression" \in Bookable /\ "normal" \in State
      /\ "duplicate" \in State
  BY DEF Kind, State, Bookable
<1>8. IsStore(d) /\ d.p = q /\ Sheet(d) = Sheet(c)
  BY <1>5, <1>6, <1>7, TellTimesResult, TellSheet
<1> HIDE DEF d
<1>9. /\ IsStore(e) /\ e.p = q
      /\ Sheet(e) = [Sheet(d) EXCEPT !.shownAgain = @ + s.p.impression_non_considered]
  <2>1. IsStore(e) /\ e.p = q
    BY <1>3, <1>7, <1>8, TellTimesResult
  <2>2. Sheet(e) = [Sheet(d) EXCEPT !.shownAgain = @ + s.p.impression_non_considered]
    <3> DEFINE n == s.p.impression_non_considered
    <3>1. n \in Nat /\ d.p \in Profile /\ e = TellTimes(d, "impression", "duplicate", n)
      BY <1>3, <1>5, <1>8
    <3> HIDE DEF n, e
    <3>2. Sheet(e) = [Sheet(d) EXCEPT !.shownAgain = @ + n]
      BY <1>7, <1>8, <3>1, TellSheet
    <3> QED  BY <3>2 DEF n
  <2> QED  BY <2>1, <2>2
<1> HIDE DEF e
<1>10. Ready(e) /\ Sheet(e) = ShownOn(x)
  <2>1. Ready(e)
    BY <1>5, <1>9 DEF Ready
  <2> QED  BY <1>3, <1>5, <1>8, <1>9, <2>1 DEF ShownOn, Sheets
<1>11. Ready(f) /\ Sheet(f) = IF x.clicks > 0 THEN ClickOn(ShownOn(x)) ELSE ShownOn(x)
  <2>1. CASE s.p.click_non_considered > 0
    <3>1. f = ProcessClick(e, moveable)
      BY <2>1
    <3>2. Follows(e, f) /\ Sheet(f) = ClickOn(Sheet(e))
      BY <1>10, <3>1, ClickFollows, ClickSheet
    <3> QED  BY <1>3, <1>10, <2>1, <3>2 DEF Follows
  <2>2. CASE ~(s.p.click_non_considered > 0)
    BY <1>3, <1>10, <2>2
  <2> QED  BY <2>1, <2>2
<1> HIDE DEF f, x
<1>12. Sheet(r) = NamesOn(Sheet(f), x.names)
  BY <1>2, <1>3, <1>11, NamesSheet
<1> QED  BY <1>11, <1>12 DEF VerifyOn, x

(* An impression by which the request does not leave.                      *)
LEMMA ImpressionSheet ==
    ASSUME NEW s, Ready(s), NEW user \in User \cup {Nothing}, NEW moveable,
           ~Leaves(s, user, moveable),
           NEW r, r = ProcessImpression(s, user, moveable)
    PROVE  Sheet(r) = ImpressionOn(Sheet(s))
<1>1. s.p \in Profile /\ s.p # Nothing /\ ~Moved(s.p) /\ IsStore(s)
  BY TrackingFlags
<1>2. /\ Sheet(s) \in Sheets /\ Sheet(s).shown = s.p.impression_verified
      /\ Sheet(s).noticed = s.p.notice_received
  BY <1>1, SheetType DEF Sheet
<1>3. CASE s.p.impression_verified
  <2>1. r = TellTimes(s, "impression", "duplicate", 1)
    BY <1>1, <1>3 DEF ProcessImpression, SecondImpression, Tell
  <2>2. "impression" \in Kind /\ "duplicate" \in State
    BY DEF Kind, State
  <2>3. Sheet(r) = [Sheet(s) EXCEPT !.shownAgain = @ + 1]
    BY <1>1, <2>1, <2>2, TellSheet
  <2> QED  BY <1>2, <1>3, <2>3 DEF ImpressionOn
<1>4. CASE ~s.p.impression_verified /\ s.p.notice_received
  <2>1. r = VerifyImpression(s, user, moveable)
    BY <1>1, <1>4 DEF ProcessImpression, Leaves
  <2> QED  BY <1>2, <1>4, <2>1, VerifySheet DEF ImpressionOn
<1>5. CASE ~s.p.impression_verified /\ ~s.p.notice_received
  <2> DEFINE n == IF s.p.impression_non_considered = 0 THEN Named(s.p, user) ELSE s.p
             q == [n EXCEPT !.impression_non_considered = @ + 1]
  <2>1. r = WaitImpression(s, user)
    BY <1>1, <1>5 DEF ProcessImpression, Leaves
  <2>2. r = [p |-> q, told |-> s.told, operations |-> s.operations]
    BY <1>1, <2>1 DEF WaitImpression, IsStore
  <2>3. n = [s.p EXCEPT !.user_id = n.user_id]
    BY <1>1 DEF Named, Profile
  <2> HIDE DEF n
  <2>4. Sheet(r) = [Sheet(s) EXCEPT !.waiting = @ + 1]
    BY <1>1, <2>2, <2>3 DEF Sheet, Profile
  <2> QED  BY <1>2, <1>5, <2>4 DEF ImpressionOn
<1> QED  BY <1>3, <1>4, <1>5

(* The notice brings the impression that waited for it.                    *)
LEMMA NoticeReceivedSheet ==
    ASSUME NEW s, Ready(s), s.p.request_done, ~s.p.notice_received, NEW moveable,
           NEW r, r = NoticeReceived(s, moveable)
    PROVE  Sheet(r) = NoticedOn(Sheet(s))
<1>1. s = [p |-> s.p, told |-> s.told, operations |-> s.operations] /\ s.p \in Profile
      /\ s.told \in Tolds
  BY TrackingFlags DEF IsStore
<1> DEFINE p == [s.p EXCEPT !.notice_received = TRUE]
           q == [p EXCEPT !.impression_non_considered = @ - 1]
           c == [s EXCEPT !.p = p]
           d == [s EXCEPT !.p = q]
           x == Sheet(s)
<1>2. /\ s.p.impression_non_considered \in Nat /\ s.p.user_id \in User \cup {Nothing}
      /\ x \in Sheets /\ x.waiting = s.p.impression_non_considered
  BY <1>1, SheetType DEF Profile, Sheet, Ready
<1>3. /\ p \in Profile /\ p.notice_received /\ p.request_done /\ p.user_id = s.p.user_id
      /\ p.fraud = s.p.fraud /\ p.click_done = s.p.click_done
      /\ p.impression_verified = s.p.impression_verified
      /\ p.impression_non_considered = s.p.impression_non_considered
      /\ p.notice_non_considered = s.p.notice_non_considered
      /\ p.click_non_considered = s.p.click_non_considered
      /\ p.actions_non_considered = s.p.actions_non_considered
      /\ p.post_impression_actions = s.p.post_impression_actions
  BY <1>1 DEF Profile
<1>4. ~s.p.impression_verified /\ s.p.fraud = "normal" /\ ~s.p.click_done /\ s.p.user_id \in User
  BY DEF Ready, WellFormed, Profile
<1>5. \A e : [s EXCEPT !.p = e] = [p |-> e, told |-> s.told, operations |-> s.operations]
  BY <1>1
<1>6. c.p = p /\ c.told = s.told /\ d.p = q /\ d.told = s.told /\ IsStore(c) /\ IsStore(d)
  <2> HIDE DEF p, q
  <2> QED  BY <1>1, <1>5 DEF IsStore
<1>7. r = IF p.impression_non_considered > 0 THEN ProcessImpression(d, p.user_id, moveable)
          ELSE IF ~tracking.impression THEN ProcessImpression(c, Nothing, moveable)
          ELSE c
  BY DEF NoticeReceived
<1> HIDE DEF c, d
<1>8. WellFormed(p)
  BY <1>3, <1>4 DEF WellFormed
<1>9. Sheet(c) = [x EXCEPT !.noticed = TRUE]
  <2> DEFINE y == [x EXCEPT !.noticed = TRUE]
             z == Sheet(c)
  <2>1. y \in Sheets /\ z \in Sheets
    BY <1>2, <1>3, <1>6, SheetType DEF Sheets
  <2>2. /\ z.requested = x.requested /\ z.noticed /\ z.early = x.early
        /\ z.shown = x.shown /\ z.waiting = x.waiting /\ z.clicked = x.clicked
        /\ z.clicks = x.clicks /\ z.actions = x.actions /\ z.names = x.names
        /\ z.shownAgain = x.shownAgain /\ z.clickedAgain = x.clickedAgain
        /\ z.acted = x.acted /\ z.posted = x.posted
    <3> HIDE DEF p
    <3> QED  BY <1>3, <1>6 DEF Sheet
  <2> HIDE DEF x, z
  <2>3. /\ y.requested = x.requested /\ y.noticed /\ y.early = x.early
        /\ y.shown = x.shown /\ y.waiting = x.waiting /\ y.clicked = x.clicked
        /\ y.clicks = x.clicks /\ y.actions = x.actions /\ y.names = x.names
        /\ y.shownAgain = x.shownAgain /\ y.clickedAgain = x.clickedAgain
        /\ y.acted = x.acted /\ y.posted = x.posted
    BY <1>2 DEF Sheets
  <2> HIDE DEF y
  <2>4. /\ (z.requested <=> y.requested) /\ (z.noticed <=> y.noticed)
        /\ (z.early <=> y.early) /\ (z.shown <=> y.shown) /\ z.waiting = y.waiting
        /\ (z.clicked <=> y.clicked) /\ z.clicks = y.clicks /\ z.actions = y.actions
        /\ z.names = y.names /\ z.shownAgain = y.shownAgain
        /\ z.clickedAgain = y.clickedAgain /\ z.acted = y.acted /\ z.posted = y.posted
    BY <2>2, <2>3
  <2>5. z = y
    BY <2>1, <2>4, SameSheet
  <2> QED  BY <2>5 DEF y, z
<1>10. CASE p.impression_non_considered > 0
  <2>1. /\ q \in Profile /\ q.notice_received /\ q.request_done /\ q.user_id = s.p.user_id
        /\ q.fraud = s.p.fraud /\ q.click_done = s.p.click_done
        /\ q.impression_verified = s.p.impression_verified
        /\ q.impression_non_considered = s.p.impression_non_considered - 1
        /\ q = [p EXCEPT !.impression_non_considered = s.p.impression_non_considered - 1]
    <3> HIDE DEF p
    <3>1. p.impression_non_considered - 1 \in Nat
      BY <1>2, <1>3, <1>10
    <3> QED  BY <1>3, <3>1 DEF Profile
  <2>2. Sheet(d) = [Sheet(c) EXCEPT !.waiting = @ - 1]
    <3> HIDE DEF p, q, x
    <3>1. q = [p EXCEPT !.impression_non_considered = @ - 1]
      BY DEF q
    <3>2. Sheet(c).waiting = p.impression_non_considered
      BY <1>6 DEF Sheet
    <3> QED  BY <1>3, <1>6, <3>1, <3>2 DEF Sheet, Profile
  <2> HIDE DEF q
  <2>3. WellFormed(q)
    BY <1>4, <2>1 DEF WellFormed
  <2>4. Ready(d) /\ d.p.user_id = s.p.user_id
    BY <1>4, <1>6, <2>1, <2>3 DEF Ready
  <2>5. r = ProcessImpression(d, s.p.user_id, moveable)
    BY <1>3, <1>7, <1>10
  <2>6. ~Leaves(d, s.p.user_id, moveable)
    BY <2>4 DEF Leaves
  <2>7. Sheet(r) = ImpressionOn(Sheet(d))
    BY <1>2, <2>4, <2>5, <2>6, ImpressionSheet
  <2>8. Sheet(d) = [x EXCEPT !.noticed = TRUE, !.waiting = @ - 1]
    <3> HIDE DEF x
    <3> QED  BY <1>2, <1>9, <2>2 DEF Sheets
  <2> HIDE DEF x
  <2>9. x.waiting > 0
    BY <1>2, <1>3, <1>10
  <2> QED  BY <2>7, <2>8, <2>9 DEF NoticedOn, x
<1> HIDE DEF p
<1>11. CASE ~(p.impression_non_considered > 0)
  <2>1. Ready(c) /\ ~(x.waiting > 0)
    BY <1>2, <1>3, <1>4, <1>6, <1>8, <1>11 DEF Ready
  <2>2. CASE ~tracking.impression
    <3> DEFINE user == Nothing
    <3>1. r = ProcessImpression(c, user, moveable) /\ ~Leaves(c, user, moveable)
          /\ user \in User \cup {Nothing}
      BY <1>7, <1>11, <2>2 DEF Leaves
    <3> HIDE DEF user
    <3>2. Sheet(r) = ImpressionOn(Sheet(c))
      BY <2>1, <3>1, ImpressionSheet
    <3> QED  BY <1>9, <2>1, <2>2, <3>2 DEF NoticedOn
  <2>3. CASE tracking.impression
    BY <1>7, <1>9, <1>11, <2>1, <2>3 DEF NoticedOn
  <2> QED  BY <2>2, <2>3
<1> QED  BY <1>10, <1>11

(* The sheet has what the profile has and what was told.                   *)
LEMMA OnSheet ==
    ASSUME NEW s, IsStore(s), s.p \in Profile, NEW x, x = Sheet(s)
    PROVE  /\ x \in Sheets
           /\ x.requested = s.p.request_done /\ x.noticed = s.p.notice_received
           /\ x.early = s.p.notice_non_considered /\ x.shown = s.p.impression_verified
           /\ x.waiting = s.p.impression_non_considered /\ x.clicked = s.p.click_done
           /\ x.clicks = s.p.click_non_considered /\ x.actions = s.p.actions_non_considered
           /\ x.names = s.p.post_impression_actions
           /\ x.shownAgain = s.told["impression"]["duplicate"]
           /\ x.clickedAgain = s.told["click"]["duplicate"]
           /\ x.acted = s.told["action"]["normal"] /\ x.posted = s.told["post"]["normal"]
<1>1. x \in Sheets
  BY SheetType
<1> QED  BY <1>1 DEF Sheet

(* A notice before its request, and the request itself.                    *)
LEMMA EarlySheet ==
    ASSUME NEW s, Ready(s),
           NEW r, r = [p |-> [s.p EXCEPT !.notice_non_considered = TRUE],
                       told |-> s.told, operations |-> s.operations]
    PROVE  Sheet(r) = [Sheet(s) EXCEPT !.early = TRUE]
<1>1. s.p \in Profile /\ s.told \in Tolds /\ IsStore(s)
  BY TrackingFlags DEF IsStore
<1> DEFINE q == [s.p EXCEPT !.notice_non_considered = TRUE]
           x == Sheet(s)
           y == [x EXCEPT !.early = TRUE]
<1>2. /\ q \in Profile /\ q.request_done = s.p.request_done /\ q.notice_non_considered
      /\ q.notice_received = s.p.notice_received
      /\ q.impression_verified = s.p.impression_verified /\ q.click_done = s.p.click_done
      /\ q.impression_non_considered = s.p.impression_non_considered
      /\ q.click_non_considered = s.p.click_non_considered
      /\ q.actions_non_considered = s.p.actions_non_considered
      /\ q.post_impression_actions = s.p.post_impression_actions
  BY <1>1 DEF Profile
<1>3. r = [p |-> q, told |-> s.told, operations |-> s.operations]
  OBVIOUS
<1> HIDE DEF q, x
<1>4. IsStore(r) /\ r.p = q /\ r.told = s.told
  BY <1>1, <1>3 DEF IsStore
<1>5. /\ x \in Sheets /\ x.requested = s.p.request_done /\ x.noticed = s.p.notice_received
      /\ x.early = s.p.notice_non_considered /\ x.shown = s.p.impression_verified
      /\ x.waiting = s.p.impression_non_considered /\ x.clicked = s.p.click_done
      /\ x.clicks = s.p.click_non_considered /\ x.actions = s.p.actions_non_considered
      /\ x.names = s.p.post_impression_actions
      /\ x.shownAgain = s.told["impression"]["duplicate"]
      /\ x.clickedAgain = s.told["click"]["duplicate"]
      /\ x.acted = s.told["action"]["normal"] /\ x.posted = s.told["post"]["normal"]
  BY <1>1, OnSheet DEF x
<1>6. /\ y \in Sheets /\ y.requested = x.requested /\ y.noticed = x.noticed /\ y.early
      /\ y.shown = x.shown /\ y.waiting = x.waiting /\ y.clicked = x.clicked
      /\ y.clicks = x.clicks /\ y.actions = x.actions /\ y.names = x.names
      /\ y.shownAgain = x.shownAgain /\ y.clickedAgain = x.clickedAgain
      /\ y.acted = x.acted /\ y.posted = x.posted
  BY <1>5 DEF Sheets
<1> HIDE DEF y
<1>7. Sheet(r) = y
  <2> DEFINE z == Sheet(r)
  <2>4. z \in Sheets
    BY <1>2, <1>4, SheetType
  <2>1. /\ z.requested = q.request_done /\ z.noticed = q.notice_received
        /\ z.early = q.notice_non_considered /\ z.shown = q.impression_verified
        /\ z.waiting = q.impression_non_considered /\ z.clicked = q.click_done
        /\ z.clicks = q.click_non_considered /\ z.actions = q.actions_non_considered
        /\ z.names = q.post_impression_actions
        /\ z.shownAgain = s.told["impression"]["duplicate"]
        /\ z.clickedAgain = s.told["click"]["duplicate"]
        /\ z.acted = s.told["action"]["normal"] /\ z.posted = s.told["post"]["normal"]
    BY <1>4 DEF Sheet
  <2> HIDE DEF z
  <2>2. /\ (z.requested <=> y.requested) /\ (z.noticed <=> y.noticed)
        /\ (z.early <=> y.early) /\ (z.shown <=> y.shown) /\ z.waiting = y.waiting
        /\ (z.clicked <=> y.clicked) /\ z.clicks = y.clicks /\ z.actions = y.actions
        /\ z.names = y.names /\ z.shownAgain = y.shownAgain
        /\ z.clickedAgain = y.clickedAgain /\ z.acted = y.acted /\ z.posted = y.posted
    BY <1>2, <1>5, <1>6, <2>1
  <2>3. z = y
    BY <1>6, <2>2, <2>4, SameSheet
  <2> QED  BY <2>3 DEF z
<1> QED  BY <1>7 DEF x, y

LEMMA DoneSheet ==
    ASSUME NEW s, Ready(s), NEW user \in User,
           NEW r, r = [p |-> [s.p EXCEPT !.request_done = TRUE, !.user_id = user,
                                         !.notice_non_considered = FALSE],
                       told |-> s.told, operations |-> s.operations]
    PROVE  Sheet(r) = [Sheet(s) EXCEPT !.requested = TRUE, !.early = FALSE]
<1>1. s.p \in Profile /\ s.told \in Tolds /\ IsStore(s)
  BY TrackingFlags DEF IsStore
<1> DEFINE q == [s.p EXCEPT !.request_done = TRUE, !.user_id = user,
                            !.notice_non_considered = FALSE]
           x == Sheet(s)
           y == [x EXCEPT !.requested = TRUE, !.early = FALSE]
<1>2. /\ q \in Profile /\ q.request_done /\ ~q.notice_non_considered
      /\ q.notice_received = s.p.notice_received
      /\ q.impression_verified = s.p.impression_verified /\ q.click_done = s.p.click_done
      /\ q.impression_non_considered = s.p.impression_non_considered
      /\ q.click_non_considered = s.p.click_non_considered
      /\ q.actions_non_considered = s.p.actions_non_considered
      /\ q.post_impression_actions = s.p.post_impression_actions
  BY <1>1 DEF Profile
<1>3. r = [p |-> q, told |-> s.told, operations |-> s.operations]
  OBVIOUS
<1> HIDE DEF q, x
<1>4. IsStore(r) /\ r.p = q /\ r.told = s.told
  BY <1>1, <1>3 DEF IsStore
<1>5. /\ x \in Sheets /\ x.requested = s.p.request_done /\ x.noticed = s.p.notice_received
      /\ x.early = s.p.notice_non_considered /\ x.shown = s.p.impression_verified
      /\ x.waiting = s.p.impression_non_considered /\ x.clicked = s.p.click_done
      /\ x.clicks = s.p.click_non_considered /\ x.actions = s.p.actions_non_considered
      /\ x.names = s.p.post_impression_actions
      /\ x.shownAgain = s.told["impression"]["duplicate"]
      /\ x.clickedAgain = s.told["click"]["duplicate"]
      /\ x.acted = s.told["action"]["normal"] /\ x.posted = s.told["post"]["normal"]
  BY <1>1, OnSheet DEF x
<1>6. /\ y \in Sheets /\ y.requested /\ y.noticed = x.noticed /\ ~y.early
      /\ y.shown = x.shown /\ y.waiting = x.waiting /\ y.clicked = x.clicked
      /\ y.clicks = x.clicks /\ y.actions = x.actions /\ y.names = x.names
      /\ y.shownAgain = x.shownAgain /\ y.clickedAgain = x.clickedAgain
      /\ y.acted = x.acted /\ y.posted = x.posted
  BY <1>5 DEF Sheets
<1> HIDE DEF y
<1>7. Sheet(r) = y
  <2> DEFINE z == Sheet(r)
  <2>4. z \in Sheets
    BY <1>2, <1>4, SheetType
  <2>1. /\ z.requested = q.request_done /\ z.noticed = q.notice_received
        /\ z.early = q.notice_non_considered /\ z.shown = q.impression_verified
        /\ z.waiting = q.impression_non_considered /\ z.clicked = q.click_done
        /\ z.clicks = q.click_non_considered /\ z.actions = q.actions_non_considered
        /\ z.names = q.post_impression_actions
        /\ z.shownAgain = s.told["impression"]["duplicate"]
        /\ z.clickedAgain = s.told["click"]["duplicate"]
        /\ z.acted = s.told["action"]["normal"] /\ z.posted = s.told["post"]["normal"]
    BY <1>4 DEF Sheet
  <2> HIDE DEF z
  <2>2. /\ (z.requested <=> y.requested) /\ (z.noticed <=> y.noticed)
        /\ (z.early <=> y.early) /\ (z.shown <=> y.shown) /\ z.waiting = y.waiting
        /\ (z.clicked <=> y.clicked) /\ z.clicks = y.clicks /\ z.actions = y.actions
        /\ z.names = y.names /\ z.shownAgain = y.shownAgain
        /\ z.clickedAgain = y.clickedAgain /\ z.acted = y.acted /\ z.posted = y.posted
    BY <1>2, <1>5, <1>6, <2>1
  <2>3. z = y
    BY <1>6, <2>2, <2>4, SameSheet
  <2> QED  BY <2>3 DEF z
<1> QED  BY <1>7 DEF x, y

LEMMA NoticeSheet ==
    ASSUME NEW s, Ready(s), NEW moveable, NEW r, r = ProcessNotice(s, moveable)
    PROVE  Sheet(r) = NoticeOn(Sheet(s))
<1>1. s.p \in Profile /\ Opened(s.p) = s.p /\ ~Moved(s.p) /\ IsStore(s)
  BY TrackingFlags DEF Opened
<1>2. /\ Sheet(s) \in Sheets /\ Sheet(s).requested = s.p.request_done
      /\ Sheet(s).noticed = s.p.notice_received
  BY <1>1, SheetType DEF Sheet
<1>3. CASE ~s.p.request_done
  <2> DEFINE q == [s.p EXCEPT !.notice_non_considered = TRUE]
  <2>1. r = [s EXCEPT !.p = q]
    BY <1>1, <1>3 DEF ProcessNotice
  <2>2. r = [p |-> q, told |-> s.told, operations |-> s.operations]
    <3> HIDE DEF q
    <3> QED  BY <1>1, <2>1 DEF IsStore
  <2>3. Sheet(r) = [Sheet(s) EXCEPT !.early = TRUE]
    BY <2>2, EarlySheet
  <2> QED  BY <1>2, <1>3, <2>3 DEF NoticeOn
<1>4. CASE s.p.request_done /\ s.p.notice_received
  BY <1>1, <1>2, <1>4 DEF ProcessNotice, NoticeOn
<1>5. CASE s.p.request_done /\ ~s.p.notice_received
  <2>1. r = NoticeReceived(s, moveable)
    BY <1>1, <1>5 DEF ProcessNotice
  <2> QED  BY <1>2, <1>5, <2>1, NoticeReceivedSheet DEF NoticeOn
<1> QED  BY <1>3, <1>4, <1>5

(* The transactions where the profile may not be there or has left.        *)
LEMMA ClickAtSheet ==
    ASSUME NEW s, Sound(s), NEW moveable, ~(Moved(s.p) /\ moveable),
           NEW r, r = ProcessClick(s, moveable)
    PROVE  Sheet(r) = ClickOn(Sheet(Base(s)))
<1>1. r = ProcessClick(Base(s), moveable)
  <2>1. CASE s.p # Nothing /\ s.p.fraud # "moved"
    BY <2>1, BaseReady
  <2>2. CASE s.p = Nothing \/ s.p.fraud = "moved"
    <3> DEFINE x == [Stub EXCEPT !.click_non_considered = @ + 1]
    <3>1. Opened(s.p) = Stub /\ Opened(Stub) = Stub /\ Base(s).p = Stub
      BY <2>2, StubFormed, BaseReady DEF Opened, Moved
    <3>2. ~Moved(Stub) /\ ~Stub.impression_verified
      BY StubFormed DEF Moved
    <3>3. r = [s EXCEPT !.p = x]
      BY <3>1, <3>2 DEF ProcessClick
    <3>4. ProcessClick(Base(s), moveable) = [Base(s) EXCEPT !.p = x]
      BY <3>1, <3>2 DEF ProcessClick
    <3> HIDE DEF x
    <3> QED  BY <3>3, <3>4 DEF Sound, IsStore, Base
  <2> QED  BY <2>1, <2>2
<1> QED  BY <1>1, BaseReady, ClickSheet

LEMMA ActionAtSheet ==
    ASSUME NEW s, Sound(s), NEW moveable, ~(Moved(s.p) /\ moveable),
           NEW r, r = ProcessAction(s, moveable)
    PROVE  Sheet(r) = ActionsOn(Sheet(Base(s)), 1)
<1>1. [s EXCEPT !.p = Opened(@)] = Base(s)
  BY DEF Sound, IsStore, Base
<1>2. r = ProcessActions(Base(s), 1)
  BY <1>1 DEF ProcessAction
<1> QED  BY <1>2, BaseReady, ActionsSheet

LEMMA PostActionAtSheet ==
    ASSUME NEW s, Sound(s), NEW moveable, ~(Moved(s.p) /\ moveable), NEW name \in PostAction,
           NEW r, r = ProcessPostAction(s, name, moveable)
    PROVE  Sheet(r) = NamesOn(Sheet(Base(s)), {name})
<1>1. [s EXCEPT !.p = Opened(@)] = Base(s)
  BY DEF Sound, IsStore, Base
<1>2. r = ProcessPostActions(Base(s), {name})
  BY <1>1 DEF ProcessPostAction
<1>3. {name} \in SUBSET PostAction /\ Ready(Base(s))
  BY BaseReady
<1> QED  BY <1>2, <1>3, NamesSheet

LEMMA NoticeAtSheet ==
    ASSUME NEW s, Sound(s), NEW moveable, ~(Moved(s.p) /\ moveable),
           NEW r, r = ProcessNotice(s, moveable)
    PROVE  Sheet(r) = NoticeOn(Sheet(Base(s)))
<1>1. r = ProcessNotice(Base(s), moveable)
  <2>1. CASE s.p # Nothing /\ s.p.fraud # "moved"
    BY <2>1, BaseReady
  <2>2. CASE s.p = Nothing \/ s.p.fraud = "moved"
    <3> DEFINE x == [Stub EXCEPT !.notice_non_considered = TRUE]
    <3>1. Opened(s.p) = Stub /\ Opened(Stub) = Stub /\ Base(s).p = Stub
      BY <2>2, StubFormed, BaseReady DEF Opened, Moved
    <3>2. ~Moved(Stub) /\ ~Stub.request_done
      BY StubFormed DEF Moved
    <3>3. r = [s EXCEPT !.p = x]
      BY <3>1, <3>2 DEF ProcessNotice
    <3>4. ProcessNotice(Base(s), moveable) = [Base(s) EXCEPT !.p = x]
      BY <3>1, <3>2 DEF ProcessNotice
    <3> HIDE DEF x
    <3> QED  BY <3>3, <3>4 DEF Sound, IsStore, Base
  <2> QED  BY <2>1, <2>2
<1> QED  BY <1>1, BaseReady, NoticeSheet

LEMMA ImpressionAtSheet ==
    ASSUME NEW s, Sound(s), s.p = Nothing \/ s.p.fraud # "moved",
           NEW user \in User \cup {Nothing}, NEW moveable,
           s.p # Nothing => ~Leaves(s, user, moveable),
           NEW r, r = ProcessImpression(s, user, moveable)
    PROVE  Sheet(r) = ImpressionOn(Sheet(Base(s)))
<1>1. CASE s.p # Nothing
  BY <1>1, BaseReady, ImpressionSheet
<1>2. CASE s.p = Nothing
  <2>1. r = WaitImpression(s, user)
    BY <1>2 DEF ProcessImpression
  <2>2. Base(s).p = Stub /\ Ready(Base(s)) /\ Stub # Nothing /\ ~Moved(Stub)
    BY <1>2, BaseReady, TrackingFlags, StubFormed DEF Moved
  <2>3. WaitImpression(s, user) = WaitImpression(Base(s), user)
    <3>1. Stub.impression_non_considered = 0
      BY DEF Stub
    <3> DEFINE x == [(IF Stub.impression_non_considered = 0 THEN Named(Stub, user) ELSE Stub)
                         EXCEPT !.impression_non_considered = @ + 1]
    <3>2. WaitImpression(s, user) = [s EXCEPT !.p = x]
      BY <1>2 DEF WaitImpression
    <3>3. WaitImpression(Base(s), user) = [Base(s) EXCEPT !.p = x]
      BY <2>2 DEF WaitImpression
    <3> HIDE DEF x
    <3> QED  BY <3>2, <3>3 DEF Sound, IsStore, Base
  <2>4. ~Leaves(Base(s), user, moveable)
    BY <2>2, StubFormed DEF Leaves
  <2>5. WaitImpression(Base(s), user) = ProcessImpression(Base(s), user, moveable)
    <3> HIDE DEF Base
    <3> QED  BY <2>2, <2>4, StubFormed DEF ProcessImpression, Leaves
  <2> QED  BY <2>1, <2>2, <2>3, <2>4, <2>5, ImpressionSheet
<1> QED  BY <1>1, <1>2

(* The request, and the notice that waited for it.                         *)
LEMMA RequestDoneSheet ==
    ASSUME NEW s, Sound(s),
           s.p # Nothing => s.p.fraud # "moved" /\ ~s.p.request_done,
           NEW user \in User, NEW moveable, NEW r, r = RequestDone(s, user, moveable)
    PROVE  Sheet(r) = RequestOn(Sheet(Base(s)))
<1> DEFINE p == IF s.p = Nothing THEN Stub ELSE s.p
           q == [p EXCEPT !.request_done = TRUE, !.user_id = user,
                          !.notice_non_considered = FALSE]
           c == [p |-> q, told |-> s.told, operations |-> s.operations]
           d == TellTimes(c, "request", "normal", 1)
           x == Sheet(Base(s))
           y == [x EXCEPT !.requested = TRUE, !.early = FALSE]
<1>1. /\ Ready(Base(s)) /\ Base(s).told = s.told /\ Base(s).operations = s.operations
      /\ Base(s).p = p /\ s.told \in Tolds
  BY BaseReady DEF Sound, IsStore
<1>2. p \in Profile /\ ~p.request_done /\ WellFormed(p) /\ p.fraud # "moved"
  BY <1>1, StubFormed DEF Ready, WellFormed
<1>3. ~p.notice_received /\ ~p.impression_verified /\ ~p.click_done /\ p.fraud = "normal"
  <2> HIDE DEF p
  <2>1. ~p.notice_received /\ ~p.impression_verified /\ ~p.click_done /\ p.fraud # "fraud"
    BY <1>2 DEF WellFormed
  <2> QED  BY <1>2, <2>1 DEF Profile
<1>4. r = IF p.notice_non_considered \/ ~tracking.notice THEN ProcessNotice(d, moveable) ELSE d
  <2>1. [s EXCEPT !.p = q] = c
    BY PutIs
  <2> QED  BY <2>1 DEF RequestDone, Tell
<1> HIDE DEF p
<1>5. /\ q \in Profile /\ q.request_done /\ q.user_id = user /\ ~q.notice_received
      /\ ~q.impression_verified /\ ~q.click_done /\ q.fraud = "normal"
  BY <1>2, <1>3 DEF Profile
<1> HIDE DEF q
<1>7. Sheet(c) = y
  <2>1. c = [p |-> [Base(s).p EXCEPT !.request_done = TRUE, !.user_id = user,
                                     !.notice_non_considered = FALSE],
             told |-> Base(s).told, operations |-> Base(s).operations]
    BY <1>1 DEF q
  <2> HIDE DEF c
  <2> QED  BY <1>1, <2>1, DoneSheet
<1>8. IsStore(c) /\ c.p = q
  BY <1>1 DEF IsStore
<1> HIDE DEF c
<1>9. "request" \in Kind /\ "request" \in Bookable /\ "normal" \in State
  BY DEF Kind, State, Bookable
<1>10. IsStore(d) /\ d.p = q /\ Sheet(d) = y
  BY <1>5, <1>7, <1>8, <1>9, TellTimesResult, TellSheet
<1>11. Ready(d)
  BY <1>5, <1>10 DEF Ready, WellFormed
<1>12. x.early = p.notice_non_considered
  BY <1>1 DEF Sheet
<1> HIDE DEF d, x, y
<1>13. CASE p.notice_non_considered \/ ~tracking.notice
  <2>1. r = ProcessNotice(d, moveable)
    BY <1>4, <1>13
  <2>2. Sheet(r) = NoticeOn(Sheet(d))
    BY <1>11, <2>1, NoticeSheet
  <2> QED  BY <1>10, <1>12, <1>13, <2>2 DEF RequestOn, x, y
<1>14. CASE ~(p.notice_non_considered \/ ~tracking.notice)
  <2>1. r = d
    BY <1>4, <1>14
  <2> QED  BY <1>10, <1>12, <1>14, <2>1 DEF RequestOn, x, y
<1> QED  BY <1>13, <1>14

(* Where a request moves to, it is taken anew on an empty sheet.           *)
Emptied(s) == [p |-> Stub, told |-> s.told, operations |-> s.operations]

RestoredOn(x, waits) ==
    [x EXCEPT !.waiting = IF waits.impressions > 0 \/ waits.clicks > 0
                          THEN Less1(waits.impressions) ELSE @,
              !.clicks = IF waits.clicks > 0 THEN waits.clicks - 1 ELSE @]

ChangeOn(x, waits, names) ==
    LET impression == ImpressionOn(RestoredOn(RequestOn(x), waits))
        notice == IF waits.notice THEN NoticeOn(impression) ELSE impression
        click == IF waits.clicks > 0 THEN ClickOn(notice) ELSE notice
    IN  ActionsOn(NamesOn(click, names), waits.actions)

LEMMA RequestMovedSheet ==
    ASSUME NEW s, Sound(s), NEW moved \in Profile, moved.user_id \in User,
           NEW r, r = RequestMoved(s, moved)
    PROVE  Sheet(r) = RequestOn(Sheet(Emptied(s)))
<1> DEFINE e == [p |-> Nothing, told |-> s.told, operations |-> s.operations]
           m == FALSE
           f == RequestDone(e, moved.user_id, m)
<1>1. s = [p |-> s.p, told |-> s.told, operations |-> s.operations] /\ s.told \in Tolds
  BY DEF Sound, IsStore
<1>2. [s EXCEPT !.p = Nothing] = e
  BY <1>1
<1>3. Sound(e) /\ e.p = Nothing /\ e.told = s.told /\ e.operations = s.operations
  BY <1>1 DEF Sound, IsStore
<1>4. Base(e) = Emptied(s)
  BY <1>3 DEF Base, Emptied, Opened
<1>5. /\ r = IF moved.fraud = "normal" THEN f
             ELSE [f EXCEPT !.told.request.normal = s.told.request.normal,
                            !.told.request.resave = @ + 1]
  <2> DEFINE g == RequestDone([s EXCEPT !.p = Nothing], moved.user_id, FALSE)
  <2>1. r = IF moved.fraud = "normal" THEN g
            ELSE [g EXCEPT !.told.request.normal = s.told.request.normal,
                           !.told.request.resave = @ + 1]
    BY DEF RequestMoved
  <2>2. g = f
    BY <1>2
  <2> HIDE DEF f, g
  <2> QED  BY <2>1, <2>2
<1> HIDE DEF e, m
<1>6. Follows(Base(e), f) /\ Sheet(f) = RequestOn(Sheet(Emptied(s)))
  BY <1>3, <1>4, RequestDoneAt, RequestDoneSheet
<1> HIDE DEF f
<1>7. Ready(f) /\ IsStore(f)
  BY <1>6 DEF Follows, Ready
<1>8. CASE moved.fraud = "normal"
  BY <1>5, <1>6, <1>8
<1>9. CASE moved.fraud # "normal"
  <2> DEFINE t == [f.told EXCEPT !["request"]["normal"] = s.told["request"]["normal"],
                                 !["request"]["resave"] = @ + 1]
  <2>1. r = [f EXCEPT !.told = t]
    BY <1>5, <1>9
  <2>2. f = [p |-> f.p, told |-> f.told, operations |-> f.operations] /\ f.told \in Tolds
    BY <1>7 DEF IsStore
  <2>3. "request" \in Kind /\ "impression" \in Kind /\ "click" \in Kind /\ "action" \in Kind
        /\ "post" \in Kind
    BY DEF Kind
  <2>4. /\ t["impression"] = f.told["impression"] /\ t["click"] = f.told["click"]
        /\ t["action"] = f.told["action"] /\ t["post"] = f.told["post"]
    BY <2>2, <2>3 DEF Tolds
  <2> HIDE DEF t
  <2>5. r.p = f.p /\ r.told = t
    BY <2>1, <2>2
  <2>6. Sheet(r) = Sheet(f)
    BY <2>4, <2>5 DEF Sheet
  <2> QED  BY <1>6, <2>6
<1> QED  BY <1>8, <1>9

LEMMA ChangeSheet ==
    ASSUME NEW s, Sound(s), NEW moved \in Profile, moved.user_id \in User,
           NEW r, r = ChangeRequestUser(s, moved)
    PROVE  Sheet(r) = ChangeOn(Sheet(Emptied(s)), Waits(moved, s.p),
                               moved.post_impression_actions)
<1> DEFINE waits == Waits(moved, s.p)
           names == moved.post_impression_actions
           request == RequestMoved(s, moved)
           i == IF waits.impressions > 0 \/ waits.clicks > 0
                THEN Less1(waits.impressions) ELSE request.p.impression_non_considered
           c == IF waits.clicks > 0 THEN waits.clicks - 1 ELSE request.p.click_non_considered
           q == [request.p EXCEPT !.impression_non_considered = i, !.click_non_considered = c]
           restored == [request EXCEPT !.p.impression_non_considered =
                                           IF waits.impressions > 0 \/ waits.clicks > 0
                                           THEN Less1(waits.impressions) ELSE @,
                                       !.p.click_non_considered =
                                           IF waits.clicks > 0 THEN waits.clicks - 1 ELSE @]
           impression == ProcessImpression(restored, moved.user_id, FALSE)
           notice == IF waits.notice THEN ProcessNotice(impression, FALSE) ELSE impression
           click == IF waits.clicks > 0 THEN ProcessClick(notice, FALSE) ELSE notice
           post == ProcessPostActions(click, moved.post_impression_actions)
<1>1. waits.impressions \in Nat /\ waits.clicks \in Nat /\ waits.actions \in Nat
  BY WaitsAre DEF Sound
<1>2. Ready(request) /\ Sheet(request) = RequestOn(Sheet(Emptied(s)))
  BY RequestMovedResult, RequestMovedSheet
<1>3. r = ProcessActions(post, waits.actions)
  BY DEF ChangeRequestUser
<1> HIDE DEF request
<1>15. request = [p |-> request.p, told |-> request.told, operations |-> request.operations]
       /\ request.p \in Profile /\ request.told \in Tolds
  BY <1>2 DEF Ready, IsStore, WellFormed
<1>16. Sheet(restored) = RestoredOn(Sheet(request), waits)
  <2> HIDE DEF waits
  <2>1. restored = [p |-> q, told |-> request.told, operations |-> request.operations]
    <3>1. restored = [request EXCEPT !.p.impression_non_considered = i,
                                     !.p.click_non_considered = c]
      BY <1>15 DEF Profile
    <3> HIDE DEF i, c, restored
    <3> QED  BY <1>15, <3>1 DEF Profile
  <2>2. /\ Sheet(request).waiting = request.p.impression_non_considered
        /\ Sheet(request).clicks = request.p.click_non_considered
    BY DEF Sheet
  <2>3. RestoredOn(Sheet(request), waits) = [Sheet(request) EXCEPT !.waiting = i, !.clicks = c]
    <3> DEFINE y == Sheet(request)
    <3>1. y \in Sheets
      BY <1>2, <1>15, SheetType DEF Ready
    <3> HIDE DEF y
    <3>2. RestoredOn(y, waits) = [y EXCEPT
             !.waiting = IF waits.impressions > 0 \/ waits.clicks > 0
                         THEN Less1(waits.impressions) ELSE y.waiting,
             !.clicks = IF waits.clicks > 0 THEN waits.clicks - 1 ELSE y.clicks]
      BY <3>1 DEF RestoredOn, Sheets
    <3> QED  BY <2>2, <3>2 DEF y
  <2> HIDE DEF i, c
  <2>4. restored.p = q /\ restored.told = request.told
    <3> HIDE DEF restored, q
    <3> QED  BY <2>1
  <2> HIDE DEF restored
  <2>5. Sheet(restored) = [Sheet(request) EXCEPT !.waiting = i, !.clicks = c]
    <3>1. /\ q.request_done = request.p.request_done
          /\ q.notice_received = request.p.notice_received
          /\ q.notice_non_considered = request.p.notice_non_considered
          /\ q.impression_verified = request.p.impression_verified
          /\ q.impression_non_considered = i /\ q.click_done = request.p.click_done
          /\ q.click_non_considered = c
          /\ q.actions_non_considered = request.p.actions_non_considered
          /\ q.post_impression_actions = request.p.post_impression_actions
      BY <1>15 DEF Profile
    <3>2. i \in Nat /\ c \in Nat
      BY <1>1, <1>15 DEF Less1, Profile, i, c, waits
    <3>3. q \in Profile
      BY <1>15, <3>2 DEF Profile
    <3> HIDE DEF q
    <3>4. IsStore(restored)
      BY <1>15, <2>1, <2>4 DEF IsStore
    <3> DEFINE x == Sheet(request)
               y == [x EXCEPT !.waiting = i, !.clicks = c]
               z == Sheet(restored)
    <3>5. x \in Sheets /\ z \in Sheets
      BY <1>2, <1>15, <2>4, <3>3, <3>4, SheetType DEF Ready
    <3>6. /\ z.requested = x.requested /\ z.noticed = x.noticed /\ z.early = x.early
          /\ z.shown = x.shown /\ z.waiting = i /\ z.clicked = x.clicked
          /\ z.clicks = c /\ z.actions = x.actions /\ z.names = x.names
          /\ z.shownAgain = x.shownAgain /\ z.clickedAgain = x.clickedAgain
          /\ z.acted = x.acted /\ z.posted = x.posted
      BY <2>4, <3>1 DEF Sheet
    <3> HIDE DEF x, z
    <3>7. /\ y \in Sheets
          /\ y.requested = x.requested /\ y.noticed = x.noticed /\ y.early = x.early
          /\ y.shown = x.shown /\ y.waiting = i /\ y.clicked = x.clicked
          /\ y.clicks = c /\ y.actions = x.actions /\ y.names = x.names
          /\ y.shownAgain = x.shownAgain /\ y.clickedAgain = x.clickedAgain
          /\ y.acted = x.acted /\ y.posted = x.posted
      BY <3>2, <3>5 DEF Sheets
    <3> HIDE DEF y
    <3>8. /\ (z.requested <=> y.requested) /\ (z.noticed <=> y.noticed)
          /\ (z.early <=> y.early) /\ (z.shown <=> y.shown) /\ z.waiting = y.waiting
          /\ (z.clicked <=> y.clicked) /\ z.clicks = y.clicks /\ z.actions = y.actions
          /\ z.names = y.names /\ z.shownAgain = y.shownAgain
          /\ z.clickedAgain = y.clickedAgain /\ z.acted = y.acted /\ z.posted = y.posted
      BY <3>6, <3>7
    <3>9. z = y
      BY <3>5, <3>7, <3>8, SameSheet
    <3> QED  BY <3>9 DEF x, y, z
  <2> QED  BY <2>3, <2>5
<1> HIDE DEF waits
<1>13. restored = [request EXCEPT !.p = q]
  <2>2. restored = [request EXCEPT !.p.impression_non_considered = i,
                                   !.p.click_non_considered = c]
    BY <1>15 DEF Profile
  <2> HIDE DEF i, c, restored
  <2> QED  BY <1>15, <2>2 DEF Profile
<1>4. SameFlags(request.p, q)
  <2>2. i \in Nat /\ c \in Nat
    BY <1>1, <1>15 DEF Less1, Profile
  <2> HIDE DEF i, c
  <2> QED  BY <1>15, <2>2 DEF SameFlags, Profile
<1> HIDE DEF q
<1>5. Ready(restored)
  <2> HIDE DEF restored
  <2> QED  BY <1>2, <1>4, <1>13, PutFollows DEF Follows
<1> HIDE DEF restored
<1> DEFINE m == FALSE
<1>6. Ready(impression) /\ Sheet(impression) = ImpressionOn(Sheet(restored))
  <2>1. /\ ~Leaves(restored, moved.user_id, m)
        /\ impression = ProcessImpression(restored, moved.user_id, m)
    BY DEF Leaves
  <2>2. moved.user_id \in User \cup {Nothing}
    OBVIOUS
  <2> HIDE DEF m, impression
  <2> QED  BY <1>5, <2>1, <2>2, ImpressionFollows, ImpressionSheet DEF Follows
<1> HIDE DEF impression
<1>7. /\ Ready(notice)
      /\ Sheet(notice) = IF waits.notice THEN NoticeOn(Sheet(impression)) ELSE Sheet(impression)
  <2>1. CASE waits.notice
    <3>1. notice = ProcessNotice(impression, m)
      BY <2>1
    <3> HIDE DEF m, notice
    <3>2. Follows(impression, notice) /\ Sheet(notice) = NoticeOn(Sheet(impression))
      BY <1>6, <3>1, NoticeFollows, NoticeSheet
    <3> QED  BY <2>1, <3>2 DEF Follows
  <2>2. CASE ~waits.notice
    BY <1>6, <2>2
  <2> QED  BY <2>1, <2>2
<1> HIDE DEF notice
<1>8. /\ Ready(click)
      /\ Sheet(click) = IF waits.clicks > 0 THEN ClickOn(Sheet(notice)) ELSE Sheet(notice)
  <2>1. CASE waits.clicks > 0
    <3>1. click = ProcessClick(notice, m)
      BY <2>1
    <3> HIDE DEF m, click
    <3>2. Follows(notice, click) /\ Sheet(click) = ClickOn(Sheet(notice))
      BY <1>7, <3>1, ClickFollows, ClickSheet
    <3> QED  BY <2>1, <3>2 DEF Follows
  <2>2. CASE ~(waits.clicks > 0)
    BY <1>7, <2>2
  <2> QED  BY <2>1, <2>2
<1> HIDE DEF click
<1>9. Ready(post) /\ Sheet(post) = NamesOn(Sheet(click), names)
  <2>1. names \in SUBSET PostAction
    BY DEF Profile
  <2> QED  BY <1>8, <2>1, PostActionsFollow, NamesSheet DEF Follows
<1> HIDE DEF post
<1>10. Sheet(r) = ActionsOn(Sheet(post), waits.actions)
  BY <1>1, <1>3, <1>9, ActionsSheet
<1> QED  BY <1>2, <1>6, <1>7, <1>8, <1>9, <1>10, <1>16 DEF ChangeOn, waits

(* What is the same on two sheets.                                         *)
SameRequest(x, y) ==
    (y.requested <=> x.requested) /\ (y.noticed <=> x.noticed) /\ (y.early <=> x.early)
SameShown(x, y) ==
    (y.shown <=> x.shown) /\ y.waiting = x.waiting /\ y.shownAgain = x.shownAgain
SameClick(x, y) ==
    (y.clicked <=> x.clicked) /\ y.clicks = x.clicks /\ y.clickedAgain = x.clickedAgain
SameActs(x, y) == y.actions = x.actions /\ y.acted = x.acted
SamePosts(x, y) == y.names = x.names /\ y.posted = x.posted

TellsActions(n) == IF tracking.action THEN n ELSE 0

LEMMA ActionsOnIs ==
    ASSUME NEW x \in Sheets, NEW n \in Nat, NEW r, r = ActionsOn(x, n)
    PROVE  /\ r \in Sheets /\ SameRequest(x, r) /\ SameShown(x, r) /\ SameClick(x, r)
           /\ SamePosts(x, r)
           /\ ~x.clicked => r.actions = x.actions + n /\ r.acted = x.acted
           /\ x.clicked => r.actions = x.actions /\ r.acted = x.acted + TellsActions(n)
<1>1. CASE ~x.clicked
  <2>1. r = [x EXCEPT !.actions = @ + n]
    BY <1>1 DEF ActionsOn
  <2> QED  BY <1>1, <2>1 DEF Sheets, SameRequest, SameShown, SameClick, SamePosts
<1>2. CASE x.clicked /\ tracking.action
  <2>1. r = [x EXCEPT !.acted = @ + n]
    BY <1>2 DEF ActionsOn
  <2> QED  BY <1>2, <2>1
           DEF Sheets, SameRequest, SameShown, SameClick, SamePosts, TellsActions
<1>3. CASE x.clicked /\ ~tracking.action
  <2>1. r = x
    BY <1>3 DEF ActionsOn
  <2> QED  BY <1>3, <2>1
           DEF Sheets, SameRequest, SameShown, SameClick, SamePosts, TellsActions
<1> QED  BY <1>1, <1>2, <1>3

LEMMA NamesFinite ==
    ASSUME NEW names \in SUBSET PostAction
    PROVE  IsFiniteSet(names) /\ Cardinality(names) \in Nat
<1>1. IsFiniteSet(names)
  BY ProfileAssumption, FS_Subset
<1> QED  BY <1>1, FS_CardinalityType

LEMMA NamesOnIs ==
    ASSUME NEW x \in Sheets, NEW names \in SUBSET PostAction, NEW r, r = NamesOn(x, names)
    PROVE  /\ r \in Sheets /\ SameRequest(x, r) /\ SameShown(x, r) /\ SameClick(x, r)
           /\ SameActs(x, r) /\ r.names = x.names \cup names
           /\ x.shown => r.posted = x.posted + Cardinality(names \ x.names)
           /\ ~x.shown => r.posted = x.posted
<1> DEFINE k == IF x.shown THEN x.posted + Cardinality(names \ x.names) ELSE x.posted
<1>1. k \in Nat
  <2>1. Cardinality(names \ x.names) \in Nat
    BY NamesFinite
  <2> QED  BY <2>1 DEF Sheets
<1>2. r = [x EXCEPT !.names = @ \cup names, !.posted = k]
  BY DEF NamesOn, Sheets
<1> HIDE DEF k
<1>3. /\ r \in Sheets /\ SameRequest(x, r) /\ SameShown(x, r) /\ SameClick(x, r)
      /\ SameActs(x, r) /\ r.names = x.names \cup names /\ r.posted = k
  BY <1>1, <1>2 DEF Sheets, SameRequest, SameShown, SameClick, SameActs
<1> QED  BY <1>3 DEF k

LEMMA NamesShownIs ==
    ASSUME NEW y \in Sheets, y.shown, y.names = {}, NEW n \in SUBSET PostAction,
           NEW r, r = NamesOn(y, n)
    PROVE  /\ r \in Sheets /\ SameRequest(y, r) /\ SameShown(y, r) /\ SameClick(y, r)
           /\ SameActs(y, r) /\ r.names = n /\ r.posted = y.posted + Cardinality(n)
<1>1. /\ r \in Sheets /\ SameRequest(y, r) /\ SameShown(y, r) /\ SameClick(y, r)
      /\ SameActs(y, r) /\ r.names = y.names \cup n
      /\ r.posted = y.posted + Cardinality(n \ y.names)
  BY NamesOnIs
<1>2. n \ y.names = n /\ y.names \cup n = n
  OBVIOUS
<1> QED  BY <1>1, <1>2

LEMMA FirstClickOnIs ==
    ASSUME NEW x \in Sheets, ~x.clicked, NEW r, r = FirstClickOn(x)
    PROVE  /\ r \in Sheets /\ SameRequest(x, r) /\ SameShown(x, r) /\ SamePosts(x, r)
           /\ r.clicked /\ r.clicks = 0 /\ r.clickedAgain = x.clickedAgain + x.clicks
           /\ r.actions = 0 /\ r.acted = x.acted + TellsActions(x.actions)
<1> DEFINE y == [x EXCEPT !.clicked = TRUE, !.clicks = 0, !.actions = 0,
                          !.clickedAgain = @ + x.clicks]
<1>1. r = ActionsOn(y, x.actions) /\ x.actions \in Nat
  BY DEF FirstClickOn, Sheets
<1>2. /\ y \in Sheets /\ SameRequest(x, y) /\ SameShown(x, y) /\ SamePosts(x, y)
      /\ y.clicked /\ y.clicks = 0 /\ y.clickedAgain = x.clickedAgain + x.clicks
      /\ y.actions = 0 /\ y.acted = x.acted
  <2>1. y \in Sheets
    <3> DEFINE k == x.clickedAgain + x.clicks
    <3>1. k \in Nat
      BY DEF Sheets
    <3>2. y = [x EXCEPT !.clicked = TRUE, !.clicks = 0, !.actions = 0, !.clickedAgain = k]
      OBVIOUS
    <3> HIDE DEF y, k
    <3> QED  BY <3>1, <3>2 DEF Sheets
  <2>2. SameRequest(x, y) /\ SameShown(x, y) /\ SamePosts(x, y)
    BY DEF Sheets, SameRequest, SameShown, SamePosts
  <2>3. y.clicked /\ y.clicks = 0 /\ y.clickedAgain = x.clickedAgain + x.clicks
        /\ y.actions = 0 /\ y.acted = x.acted
    BY DEF Sheets
  <2> QED  BY <2>1, <2>2, <2>3
<1> HIDE DEF y
<1>3. /\ r \in Sheets /\ SameRequest(y, r) /\ SameShown(y, r) /\ SameClick(y, r)
      /\ SamePosts(y, r) /\ r.actions = y.actions /\ r.acted = y.acted + TellsActions(x.actions)
  BY <1>1, <1>2, ActionsOnIs
<1> QED  BY <1>2, <1>3 DEF SameRequest, SameShown, SamePosts, SameClick

LEMMA ClickOnIs ==
    ASSUME NEW x \in Sheets, NEW r, r = ClickOn(x)
    PROVE  /\ r \in Sheets /\ SameRequest(x, r) /\ SameShown(x, r) /\ SamePosts(x, r)
           /\ ~x.shown => /\ (r.clicked <=> x.clicked) /\ r.clicks = x.clicks + 1
                          /\ r.clickedAgain = x.clickedAgain /\ SameActs(x, r)
           /\ x.shown /\ x.clicked => /\ r.clicked /\ r.clicks = x.clicks
                                      /\ r.clickedAgain = x.clickedAgain + 1 /\ SameActs(x, r)
           /\ x.shown /\ ~x.clicked =>
                /\ r.clicked /\ r.clicks = 0 /\ r.clickedAgain = x.clickedAgain + x.clicks
                /\ r.actions = 0 /\ r.acted = x.acted + TellsActions(x.actions)
<1>1. CASE ~x.shown
  <2>1. r = [x EXCEPT !.clicks = @ + 1]
    BY <1>1 DEF ClickOn
  <2> QED  BY <1>1, <2>1 DEF Sheets, SameRequest, SameShown, SamePosts, SameActs
<1>2. CASE x.shown /\ x.clicked
  <2>1. r = [x EXCEPT !.clickedAgain = @ + 1]
    BY <1>2 DEF ClickOn
  <2> QED  BY <1>2, <2>1 DEF Sheets, SameRequest, SameShown, SamePosts, SameActs
<1>3. CASE x.shown /\ ~x.clicked
  <2>1. r = FirstClickOn(x)
    BY <1>3 DEF ClickOn
  <2> QED  BY <1>3, <2>1, FirstClickOnIs
<1> QED  BY <1>1, <1>2, <1>3

LEMMA VerifyOnIs ==
    ASSUME NEW x \in Sheets, ~x.shown, ~x.clicked, NEW r, r = VerifyOn(x)
    PROVE  /\ r \in Sheets /\ SameRequest(x, r)
           /\ r.shown /\ r.waiting = 0 /\ r.shownAgain = x.shownAgain + x.waiting
           /\ r.clicks = 0
           /\ x.clicks = 0 => /\ ~r.clicked /\ r.clickedAgain = x.clickedAgain
                              /\ SameActs(x, r)
           /\ x.clicks > 0 =>
                /\ r.clicked /\ r.clickedAgain = x.clickedAgain + (x.clicks - 1)
                /\ r.actions = 0 /\ r.acted = x.acted + TellsActions(x.actions)
           /\ r.names = x.names /\ r.posted = x.posted + Cardinality(x.names)
<1> DEFINE y == ShownOn(x)
           z == IF x.clicks > 0 THEN ClickOn(y) ELSE y
<1>1. r = NamesOn(z, x.names) /\ x.names \in SUBSET PostAction /\ x.clicks \in Nat
  BY DEF VerifyOn, Sheets
<1>2. /\ y \in Sheets /\ SameRequest(x, y) /\ y.shown /\ y.waiting = 0
      /\ y.shownAgain = x.shownAgain + x.waiting /\ ~y.clicked /\ y.clicks = Less1(x.clicks)
      /\ y.clickedAgain = x.clickedAgain /\ SameActs(x, y)
      /\ y.names = {} /\ y.posted = x.posted
  <2> DEFINE l == Less1(x.clicks)
  <2>1. y = [x EXCEPT !.shown = TRUE, !.waiting = 0, !.clicks = l, !.names = {},
                      !.shownAgain = @ + x.waiting]
    BY DEF ShownOn, Sheets
  <2>2. l \in Nat
    BY DEF Less1, Sheets
  <2> HIDE DEF y, l
  <2>3. y \in Sheets
    <3> DEFINE k == x.shownAgain + x.waiting
    <3>1. k \in Nat
      BY DEF Sheets
    <3>2. y = [x EXCEPT !.shown = TRUE, !.waiting = 0, !.clicks = l, !.names = {},
                        !.shownAgain = k]
      BY <2>1
    <3> HIDE DEF k
    <3> QED  BY <2>2, <3>1, <3>2 DEF Sheets
  <2>4. SameRequest(x, y) /\ SameActs(x, y)
    BY <2>1 DEF Sheets, SameRequest, SameActs
  <2>5. /\ y.shown /\ y.waiting = 0
        /\ y.shownAgain = x.shownAgain + x.waiting /\ ~y.clicked /\ y.clicks = l
        /\ y.clickedAgain = x.clickedAgain
        /\ y.names = {} /\ y.posted = x.posted
    BY <2>1 DEF Sheets
  <2> QED  BY <2>3, <2>4, <2>5 DEF l
<1> HIDE DEF y
<1>3. CASE x.clicks = 0
  <2>1. z = y /\ y.clicks = 0
    BY <1>2, <1>3 DEF Less1
  <2> HIDE DEF z
  <2>2. /\ r \in Sheets /\ SameRequest(y, r) /\ SameShown(y, r) /\ SameClick(y, r)
        /\ SameActs(y, r) /\ r.names = x.names /\ r.posted = y.posted + Cardinality(x.names)
    BY <1>1, <1>2, <2>1, NamesShownIs
  <2> QED  BY <1>2, <1>3, <2>1, <2>2
           DEF SameRequest, SameShown, SameClick, SameActs
<1>4. CASE x.clicks > 0
  <2>1. z = ClickOn(y) /\ y.clicks = x.clicks - 1
    BY <1>2, <1>4 DEF Less1
  <2> HIDE DEF z
  <2>2. /\ z \in Sheets /\ SameRequest(y, z) /\ SameShown(y, z) /\ SamePosts(y, z)
        /\ z.clicked /\ z.clicks = 0 /\ z.clickedAgain = y.clickedAgain + y.clicks
        /\ z.actions = 0 /\ z.acted = y.acted + TellsActions(y.actions)
    BY <1>2, <2>1, ClickOnIs
  <2>3. z.shown /\ z.names = {} /\ z.posted = x.posted
    BY <1>2, <2>2 DEF SameShown, SamePosts
  <2>4. /\ r \in Sheets /\ SameRequest(z, r) /\ SameShown(z, r) /\ SameClick(z, r)
        /\ SameActs(z, r) /\ r.names = x.names /\ r.posted = z.posted + Cardinality(x.names)
    BY <1>1, <2>2, <2>3, NamesShownIs
  <2> QED  BY <1>2, <1>4, <2>1, <2>2, <2>3, <2>4
           DEF SameRequest, SameShown, SameClick, SameActs
<1> QED  BY <1>1, <1>3, <1>4

(* Where the records of a request meet, its sheet is in order: a click is  *)
(* told only of a request shown, that is shown only once noticed, noticed  *)
(* only once requested, and nothing waits that need not.                   *)
InOrder(x) ==
    /\ x \in Sheets
    /\ x.clicked => x.shown
    /\ x.shown => x.noticed /\ x.waiting = 0 /\ x.clicks = 0
    /\ x.clickedAgain > 0 => x.clicked
    /\ x.noticed => x.requested
    /\ x.noticed /\ ~x.shown => x.waiting = 0 /\ tracking.impression
    /\ x.requested => ~x.early /\ (tracking.notice \/ x.noticed)

(* What has come according to a sheet.                                     *)
HasNotice(x) == x.noticed \/ x.early
HasImpression(x) == x.shown \/ x.waiting > 0
AllClicks(x) == (IF x.clicked THEN 1 ELSE 0) + x.clicks + x.clickedAgain

SameCome(x, r) ==
    /\ HasNotice(r) <=> HasNotice(x)
    /\ HasImpression(r) <=> HasImpression(x)
    /\ AllClicks(r) = AllClicks(x)

(* A sheet that accounts for every one of the impressions, actions and     *)
(* names of post impression actions.                                       *)
Accounts(x, impressions, actions, names) ==
    /\ x.shown => \/ impressions > 0 /\ x.shownAgain = impressions - 1
                  \/ ~tracking.impression /\ x.shownAgain = impressions
    /\ ~x.shown => x.waiting = impressions /\ x.shownAgain = 0
    /\ x.clicked => x.acted = TellsActions(actions)
    /\ ~x.clicked => x.actions = actions /\ x.acted = 0
    /\ x.names = names
    /\ x.shown => x.posted = Cardinality(names)
    /\ ~x.shown => x.posted = 0

LEMMA ActionsInOrder ==
    ASSUME NEW x, InOrder(x), NEW n \in Nat, NEW r, r = ActionsOn(x, n)
    PROVE  /\ InOrder(r) /\ SameCome(x, r) /\ SameRequest(x, r)
           /\ \A impressions \in Nat, actions \in Nat : \A names :
                 Accounts(x, impressions, actions, names) =>
                    Accounts(r, impressions, actions + n, names)
<1>1. x \in Sheets
  BY DEF InOrder
<1>2. /\ r \in Sheets /\ SameRequest(x, r) /\ SameShown(x, r) /\ SameClick(x, r)
      /\ SamePosts(x, r)
      /\ ~x.clicked => r.actions = x.actions + n /\ r.acted = x.acted
      /\ x.clicked => r.actions = x.actions /\ r.acted = x.acted + TellsActions(n)
  BY <1>1, ActionsOnIs
<1>3. InOrder(r)
  BY <1>2 DEF InOrder, SameRequest, SameShown, SameClick
<1>4. SameCome(x, r)
  BY <1>2 DEF SameCome, HasNotice, HasImpression, AllClicks, SameRequest, SameShown, SameClick
<1>5. ASSUME NEW impressions \in Nat, NEW actions \in Nat, NEW names,
             Accounts(x, impressions, actions, names)
      PROVE  Accounts(r, impressions, actions + n, names)
  <2>1. TellsActions(actions) + TellsActions(n) = TellsActions(actions + n)
    BY DEF TellsActions
  <2>2. r.clicked => r.acted = TellsActions(actions + n)
    BY <1>2, <1>5, <2>1 DEF Accounts, SameClick
  <2>3. ~r.clicked => r.actions = actions + n /\ r.acted = 0
    BY <1>2, <1>5 DEF Accounts, SameClick
  <2> QED  BY <1>2, <1>5, <2>2, <2>3 DEF Accounts, SameShown, SamePosts
<1> QED  BY <1>2, <1>3, <1>4, <1>5

LEMMA NamesInOrder ==
    ASSUME NEW x, InOrder(x), NEW new \in SUBSET PostAction, NEW r, r = NamesOn(x, new)
    PROVE  /\ InOrder(r) /\ SameCome(x, r) /\ SameRequest(x, r)
           /\ \A impressions \in Nat, actions \in Nat, names \in SUBSET PostAction :
                 Accounts(x, impressions, actions, names) =>
                    Accounts(r, impressions, actions, names \cup new)
<1>1. x \in Sheets
  BY DEF InOrder
<1>2. /\ r \in Sheets /\ SameRequest(x, r) /\ SameShown(x, r) /\ SameClick(x, r)
      /\ SameActs(x, r) /\ r.names = x.names \cup new
      /\ x.shown => r.posted = x.posted + Cardinality(new \ x.names)
      /\ ~x.shown => r.posted = x.posted
  BY <1>1, NamesOnIs
<1>3. InOrder(r)
  BY <1>2 DEF InOrder, SameRequest, SameShown, SameClick
<1>4. SameCome(x, r)
  BY <1>2 DEF SameCome, HasNotice, HasImpression, AllClicks, SameRequest, SameShown, SameClick
<1>5. ASSUME NEW impressions \in Nat, NEW actions \in Nat, NEW names \in SUBSET PostAction,
             Accounts(x, impressions, actions, names)
      PROVE  Accounts(r, impressions, actions, names \cup new)
  <2>1. x.names = names
    BY <1>5 DEF Accounts
  <2>2. Cardinality(names \cup new) = Cardinality(names) + Cardinality(new \ names)
    <3> DEFINE more == new \ names
    <3>1. IsFiniteSet(names) /\ IsFiniteSet(more)
      BY NamesFinite
    <3>2. Cardinality(names \cup more)
             = Cardinality(names) + Cardinality(more) - Cardinality(names \cap more)
      BY <3>1, FS_Union
    <3>3. names \cup more = names \cup new /\ names \cap more = {}
      OBVIOUS
    <3>4. Cardinality(names) \in Nat /\ Cardinality(more) \in Nat
      BY NamesFinite
    <3> HIDE DEF more
    <3>5. Cardinality(names \cap more) = 0
      BY <3>3, FS_EmptySet
    <3>6. Cardinality(names \cup new) = Cardinality(names \cup more)
      BY <3>3
    <3> QED  BY <3>2, <3>4, <3>5, <3>6 DEF more
  <2>3. r.shown => r.posted = Cardinality(names \cup new)
    BY <1>2, <1>5, <2>1, <2>2 DEF Accounts, SameShown
  <2>4. ~r.shown => r.posted = 0
    BY <1>2, <1>5 DEF Accounts, SameShown
  <2>5. r.names = names \cup new
    BY <1>2, <2>1
  <2> QED  BY <1>2, <1>5, <2>3, <2>4, <2>5 DEF Accounts, SameShown, SameClick, SameActs
<1> QED  BY <1>2, <1>3, <1>4, <1>5

LEMMA ClickInOrder ==
    ASSUME NEW x, InOrder(x), NEW r, r = ClickOn(x)
    PROVE  /\ InOrder(r) /\ SameRequest(x, r)
           /\ (HasNotice(r) <=> HasNotice(x)) /\ (HasImpression(r) <=> HasImpression(x))
           /\ AllClicks(r) = AllClicks(x) + 1
           /\ \A impressions \in Nat, actions \in Nat : \A names :
                 Accounts(x, impressions, actions, names) =>
                    Accounts(r, impressions, actions, names)
<1>1. x \in Sheets
  BY DEF InOrder
<1>2. /\ r \in Sheets /\ SameRequest(x, r) /\ SameShown(x, r) /\ SamePosts(x, r)
      /\ ~x.shown => /\ (r.clicked <=> x.clicked) /\ r.clicks = x.clicks + 1
                     /\ r.clickedAgain = x.clickedAgain /\ SameActs(x, r)
      /\ x.shown /\ x.clicked => /\ r.clicked /\ r.clicks = x.clicks
                                 /\ r.clickedAgain = x.clickedAgain + 1 /\ SameActs(x, r)
      /\ x.shown /\ ~x.clicked =>
           /\ r.clicked /\ r.clicks = 0 /\ r.clickedAgain = x.clickedAgain + x.clicks
           /\ r.actions = 0 /\ r.acted = x.acted + TellsActions(x.actions)
  BY <1>1, ClickOnIs
<1>3. x.clicks \in Nat /\ x.clickedAgain \in Nat /\ x.actions \in Nat
  BY <1>1 DEF Sheets
<1>4. InOrder(r)
  <2>1. CASE ~x.shown
    BY <1>2, <1>3, <2>1 DEF InOrder, SameRequest, SameShown
  <2>2. CASE x.shown
    BY <1>2, <1>3, <2>2 DEF InOrder, SameRequest, SameShown
  <2> QED  BY <2>1, <2>2
<1>5. (HasNotice(r) <=> HasNotice(x)) /\ (HasImpression(r) <=> HasImpression(x))
  BY <1>2 DEF HasNotice, HasImpression, SameRequest, SameShown
<1>6. AllClicks(r) = AllClicks(x) + 1
  <2>1. CASE ~x.shown
    BY <1>2, <1>3, <2>1 DEF AllClicks, InOrder
  <2>2. CASE x.shown /\ x.clicked
    BY <1>2, <1>3, <2>2 DEF AllClicks, InOrder
  <2>3. CASE x.shown /\ ~x.clicked
    BY <1>2, <1>3, <2>3 DEF AllClicks, InOrder
  <2> QED  BY <2>1, <2>2, <2>3
<1>7. ASSUME NEW impressions \in Nat, NEW actions \in Nat, NEW names,
             Accounts(x, impressions, actions, names)
      PROVE  Accounts(r, impressions, actions, names)
  <2>1. TellsActions(actions) \in Nat
    BY DEF TellsActions
  <2>2. r.clicked => r.acted = TellsActions(actions)
    BY <1>2, <1>7, <2>1 DEF Accounts, SameActs, InOrder
  <2>3. ~r.clicked => r.actions = actions /\ r.acted = 0
    BY <1>2, <1>7 DEF Accounts, SameActs
  <2> QED  BY <1>2, <1>7, <2>2, <2>3 DEF Accounts, SameShown, SamePosts
<1> QED  BY <1>2, <1>4, <1>5, <1>6, <1>7

(* A sheet of which the impression is next.                                *)
Due(x) ==
    /\ x \in Sheets /\ ~x.shown /\ ~x.clicked /\ x.clickedAgain = 0
    /\ x.noticed /\ x.requested /\ ~x.early

LEMMA VerifyInOrder ==
    ASSUME NEW x, Due(x), NEW r, r = VerifyOn(x)
    PROVE  /\ InOrder(r) /\ SameRequest(x, r)
           /\ HasNotice(r) /\ HasImpression(r) /\ AllClicks(r) = AllClicks(x)
           /\ \A impressions \in Nat, actions \in Nat : \A names :
                 /\ \/ impressions > 0 /\ x.waiting = impressions - 1
                    \/ ~tracking.impression /\ x.waiting = impressions
                 /\ x.shownAgain = 0 /\ x.actions = actions /\ x.acted = 0
                 /\ x.names = names /\ x.posted = 0
                 => Accounts(r, impressions, actions, names)
<1>1. x \in Sheets /\ ~x.shown /\ ~x.clicked
  BY DEF Due
<1>2. /\ r \in Sheets /\ SameRequest(x, r)
      /\ r.shown /\ r.waiting = 0 /\ r.shownAgain = x.shownAgain + x.waiting
      /\ r.clicks = 0
      /\ x.clicks = 0 => /\ ~r.clicked /\ r.clickedAgain = x.clickedAgain
                         /\ SameActs(x, r)
      /\ x.clicks > 0 =>
           /\ r.clicked /\ r.clickedAgain = x.clickedAgain + (x.clicks - 1)
           /\ r.actions = 0 /\ r.acted = x.acted + TellsActions(x.actions)
      /\ r.names = x.names /\ r.posted = x.posted + Cardinality(x.names)
  BY <1>1, VerifyOnIs
<1>3. x.clicks \in Nat /\ x.waiting \in Nat /\ x.actions \in Nat /\ x.names \in SUBSET PostAction
  BY <1>1 DEF Sheets
<1>4. x.clicks = 0 \/ x.clicks > 0
  BY <1>3
<1>5. InOrder(r)
  <2>1. CASE x.clicks = 0
    BY <1>2, <2>1 DEF InOrder, SameRequest, Due
  <2>2. CASE x.clicks > 0
    BY <1>2, <2>2 DEF InOrder, SameRequest, Due
  <2> QED  BY <1>4, <2>1, <2>2
<1>6. AllClicks(r) = AllClicks(x)
  <2>1. CASE x.clicks = 0
    BY <1>2, <2>1 DEF AllClicks, Due
  <2>2. CASE x.clicks > 0
    BY <1>2, <1>3, <2>2 DEF AllClicks, Due
  <2> QED  BY <1>4, <2>1, <2>2
<1>7. HasNotice(r) /\ HasImpression(r)
  BY <1>2 DEF HasNotice, HasImpression, SameRequest, Due
<1>8. ASSUME NEW impressions \in Nat, NEW actions \in Nat, NEW names,
             \/ impressions > 0 /\ x.waiting = impressions - 1
             \/ ~tracking.impression /\ x.waiting = impressions,
             x.shownAgain = 0, x.actions = actions, x.acted = 0, x.names = names, x.posted = 0
      PROVE  Accounts(r, impressions, actions, names)
  <2>1. Cardinality(names) \in Nat
    BY <1>3, <1>8, NamesFinite
  <2>2. r.posted = Cardinality(names) /\ r.names = names
    BY <1>2, <1>8, <2>1
  <2>3. TellsActions(actions) \in Nat
    BY DEF TellsActions
  <2>4. r.clicked => r.acted = TellsActions(actions)
    BY <1>2, <1>4, <1>8, <2>3
  <2>5. ~r.clicked => r.actions = actions /\ r.acted = 0
    BY <1>2, <1>4, <1>8 DEF SameActs
  <2>6. r.shownAgain = x.waiting
    BY <1>2, <1>3, <1>8
  <2> QED  BY <1>2, <1>8, <2>2, <2>4, <2>5, <2>6 DEF Accounts
<1> QED  BY <1>2, <1>5, <1>6, <1>7, <1>8

LEMMA ImpressionInOrder ==
    ASSUME NEW x, InOrder(x), NEW r, r = ImpressionOn(x)
    PROVE  /\ InOrder(r) /\ SameRequest(x, r)
           /\ (HasNotice(r) <=> HasNotice(x)) /\ HasImpression(r)
           /\ AllClicks(r) = AllClicks(x)
           /\ \A impressions \in Nat, actions \in Nat : \A names :
                 Accounts(x, impressions, actions, names) =>
                    Accounts(r, impressions + 1, actions, names)
<1>1. x \in Sheets
  BY DEF InOrder
<1>2. /\ x.waiting \in Nat /\ x.shownAgain \in Nat /\ x.clicks \in Nat /\ x.clickedAgain \in Nat
  BY <1>1 DEF Sheets
<1>3. CASE x.shown
  <2>1. r = [x EXCEPT !.shownAgain = @ + 1]
    BY <1>3 DEF ImpressionOn
  <2>2. /\ r \in Sheets /\ SameRequest(x, r) /\ SameClick(x, r) /\ SameActs(x, r)
        /\ SamePosts(x, r) /\ (r.shown <=> x.shown) /\ r.waiting = x.waiting
        /\ r.shownAgain = x.shownAgain + 1
    BY <1>1, <2>1 DEF Sheets, SameRequest, SameClick, SameActs, SamePosts
  <2>3. InOrder(r)
    BY <2>2 DEF InOrder, SameRequest, SameClick
  <2>4. (HasNotice(r) <=> HasNotice(x)) /\ HasImpression(r) /\ AllClicks(r) = AllClicks(x)
    BY <1>3, <2>2 DEF HasNotice, HasImpression, AllClicks, SameRequest, SameClick
  <2>5. ASSUME NEW impressions \in Nat, NEW actions \in Nat, NEW names,
               Accounts(x, impressions, actions, names)
        PROVE  Accounts(r, impressions + 1, actions, names)
    BY <1>2, <1>3, <2>2, <2>5 DEF Accounts, SameClick, SameActs, SamePosts
  <2> QED  BY <2>2, <2>3, <2>4, <2>5
<1>4. CASE ~x.shown /\ x.noticed
  <2>1. r = VerifyOn(x)
    BY <1>4 DEF ImpressionOn
  <2>2. Due(x) /\ x.waiting = 0 /\ tracking.impression
    BY <1>1, <1>2, <1>4 DEF Due, InOrder
  <2>3. /\ InOrder(r) /\ SameRequest(x, r)
        /\ HasNotice(r) /\ HasImpression(r) /\ AllClicks(r) = AllClicks(x)
    BY <2>1, <2>2, VerifyInOrder
  <2>4. HasNotice(x)
    BY <1>4 DEF HasNotice
  <2>5. ASSUME NEW impressions \in Nat, NEW actions \in Nat, NEW names,
               Accounts(x, impressions, actions, names)
        PROVE  Accounts(r, impressions + 1, actions, names)
    <3> DEFINE i == impressions + 1
    <3>1. /\ i \in Nat /\ i > 0 /\ x.waiting = i - 1
          /\ x.shownAgain = 0 /\ x.actions = actions /\ x.acted = 0
          /\ x.names = names /\ x.posted = 0
      BY <1>4, <2>2, <2>5 DEF Accounts, Due
    <3> HIDE DEF i
    <3>2. Accounts(r, i, actions, names)
      BY <2>1, <2>2, <3>1, VerifyInOrder
    <3> QED  BY <3>2 DEF i
  <2> QED  BY <2>3, <2>4, <2>5
<1>5. CASE ~x.shown /\ ~x.noticed
  <2>1. r = [x EXCEPT !.waiting = @ + 1]
    BY <1>5 DEF ImpressionOn
  <2>2. /\ r \in Sheets /\ SameRequest(x, r) /\ SameClick(x, r) /\ SameActs(x, r)
        /\ SamePosts(x, r) /\ (r.shown <=> x.shown) /\ r.waiting = x.waiting + 1
        /\ r.shownAgain = x.shownAgain
    BY <1>1, <2>1 DEF Sheets, SameRequest, SameClick, SameActs, SamePosts
  <2>3. InOrder(r)
    BY <1>5, <2>2 DEF InOrder, SameRequest, SameClick
  <2>4. (HasNotice(r) <=> HasNotice(x)) /\ HasImpression(r) /\ AllClicks(r) = AllClicks(x)
    BY <1>2, <1>5, <2>2 DEF HasNotice, HasImpression, AllClicks, SameRequest, SameClick
  <2>5. ASSUME NEW impressions \in Nat, NEW actions \in Nat, NEW names,
               Accounts(x, impressions, actions, names)
        PROVE  Accounts(r, impressions + 1, actions, names)
    BY <1>2, <1>5, <2>2, <2>5 DEF Accounts, SameClick, SameActs, SamePosts
  <2> QED  BY <2>2, <2>3, <2>4, <2>5
<1> QED  BY <1>3, <1>4, <1>5

(* A sheet of a request that its notice comes to.                          *)
Awaiting(x) ==
    /\ x \in Sheets /\ x.requested /\ ~x.noticed /\ ~x.early /\ ~x.shown /\ ~x.clicked
    /\ x.clickedAgain = 0

LEMMA NoticedInOrder ==
    ASSUME NEW x, Awaiting(x), NEW r, r = NoticedOn(x)
    PROVE  /\ InOrder(r) /\ r.requested
           /\ HasNotice(r) /\ (tracking.impression => (HasImpression(r) <=> HasImpression(x)))
           /\ AllClicks(r) = AllClicks(x)
           /\ \A impressions \in Nat, actions \in Nat : \A names :
                 Accounts(x, impressions, actions, names) =>
                    Accounts(r, impressions, actions, names)
<1>1. x \in Sheets /\ x.requested /\ ~x.noticed /\ ~x.early /\ ~x.shown /\ ~x.clicked
  BY DEF Awaiting
<1>2. /\ x.waiting \in Nat /\ x.clicks \in Nat /\ x.clickedAgain \in Nat
  BY <1>1 DEF Sheets
<1>3. ASSUME NEW y, y \in Sheets, y.noticed, (y.requested <=> x.requested),
             (y.early <=> x.early), (y.shown <=> x.shown), y.shownAgain = x.shownAgain,
             SameClick(x, y), SameActs(x, y), SamePosts(x, y), r = VerifyOn(y),
             \/ x.waiting > 0 /\ y.waiting = x.waiting - 1
             \/ ~tracking.impression /\ y.waiting = x.waiting
      PROVE  /\ InOrder(r) /\ r.requested
             /\ HasNotice(r) /\ (tracking.impression => (HasImpression(r) <=> HasImpression(x)))
             /\ AllClicks(r) = AllClicks(x)
             /\ \A impressions \in Nat, actions \in Nat : \A names :
                   Accounts(x, impressions, actions, names) =>
                      Accounts(r, impressions, actions, names)
  <2>1. Due(y)
    BY <1>1, <1>3 DEF Due, Awaiting, SameClick
  <2>2. /\ InOrder(r) /\ SameRequest(y, r)
        /\ HasNotice(r) /\ HasImpression(r) /\ AllClicks(r) = AllClicks(y)
    BY <1>3, <2>1, VerifyInOrder
  <2>3. AllClicks(y) = AllClicks(x)
    BY <1>3 DEF AllClicks, SameClick
  <2>4. r.requested
    BY <1>1, <1>3, <2>2 DEF SameRequest
  <2>5. tracking.impression => HasImpression(x)
    BY <1>3 DEF HasImpression
  <2>6. ASSUME NEW impressions \in Nat, NEW actions \in Nat, NEW names,
               Accounts(x, impressions, actions, names)
        PROVE  Accounts(r, impressions, actions, names)
    <3>1. /\ \/ impressions > 0 /\ y.waiting = impressions - 1
             \/ ~tracking.impression /\ y.waiting = impressions
          /\ y.shownAgain = 0 /\ y.actions = actions /\ y.acted = 0
          /\ y.names = names /\ y.posted = 0
      BY <1>1, <1>3, <2>6 DEF Accounts, SameActs, SamePosts
    <3> QED  BY <1>3, <2>1, <3>1, VerifyInOrder
  <2> QED  BY <2>2, <2>3, <2>4, <2>5, <2>6
<1>4. CASE x.waiting > 0
  <2> DEFINE k == x.waiting - 1
             y == [x EXCEPT !.noticed = TRUE, !.waiting = k]
  <2>1. k \in Nat
    BY <1>2, <1>4
  <2>2. r = ImpressionOn(y)
    BY <1>4 DEF NoticedOn
  <2> HIDE DEF k
  <2>3. /\ y \in Sheets /\ y.noticed /\ (y.requested <=> x.requested)
        /\ (y.early <=> x.early) /\ (y.shown <=> x.shown) /\ y.shownAgain = x.shownAgain
        /\ SameClick(x, y) /\ SameActs(x, y) /\ SamePosts(x, y) /\ y.waiting = k
    BY <1>1, <2>1 DEF Sheets, SameClick, SameActs, SamePosts
  <2> HIDE DEF y
  <2>4. r = VerifyOn(y)
    BY <1>1, <2>2, <2>3 DEF ImpressionOn
  <2>5. y.waiting = x.waiting - 1
    BY <2>3 DEF k
  <2> QED  BY <1>3, <1>4, <2>3, <2>4, <2>5
<1>5. CASE ~(x.waiting > 0) /\ ~tracking.impression
  <2> DEFINE y == [x EXCEPT !.noticed = TRUE]
  <2>1. r = ImpressionOn(y)
    BY <1>5 DEF NoticedOn
  <2>2. /\ y \in Sheets /\ y.noticed /\ (y.requested <=> x.requested)
        /\ (y.early <=> x.early) /\ (y.shown <=> x.shown) /\ y.shownAgain = x.shownAgain
        /\ SameClick(x, y) /\ SameActs(x, y) /\ SamePosts(x, y) /\ y.waiting = x.waiting
    BY <1>1 DEF Sheets, SameClick, SameActs, SamePosts
  <2> HIDE DEF y
  <2>3. r = VerifyOn(y)
    BY <1>1, <2>1, <2>2 DEF ImpressionOn
  <2> QED  BY <1>3, <1>5, <2>2, <2>3
<1>6. CASE ~(x.waiting > 0) /\ tracking.impression
  <2>1. r = [x EXCEPT !.noticed = TRUE]
    BY <1>6 DEF NoticedOn
  <2>2. /\ r \in Sheets /\ r.noticed /\ (r.requested <=> x.requested)
        /\ (r.early <=> x.early) /\ SameShown(x, r)
        /\ SameClick(x, r) /\ SameActs(x, r) /\ SamePosts(x, r)
    BY <1>1, <2>1 DEF Sheets, SameShown, SameClick, SameActs, SamePosts
  <2>3. InOrder(r)
    BY <1>1, <1>2, <1>6, <2>2 DEF InOrder, Awaiting, SameShown, SameClick
  <2>4. HasNotice(r) /\ (HasImpression(r) <=> HasImpression(x)) /\ AllClicks(r) = AllClicks(x)
    BY <2>2 DEF HasNotice, HasImpression, AllClicks, SameShown, SameClick
  <2>5. ASSUME NEW impressions \in Nat, NEW actions \in Nat, NEW names,
               Accounts(x, impressions, actions, names)
        PROVE  Accounts(r, impressions, actions, names)
    BY <2>2, <2>5 DEF Accounts, SameShown, SameClick, SameActs, SamePosts
  <2> QED  BY <1>1, <2>2, <2>3, <2>4, <2>5
<1> QED  BY <1>4, <1>5, <1>6

LEMMA NoticeInOrder ==
    ASSUME NEW x, InOrder(x), NEW r, r = NoticeOn(x)
    PROVE  /\ InOrder(r) /\ (r.requested <=> x.requested)
           /\ HasNotice(r) /\ (tracking.impression => (HasImpression(r) <=> HasImpression(x)))
           /\ AllClicks(r) = AllClicks(x)
           /\ \A impressions \in Nat, actions \in Nat : \A names :
                 Accounts(x, impressions, actions, names) =>
                    Accounts(r, impressions, actions, names)
<1>1. x \in Sheets
  BY DEF InOrder
<1>2. CASE ~x.requested
  <2>1. r = [x EXCEPT !.early = TRUE]
    BY <1>2 DEF NoticeOn
  <2>2. /\ r \in Sheets /\ r.early /\ (r.requested <=> x.requested)
        /\ (r.noticed <=> x.noticed) /\ SameShown(x, r)
        /\ SameClick(x, r) /\ SameActs(x, r) /\ SamePosts(x, r)
    BY <1>1, <2>1 DEF Sheets, SameShown, SameClick, SameActs, SamePosts
  <2>3. InOrder(r)
    BY <1>2, <2>2 DEF InOrder, SameShown, SameClick
  <2>4. HasNotice(r) /\ (HasImpression(r) <=> HasImpression(x)) /\ AllClicks(r) = AllClicks(x)
    BY <2>2 DEF HasNotice, HasImpression, AllClicks, SameShown, SameClick
  <2>5. ASSUME NEW impressions \in Nat, NEW actions \in Nat, NEW names,
               Accounts(x, impressions, actions, names)
        PROVE  Accounts(r, impressions, actions, names)
    BY <2>2, <2>5 DEF Accounts, SameShown, SameClick, SameActs, SamePosts
  <2> QED  BY <2>2, <2>3, <2>4, <2>5
<1>3. CASE x.requested /\ x.noticed
  <2>1. r = x
    BY <1>3 DEF NoticeOn
  <2> QED  BY <1>3, <2>1 DEF HasNotice
<1>4. CASE x.requested /\ ~x.noticed
  <2>1. r = NoticedOn(x)
    BY <1>4 DEF NoticeOn
  <2>2. Awaiting(x)
    <3>1. x.clickedAgain \in Nat
      BY <1>1 DEF Sheets
    <3> QED  BY <1>4, <3>1 DEF Awaiting, InOrder
  <2> QED  BY <1>4, <2>1, <2>2, NoticedInOrder
<1> QED  BY <1>2, <1>3, <1>4

LEMMA RequestInOrder ==
    ASSUME NEW x, InOrder(x), ~x.requested, NEW r, r = RequestOn(x)
    PROVE  /\ InOrder(r) /\ r.requested
           /\ (tracking.notice => (HasNotice(r) <=> HasNotice(x)))
           /\ (tracking.impression => (HasImpression(r) <=> HasImpression(x)))
           /\ AllClicks(r) = AllClicks(x)
           /\ \A impressions \in Nat, actions \in Nat : \A names :
                 Accounts(x, impressions, actions, names) =>
                    Accounts(r, impressions, actions, names)
<1>1. x \in Sheets /\ ~x.noticed /\ ~x.shown /\ ~x.clicked
  BY DEF InOrder
<1> DEFINE y == [x EXCEPT !.requested = TRUE, !.early = FALSE]
<1>2. r = IF x.early \/ ~tracking.notice THEN NoticeOn(y) ELSE y
  BY DEF RequestOn
<1>3. /\ y \in Sheets /\ y.requested /\ ~y.early
      /\ (y.noticed <=> x.noticed) /\ SameShown(x, y)
      /\ SameClick(x, y) /\ SameActs(x, y) /\ SamePosts(x, y)
  BY <1>1 DEF Sheets, SameShown, SameClick, SameActs, SamePosts
<1> HIDE DEF y
<1>4. (HasImpression(y) <=> HasImpression(x)) /\ AllClicks(y) = AllClicks(x)
  BY <1>3 DEF HasImpression, AllClicks, SameShown, SameClick
<1>5. ASSUME NEW impressions \in Nat, NEW actions \in Nat, NEW names,
             Accounts(x, impressions, actions, names)
      PROVE  Accounts(y, impressions, actions, names)
  BY <1>3, <1>5 DEF Accounts, SameShown, SameClick, SameActs, SamePosts
<1>6. CASE x.early \/ ~tracking.notice
  <2>1. r = NoticedOn(y)
    BY <1>1, <1>2, <1>3, <1>6 DEF NoticeOn
  <2>2. Awaiting(y)
    <3>1. x.clickedAgain \in Nat
      BY <1>1 DEF Sheets
    <3> QED  BY <1>1, <1>3, <3>1 DEF Awaiting, InOrder, SameShown, SameClick
  <2>3. /\ InOrder(r) /\ r.requested
        /\ HasNotice(r) /\ (tracking.impression => (HasImpression(r) <=> HasImpression(y)))
        /\ AllClicks(r) = AllClicks(y)
        /\ \A impressions \in Nat, actions \in Nat : \A names :
              Accounts(y, impressions, actions, names) =>
                 Accounts(r, impressions, actions, names)
    BY <2>1, <2>2, NoticedInOrder
  <2>4. tracking.notice => HasNotice(x)
    BY <1>6 DEF HasNotice
  <2> QED  BY <1>4, <1>5, <2>3, <2>4
<1>7. CASE ~(x.early \/ ~tracking.notice)
  <2>1. r = y
    BY <1>2, <1>7
  <2>2. InOrder(y)
    BY <1>1, <1>3, <1>7 DEF InOrder, SameShown, SameClick
  <2>3. HasNotice(y) <=> HasNotice(x)
    BY <1>3, <1>7 DEF HasNotice
  <2> QED  BY <1>3, <1>4, <1>5, <2>1, <2>2, <2>3
<1> QED  BY <1>6, <1>7

(* A sheet on which nothing has come.                                      *)
Blank(x) ==
    /\ x \in Sheets /\ ~x.requested /\ ~x.noticed /\ ~x.early /\ ~x.shown /\ x.waiting = 0
    /\ ~x.clicked /\ x.clicks = 0 /\ x.clickedAgain = 0

LEMMA ChangeInOrder ==
    ASSUME NEW x, Blank(x), tracking.impression,
           NEW waits, waits.impressions \in Nat, waits.clicks \in Nat, waits.actions \in Nat,
           NEW names \in SUBSET PostAction, NEW r, r = ChangeOn(x, waits, names)
    PROVE  /\ InOrder(r) /\ r.requested /\ HasImpression(r) /\ AllClicks(r) = waits.clicks
           /\ tracking.notice => (HasNotice(r) <=> waits.notice)
<1> DEFINE q == RequestOn(x)
           y == RestoredOn(q, waits)
           i == ImpressionOn(y)
           n == IF waits.notice THEN NoticeOn(i) ELSE i
           c == IF waits.clicks > 0 THEN ClickOn(n) ELSE n
           p == NamesOn(c, names)
<1>1. r = ActionsOn(p, waits.actions)
  BY DEF ChangeOn
<1>2. InOrder(x) /\ ~HasNotice(x) /\ ~HasImpression(x) /\ AllClicks(x) = 0
  <2>1. InOrder(x)
    BY DEF InOrder, Blank
  <2> QED  BY <2>1 DEF HasNotice, HasImpression, AllClicks, Blank
<1>3. /\ InOrder(q) /\ q.requested
      /\ (tracking.notice => (HasNotice(q) <=> HasNotice(x)))
      /\ (HasImpression(q) <=> HasImpression(x))
      /\ AllClicks(q) = AllClicks(x)
  BY <1>2, RequestInOrder DEF Blank
<1> DEFINE w == Less1(waits.impressions)
           k == Less1(waits.clicks)
<1>4. w \in Nat /\ k \in Nat /\ (waits.clicks > 0 => k = waits.clicks - 1)
      /\ (~(waits.clicks > 0) => k = 0 /\ waits.clicks = 0)
      /\ (~(waits.impressions > 0) => w = 0)
  BY DEF Less1
<1>5. /\ q \in Sheets /\ ~q.shown /\ q.waiting = 0 /\ ~q.clicked /\ q.clicks = 0
      /\ q.clickedAgain = 0 /\ ~q.early
  <2>1. q \in Sheets /\ ~q.shown /\ q.waiting = 0 /\ ~q.clicked /\ ~q.early
    <3>1. q.waiting \in Nat
      BY <1>3 DEF InOrder, Sheets
    <3> QED  BY <1>2, <1>3, <3>1 DEF InOrder, HasImpression
  <2>2. q.clicks + q.clickedAgain = 0
    BY <1>2, <1>3, <2>1 DEF AllClicks, Sheets
  <2>3. q.clicks \in Nat /\ q.clickedAgain \in Nat
    BY <2>1 DEF Sheets
  <2> QED  BY <2>1, <2>2, <2>3
<1>6. tracking.notice => ~q.noticed
  BY <1>2, <1>3 DEF HasNotice
<1> HIDE DEF q
<1>7. y = [q EXCEPT !.waiting = w, !.clicks = k]
  <2>1. (IF waits.impressions > 0 \/ waits.clicks > 0 THEN w ELSE q.waiting) = w
    BY <1>4, <1>5
  <2>2. (IF waits.clicks > 0 THEN waits.clicks - 1 ELSE q.clicks) = k
    BY <1>4, <1>5
  <2>3. y = [q EXCEPT !.waiting = IF waits.impressions > 0 \/ waits.clicks > 0
                                  THEN w ELSE @,
                      !.clicks = IF waits.clicks > 0 THEN waits.clicks - 1 ELSE @]
    BY DEF RestoredOn
  <2> HIDE DEF y, w, k
  <2>4. y = [q EXCEPT !.waiting = IF waits.impressions > 0 \/ waits.clicks > 0
                                  THEN w ELSE q.waiting,
                      !.clicks = IF waits.clicks > 0 THEN waits.clicks - 1 ELSE q.clicks]
    BY <1>5, <2>3 DEF Sheets
  <2> QED  BY <2>1, <2>2, <2>4
<1> HIDE DEF y, w, k
<1>8. /\ y \in Sheets /\ SameRequest(q, y) /\ (y.shown <=> q.shown) /\ y.waiting = w
      /\ (y.clicked <=> q.clicked) /\ y.clicks = k /\ y.clickedAgain = q.clickedAgain
  BY <1>4, <1>5, <1>7 DEF Sheets, SameRequest
<1>9. AllClicks(y) = k
  BY <1>4, <1>5, <1>8 DEF AllClicks
<1>10. /\ InOrder(i) /\ i.requested /\ HasImpression(i) /\ AllClicks(i) = k
       /\ tracking.notice => ~HasNotice(i)
  <2>1. CASE y.noticed
    <3>1. i = VerifyOn(y)
      BY <1>5, <1>8, <2>1 DEF ImpressionOn
    <3>2. Due(y)
      BY <1>3, <1>5, <1>8, <2>1 DEF Due, SameRequest
    <3>3. ~tracking.notice
      BY <1>6, <1>8, <2>1 DEF SameRequest
    <3> HIDE DEF i
    <3>4. InOrder(i) /\ SameRequest(y, i) /\ HasImpression(i) /\ AllClicks(i) = AllClicks(y)
      BY <3>1, <3>2, VerifyInOrder
    <3>5. i.requested
      BY <1>3, <1>8, <3>4 DEF SameRequest
    <3> QED  BY <1>9, <3>3, <3>4, <3>5
  <2>2. CASE ~y.noticed
    <3>1. InOrder(y)
      BY <1>3, <1>5, <1>8, <2>2 DEF InOrder, SameRequest
    <3> HIDE DEF i
    <3>2. /\ InOrder(i) /\ SameRequest(y, i) /\ (HasNotice(i) <=> HasNotice(y))
          /\ HasImpression(i) /\ AllClicks(i) = AllClicks(y)
      BY <3>1, ImpressionInOrder DEF i
    <3>3. i.requested
      BY <1>3, <1>8, <3>2 DEF SameRequest
    <3>4. ~HasNotice(y)
      BY <1>5, <1>8, <2>2 DEF HasNotice, SameRequest
    <3> QED  BY <1>9, <3>2, <3>3, <3>4
  <2> QED  BY <2>1, <2>2
<1> HIDE DEF i
<1>11. /\ InOrder(n) /\ n.requested /\ HasImpression(n) /\ AllClicks(n) = k
       /\ tracking.notice => (HasNotice(n) <=> waits.notice)
  <2>1. CASE waits.notice
    <3>1. n = NoticeOn(i)
      BY <2>1
    <3> HIDE DEF n
    <3> QED  BY <1>10, <2>1, <3>1, NoticeInOrder
  <2>2. CASE ~waits.notice
    <3>1. n = i
      BY <2>2
    <3> HIDE DEF n
    <3> QED  BY <1>10, <2>2, <3>1
  <2> QED  BY <2>1, <2>2
<1> HIDE DEF n
<1>12. /\ InOrder(c) /\ c.requested /\ HasImpression(c) /\ AllClicks(c) = waits.clicks
       /\ (HasNotice(c) <=> HasNotice(n))
  <2>1. CASE waits.clicks > 0
    <3>1. c = ClickOn(n)
      BY <2>1
    <3> HIDE DEF c
    <3>2. /\ InOrder(c) /\ SameRequest(n, c)
          /\ (HasNotice(c) <=> HasNotice(n)) /\ (HasImpression(c) <=> HasImpression(n))
          /\ AllClicks(c) = AllClicks(n) + 1
      BY <1>11, <3>1, ClickInOrder
    <3>3. c.requested
      BY <1>11, <3>2 DEF SameRequest
    <3> QED  BY <1>4, <1>11, <2>1, <3>2, <3>3
  <2>2. CASE ~(waits.clicks > 0)
    <3>1. c = n
      BY <2>2
    <3> HIDE DEF c
    <3> QED  BY <1>4, <1>11, <2>2, <3>1
  <2> QED  BY <2>1, <2>2
<1> HIDE DEF c
<1>13. InOrder(p) /\ SameCome(c, p) /\ SameRequest(c, p)
  BY <1>12, NamesInOrder
<1> HIDE DEF p
<1>14. InOrder(r) /\ SameCome(p, r) /\ SameRequest(p, r)
  BY <1>1, <1>13, ActionsInOrder
<1>15. r.requested
  BY <1>12, <1>13, <1>14 DEF SameRequest
<1> QED  BY <1>11, <1>12, <1>13, <1>14, <1>15 DEF SameCome

(* What the operations on their way bring to the sheet: a move brings the  *)
(* impression that caused it and what the profile had.                     *)
NoticeIn(op) ==
    \/ op.type = "notice"
    \/ op.type = "change" /\ (op.arg.notice_received \/ op.arg.notice_non_considered)

ImpressionIn(op) == op.type = "impression" \/ op.type = "change"

ClicksIn(op) ==
    IF op.type = "click" THEN 1
    ELSE IF op.type = "change" THEN op.arg.click_non_considered ELSE 0

ClickCopies(ops) ==
    [op \in DOMAIN ops |-> IF op.type = "click" THEN ops[op] ELSE ClicksIn(op)]

NoticeComing(ops) == \E op \in DOMAIN ops : NoticeIn(op)
ImpressionComing(ops) == \E op \in DOMAIN ops : ImpressionIn(op)
ClicksComing(ops) == SumOver(ClickCopies(ops), DOMAIN ops)

LEMMA ClicksInIs ==
    ASSUME NEW op, OpOK(op)
    PROVE  ClicksIn(op) \in Nat
BY DEF OpOK, ClicksIn, Profile

LEMMA ClickCopiesAre ==
    ASSUME NEW ops, OpsOK(ops)
    PROVE  \A op \in DOMAIN ops : ClickCopies(ops)[op] \in Nat
<1> TAKE op \in DOMAIN ops
<1>1. ops[op] \in Nat /\ OpOK(op)
  BY DEF OpsOK
<1> QED  BY <1>1, ClicksInIs DEF ClickCopies

LEMMA MailAdded ==
    ASSUME NEW ops, OpsOK(ops), IsFiniteSet(DOMAIN ops), NEW op, OpOK(op),
           op.type = "change" => op \notin DOMAIN ops, NEW new, new = BagAdd(ops, op)
    PROVE  /\ OpsOK(new) /\ IsFiniteSet(DOMAIN new)
           /\ NoticeComing(new) <=> NoticeComing(ops) \/ NoticeIn(op)
           /\ ImpressionComing(new) <=> ImpressionComing(ops) \/ ImpressionIn(op)
           /\ ClicksComing(new) = ClicksComing(ops) + ClicksIn(op)
           /\ NoMove(new) <=> NoMove(ops) /\ op.type # "change"
<1>1. /\ DOMAIN new = DOMAIN ops \cup {op}
      /\ \A x \in DOMAIN ops : x # op => new[x] = ops[x]
      /\ op \in DOMAIN ops => new[op] = ops[op] + 1
      /\ op \notin DOMAIN ops => new[op] = 1
  <2>1. /\ DOMAIN BagAdd(ops, op) = DOMAIN ops \cup {op}
        /\ \A x \in DOMAIN ops : x # op => BagAdd(ops, op)[x] = ops[x]
        /\ op \in DOMAIN ops => BagAdd(ops, op)[op] = ops[op] + 1
        /\ op \notin DOMAIN ops => BagAdd(ops, op)[op] = 1
    BY AddedIs
  <2> QED  BY <2>1
<1>2. OpsOK(new)
  BY Added
<1>3. IsFiniteSet(DOMAIN new)
  BY <1>1, FS_AddElement
<1>4. /\ NoticeComing(new) <=> NoticeComing(ops) \/ NoticeIn(op)
      /\ ImpressionComing(new) <=> ImpressionComing(ops) \/ ImpressionIn(op)
      /\ NoMove(new) <=> NoMove(ops) /\ op.type # "change"
  BY <1>1 DEF NoticeComing, ImpressionComing, NoMove
<1>5. \A x \in DOMAIN ops : ops[x] \in Nat
  BY DEF OpsOK
<1>6. ClicksComing(new) = ClicksComing(ops) + ClicksIn(op)
  <2> DEFINE f == ClickCopies(ops)
             g == ClickCopies(new)
  <2>1. /\ \A x \in DOMAIN ops : f[x] = IF x.type = "click" THEN ops[x] ELSE ClicksIn(x)
        /\ \A x \in DOMAIN new : g[x] = IF x.type = "click" THEN new[x] ELSE ClicksIn(x)
    BY DEF ClickCopies
  <2>2. (\A x \in DOMAIN ops : f[x] \in Int) /\ (\A x \in DOMAIN new : g[x] \in Int)
    BY <1>2, ClickCopiesAre
  <2>3. ClicksComing(ops) = SumOver(f, DOMAIN ops) /\ ClicksComing(new) = SumOver(g, DOMAIN new)
    BY DEF ClicksComing
  <2> HIDE DEF f, g
  <2>4. \A x \in DOMAIN ops : x # op => g[x] = f[x]
    BY <1>1, <2>1
  <2>5. ClicksIn(op) \in Nat
    BY ClicksInIs
  <2>6. CASE op \in DOMAIN ops
    <3>1. DOMAIN new = DOMAIN ops
      BY <1>1, <2>6
    <3>2. SumOver(g, DOMAIN ops) = SumOver(f, DOMAIN ops) - f[op] + g[op]
      BY <2>2, <2>4, <2>6, <3>1, SumChange
    <3>3. g[op] = f[op] + ClicksIn(op)
      <4>1. CASE op.type = "click"
        BY <1>1, <2>1, <2>6, <3>1, <4>1 DEF ClicksIn
      <4>2. CASE op.type # "click"
        <5>1. ClicksIn(op) = 0
          BY <2>6, <4>2 DEF ClicksIn
        <5> QED  BY <2>1, <2>6, <3>1, <4>2, <5>1
      <4> QED  BY <4>1, <4>2
    <3>4. SumOver(f, DOMAIN ops) \in Int
      BY <2>2, SumType
    <3>5. f[op] \in Int
      BY <2>2, <2>6
    <3> QED  BY <2>3, <2>5, <3>1, <3>2, <3>3, <3>4, <3>5
  <2>7. CASE op \notin DOMAIN ops
    <3>1. DOMAIN new \ {op} = DOMAIN ops /\ op \in DOMAIN new
      BY <1>1, <2>7
    <3>2. SumOver(g, DOMAIN new) = g[op] + SumOver(g, DOMAIN ops)
      BY <1>3, <2>2, <3>1, SumRemove
    <3>3. SumOver(g, DOMAIN ops) = SumOver(f, DOMAIN ops)
      BY <2>4, <2>7, SumSame
    <3>4. g[op] = ClicksIn(op)
      BY <1>1, <2>1, <2>7, <3>1 DEF ClicksIn
    <3>5. SumOver(f, DOMAIN ops) \in Int
      BY <2>2, SumType
    <3> QED  BY <2>3, <2>5, <3>2, <3>3, <3>4, <3>5
  <2> QED  BY <2>6, <2>7
<1> QED  BY <1>2, <1>3, <1>4, <1>6

LEMMA MailRemoved ==
    ASSUME NEW ops, OpsOK(ops), IsFiniteSet(DOMAIN ops), NEW op \in DOMAIN ops,
           op.type = "change" => ops[op] = 1, NEW new, new = BagRemove(ops, op)
    PROVE  /\ OpsOK(new) /\ IsFiniteSet(DOMAIN new) /\ DOMAIN new \subseteq DOMAIN ops
           /\ NoticeComing(ops) <=> NoticeComing(new) \/ NoticeIn(op)
           /\ ImpressionComing(ops) <=> ImpressionComing(new) \/ ImpressionIn(op)
           /\ ClicksComing(ops) = ClicksComing(new) + ClicksIn(op)
           /\ op.type # "change" => (NoMove(new) <=> NoMove(ops))
<1>1. /\ OpsOK(new) /\ DOMAIN new \subseteq DOMAIN ops
      /\ \A x \in DOMAIN ops : x # op => x \in DOMAIN new /\ new[x] = ops[x]
      /\ ops[op] = 1 => op \notin DOMAIN new
  BY Removed
<1>2. IsFiniteSet(DOMAIN new)
  BY <1>1, FS_Subset
<1>3. /\ NoticeComing(ops) <=> NoticeComing(new) \/ NoticeIn(op)
      /\ ImpressionComing(ops) <=> ImpressionComing(new) \/ ImpressionIn(op)
      /\ op.type # "change" => (NoMove(new) <=> NoMove(ops))
  BY <1>1 DEF NoticeComing, ImpressionComing, NoMove
<1>4. OpOK(op) /\ ops[op] \in Nat \ {0}
  BY DEF OpsOK
<1>5. ops[op] # 1 => op \in DOMAIN new /\ new[op] = ops[op] - 1
  <2> SUFFICES ASSUME ops[op] # 1
               PROVE  op \in DOMAIN new /\ new[op] = ops[op] - 1
    OBVIOUS
  <2>1. new = [e \in DOMAIN ops |-> IF e = op THEN ops[e] - 1 ELSE ops[e]]
    BY DEF BagRemove
  <2> QED  BY <2>1
<1>6. ClicksComing(ops) = ClicksComing(new) + ClicksIn(op)
  <2> DEFINE f == ClickCopies(ops)
             g == ClickCopies(new)
  <2>1. /\ \A x \in DOMAIN ops : f[x] = IF x.type = "click" THEN ops[x] ELSE ClicksIn(x)
        /\ \A x \in DOMAIN new : g[x] = IF x.type = "click" THEN new[x] ELSE ClicksIn(x)
    BY DEF ClickCopies
  <2>2. (\A x \in DOMAIN ops : f[x] \in Int) /\ (\A x \in DOMAIN new : g[x] \in Int)
    BY <1>1, ClickCopiesAre
  <2>3. ClicksComing(ops) = SumOver(f, DOMAIN ops) /\ ClicksComing(new) = SumOver(g, DOMAIN new)
    BY DEF ClicksComing
  <2> HIDE DEF f, g
  <2>4. \A x \in DOMAIN ops : x # op => g[x] = f[x]
    BY <1>1, <2>1
  <2>5. ClicksIn(op) \in Nat
    BY <1>4, ClicksInIs
  <2>6. CASE ops[op] # 1
    <3>1. DOMAIN new = DOMAIN ops /\ op \in DOMAIN new
      BY <1>1, <1>5, <2>6
    <3>2. SumOver(g, DOMAIN ops) = SumOver(f, DOMAIN ops) - f[op] + g[op]
      BY <2>2, <2>4, <3>1, SumChange
    <3>3. f[op] = g[op] + ClicksIn(op)
      <4>1. CASE op.type = "click"
        <5>1. f[op] = ops[op] /\ g[op] = ops[op] - 1 /\ ClicksIn(op) = 1
          BY <1>5, <2>1, <2>6, <3>1, <4>1 DEF ClicksIn
        <5> QED  BY <1>4, <5>1
      <4>2. CASE op.type # "click"
        <5>1. ClicksIn(op) = 0
          BY <2>6, <4>2 DEF ClicksIn
        <5>2. f[op] = 0 /\ g[op] = 0
          BY <2>1, <3>1, <4>2, <5>1
        <5> QED  BY <5>1, <5>2
      <4> QED  BY <4>1, <4>2
    <3>4. SumOver(f, DOMAIN ops) \in Int
      BY <2>2, SumType
    <3>5. f[op] \in Int /\ g[op] \in Int
      BY <2>2, <3>1
    <3> QED  BY <2>3, <2>5, <3>1, <3>2, <3>3, <3>4, <3>5
  <2>7. CASE ops[op] = 1
    <3>1. DOMAIN new = DOMAIN ops \ {op}
      BY <1>1, <2>7
    <3>2. SumOver(f, DOMAIN ops) = f[op] + SumOver(f, DOMAIN new)
      BY <2>2, <3>1, SumRemove
    <3>3. SumOver(g, DOMAIN new) = SumOver(f, DOMAIN new)
      BY <1>2, <2>4, <3>1, SumSame
    <3>4. f[op] = ClicksIn(op)
      BY <2>1, <2>7 DEF ClicksIn
    <3>5. SumOver(f, DOMAIN new) \in Int
      BY <1>1, <1>2, <2>2, SumType
    <3> QED  BY <2>3, <2>5, <3>2, <3>3, <3>4, <3>5
  <2> QED  BY <2>6, <2>7
<1> QED  BY <1>1, <1>2, <1>3, <1>6

LEMMA MailNone ==
    ASSUME NEW ops, DOMAIN ops = {}
    PROVE  /\ ~NoticeComing(ops) /\ ~ImpressionComing(ops) /\ ClicksComing(ops) = 0
           /\ NoMove(ops)
BY SumEmpty DEF NoticeComing, ImpressionComing, ClicksComing, NoMove

LEMMA MailCounted ==
    ASSUME NEW ops, OpsOK(ops), IsFiniteSet(DOMAIN ops)
    PROVE  ClicksComing(ops) \in Nat
BY ClickCopiesAre, SumNotNegative DEF ClicksComing

NamesCame(came) == {name \in PostAction : came[name] > 0}

(* What has come is on the sheet or on its way to it.                      *)
AddsUp(x, ops, came) ==
    /\ tracking.notice => (came["notice"] > 0 <=> HasNotice(x) \/ NoticeComing(ops))
    /\ tracking.impression =>
          (came["impression"] + came["foreign"] > 0 <=> HasImpression(x) \/ ImpressionComing(ops))
    /\ came["click"] = AllClicks(x) + ClicksComing(ops)

Tally(x, ops, came) ==
    /\ InOrder(x)
    /\ AddsUp(x, ops, came)
    /\ came["request"] > 0 => ~NoMove(ops) \/ x.requested
    /\ came["foreign"] = 0 =>
          Accounts(x, came["impression"], came["action"], NamesCame(came))

Cames == [Record -> Nat]

Grown(came, new, record) ==
    /\ came \in Cames /\ new \in Cames /\ record \in Record
    /\ new[record] = came[record] + 1
    /\ \A x \in Record : x # record => new[x] = came[x]

LEMMA CameIs ==
    ASSUME NEW came \in Cames
    PROVE  /\ came["request"] \in Nat /\ came["notice"] \in Nat /\ came["impression"] \in Nat
           /\ came["foreign"] \in Nat /\ came["click"] \in Nat /\ came["action"] \in Nat
BY DEF Cames, Record

LEMMA GrownIs ==
    ASSUME NEW came, NEW new, NEW record, Grown(came, new, record)
    PROVE  /\ record # "request" => new["request"] = came["request"]
           /\ record # "notice" => new["notice"] = came["notice"]
           /\ record # "impression" => new["impression"] = came["impression"]
           /\ record # "foreign" => new["foreign"] = came["foreign"]
           /\ record # "click" => new["click"] = came["click"]
           /\ record # "action" => new["action"] = came["action"]
           /\ record \notin PostAction => NamesCame(new) = NamesCame(came)
           /\ record \in PostAction => NamesCame(new) = NamesCame(came) \cup {record}
           /\ NamesCame(came) \in SUBSET PostAction
<1>1. PostAction \subseteq Record
  BY DEF Record
<1>2. /\ record # "request" => new["request"] = came["request"]
      /\ record # "notice" => new["notice"] = came["notice"]
      /\ record # "impression" => new["impression"] = came["impression"]
      /\ record # "foreign" => new["foreign"] = came["foreign"]
      /\ record # "click" => new["click"] = came["click"]
      /\ record # "action" => new["action"] = came["action"]
  BY DEF Grown, Record
<1>3. record \notin PostAction => NamesCame(new) = NamesCame(came)
  BY <1>1 DEF Grown, NamesCame
<1>4. record \in PostAction => NamesCame(new) = NamesCame(came) \cup {record}
  <2>1. came[record] \in Nat /\ new[record] = came[record] + 1
    BY DEF Grown, Cames
  <2>2. new[record] > 0
    BY <2>1
  <2> QED  BY <1>1, <2>2 DEF Grown, NamesCame
<1>5. NamesCame(came) \in SUBSET PostAction
  BY DEF NamesCame
<1> QED  BY <1>2, <1>3, <1>4, <1>5

LEMMA NotNames ==
    /\ "request" \notin PostAction /\ "notice" \notin PostAction
    /\ "impression" \notin PostAction /\ "foreign" \notin PostAction
    /\ "click" \notin PostAction /\ "action" \notin PostAction
BY RecordAssumption

LEMMA NameIsNoOther ==
    ASSUME NEW name \in PostAction
    PROVE  name \notin {"request", "notice", "impression", "foreign", "click", "action"}
BY RecordAssumption

(* Each record that is taken where it comes.                               *)
LEMMA ActionTally ==
    ASSUME NEW x, NEW ops, NEW came, NEW new, Tally(x, ops, came), Grown(came, new, "action"),
           NEW r, r = ActionsOn(x, 1)
    PROVE  Tally(r, ops, new)
<1>1. /\ new["request"] = came["request"] /\ new["notice"] = came["notice"]
      /\ new["impression"] = came["impression"] /\ new["foreign"] = came["foreign"]
      /\ new["click"] = came["click"] /\ NamesCame(new) = NamesCame(came)
      /\ new["action"] = came["action"] + 1
      /\ came["impression"] \in Nat /\ came["action"] \in Nat
  BY GrownIs, NotNames, CameIs DEF Grown
<1>2. /\ InOrder(r) /\ SameCome(x, r) /\ SameRequest(x, r)
      /\ \A impressions \in Nat, actions \in Nat : \A names :
            Accounts(x, impressions, actions, names) =>
               Accounts(r, impressions, actions + 1, names)
  BY ActionsInOrder DEF Tally
<1>3. AddsUp(r, ops, new)
  BY <1>1, <1>2 DEF Tally, AddsUp, SameCome
<1>4. new["request"] > 0 => ~NoMove(ops) \/ r.requested
  BY <1>1, <1>2 DEF Tally, SameRequest
<1>5. new["foreign"] = 0 => Accounts(r, new["impression"], new["action"], NamesCame(new))
  BY <1>1, <1>2 DEF Tally
<1> QED  BY <1>2, <1>3, <1>4, <1>5 DEF Tally

LEMMA PostTally ==
    ASSUME NEW x, NEW ops, NEW came, NEW new, NEW name \in PostAction, Tally(x, ops, came),
           Grown(came, new, name), NEW r, r = NamesOn(x, {name})
    PROVE  Tally(r, ops, new)
<1>1. /\ new["request"] = came["request"] /\ new["notice"] = came["notice"]
      /\ new["impression"] = came["impression"] /\ new["foreign"] = came["foreign"]
      /\ new["click"] = came["click"] /\ NamesCame(new) = NamesCame(came) \cup {name}
      /\ new["action"] = came["action"]
      /\ came["impression"] \in Nat /\ came["action"] \in Nat
      /\ NamesCame(came) \in SUBSET PostAction
  BY GrownIs, NameIsNoOther, CameIs DEF Grown
<1>2. /\ InOrder(r) /\ SameCome(x, r) /\ SameRequest(x, r)
      /\ \A impressions \in Nat, actions \in Nat, names \in SUBSET PostAction :
            Accounts(x, impressions, actions, names) =>
               Accounts(r, impressions, actions, names \cup {name})
  <2>1. {name} \in SUBSET PostAction
    OBVIOUS
  <2> QED  BY <2>1, NamesInOrder DEF Tally
<1>3. AddsUp(r, ops, new)
  BY <1>1, <1>2 DEF Tally, AddsUp, SameCome
<1>4. new["request"] > 0 => ~NoMove(ops) \/ r.requested
  BY <1>1, <1>2 DEF Tally, SameRequest
<1>5. new["foreign"] = 0 => Accounts(r, new["impression"], new["action"], NamesCame(new))
  BY <1>1, <1>2 DEF Tally
<1> QED  BY <1>2, <1>3, <1>4, <1>5 DEF Tally

LEMMA AllClicksIs ==
    ASSUME NEW x, InOrder(x)
    PROVE  AllClicks(x) \in Nat
BY DEF InOrder, Sheets, AllClicks

LEMMA ClickTally ==
    ASSUME NEW x, NEW ops, OpsOK(ops), IsFiniteSet(DOMAIN ops),
           NEW came, NEW new, Tally(x, ops, came), Grown(came, new, "click"),
           NEW r, r = ClickOn(x)
    PROVE  Tally(r, ops, new)
<1>1. /\ new["request"] = came["request"] /\ new["notice"] = came["notice"]
      /\ new["impression"] = came["impression"] /\ new["foreign"] = came["foreign"]
      /\ new["click"] = came["click"] + 1 /\ NamesCame(new) = NamesCame(came)
      /\ new["action"] = came["action"]
      /\ came["impression"] \in Nat /\ came["action"] \in Nat
  BY GrownIs, NotNames, CameIs DEF Grown
<1>2. /\ InOrder(r) /\ SameRequest(x, r)
      /\ (HasNotice(r) <=> HasNotice(x)) /\ (HasImpression(r) <=> HasImpression(x))
      /\ AllClicks(r) = AllClicks(x) + 1
      /\ \A impressions \in Nat, actions \in Nat : \A names :
            Accounts(x, impressions, actions, names) =>
               Accounts(r, impressions, actions, names)
  BY ClickInOrder DEF Tally
<1>3. AddsUp(r, ops, new)
  <2>1. new["click"] = AllClicks(r) + ClicksComing(ops)
    <3>1. AllClicks(x) \in Nat /\ ClicksComing(ops) \in Nat
      BY AllClicksIs, MailCounted DEF Tally
    <3> QED  BY <1>1, <1>2, <3>1 DEF Tally, AddsUp
  <2> QED  BY <1>1, <1>2, <2>1 DEF Tally, AddsUp
<1>4. new["request"] > 0 => ~NoMove(ops) \/ r.requested
  BY <1>1, <1>2 DEF Tally, SameRequest
<1>5. new["foreign"] = 0 => Accounts(r, new["impression"], new["action"], NamesCame(new))
  BY <1>1, <1>2 DEF Tally
<1> QED  BY <1>2, <1>3, <1>4, <1>5 DEF Tally

LEMMA NoticeTally ==
    ASSUME NEW x, NEW ops, NEW came, NEW new, Tally(x, ops, came), Grown(came, new, "notice"),
           NEW r, r = NoticeOn(x)
    PROVE  Tally(r, ops, new)
<1>1. /\ new["request"] = came["request"] /\ new["notice"] > 0
      /\ new["impression"] = came["impression"] /\ new["foreign"] = came["foreign"]
      /\ new["click"] = came["click"] /\ NamesCame(new) = NamesCame(came)
      /\ new["action"] = came["action"]
      /\ came["impression"] \in Nat /\ came["action"] \in Nat
  BY GrownIs, NotNames, CameIs DEF Grown
<1>2. /\ InOrder(r) /\ (r.requested <=> x.requested)
      /\ HasNotice(r) /\ (tracking.impression => (HasImpression(r) <=> HasImpression(x)))
      /\ AllClicks(r) = AllClicks(x)
      /\ \A impressions \in Nat, actions \in Nat : \A names :
            Accounts(x, impressions, actions, names) =>
               Accounts(r, impressions, actions, names)
  BY NoticeInOrder DEF Tally
<1>3. AddsUp(r, ops, new)
  BY <1>1, <1>2 DEF Tally, AddsUp
<1>4. new["request"] > 0 => ~NoMove(ops) \/ r.requested
  BY <1>1, <1>2 DEF Tally
<1>5. new["foreign"] = 0 => Accounts(r, new["impression"], new["action"], NamesCame(new))
  BY <1>1, <1>2 DEF Tally
<1> QED  BY <1>2, <1>3, <1>4, <1>5 DEF Tally

LEMMA ImpressionTally ==
    ASSUME NEW x, NEW ops, NEW came, NEW new, NEW record \in {"impression", "foreign"},
           Tally(x, ops, came), Grown(came, new, record), NEW r, r = ImpressionOn(x)
    PROVE  Tally(r, ops, new)
<1>1. /\ new["request"] = came["request"] /\ new["notice"] = came["notice"]
      /\ new["impression"] + new["foreign"] > 0
      /\ new["click"] = came["click"] /\ NamesCame(new) = NamesCame(came)
      /\ new["action"] = came["action"]
      /\ came["impression"] \in Nat /\ came["action"] \in Nat
      /\ new["foreign"] = 0 => /\ came["foreign"] = 0
                               /\ new["impression"] = came["impression"] + 1
  BY GrownIs, NotNames, CameIs DEF Grown
<1>2. /\ InOrder(r) /\ SameRequest(x, r)
      /\ (HasNotice(r) <=> HasNotice(x)) /\ HasImpression(r)
      /\ AllClicks(r) = AllClicks(x)
      /\ \A impressions \in Nat, actions \in Nat : \A names :
            Accounts(x, impressions, actions, names) =>
               Accounts(r, impressions + 1, actions, names)
  BY ImpressionInOrder DEF Tally
<1>3. AddsUp(r, ops, new)
  BY <1>1, <1>2 DEF Tally, AddsUp
<1>4. new["request"] > 0 => ~NoMove(ops) \/ r.requested
  BY <1>1, <1>2 DEF Tally, SameRequest
<1>5. new["foreign"] = 0 => Accounts(r, new["impression"], new["action"], NamesCame(new))
  BY <1>1, <1>2 DEF Tally
<1> QED  BY <1>2, <1>3, <1>4, <1>5 DEF Tally

LEMMA RequestTally ==
    ASSUME NEW x, NEW ops, NEW came, NEW new, Tally(x, ops, came), Grown(came, new, "request"),
           NEW r, \/ r = x /\ (~NoMove(ops) \/ x.requested)
                  \/ r = RequestOn(x) /\ ~x.requested
    PROVE  Tally(r, ops, new)
<1>1. /\ new["notice"] = came["notice"]
      /\ new["impression"] = came["impression"] /\ new["foreign"] = came["foreign"]
      /\ new["click"] = came["click"] /\ NamesCame(new) = NamesCame(came)
      /\ new["action"] = came["action"]
      /\ came["impression"] \in Nat /\ came["action"] \in Nat
  BY GrownIs, NotNames, CameIs DEF Grown
<1>2. CASE r = x /\ (~NoMove(ops) \/ x.requested)
  <2>1. AddsUp(r, ops, new)
    BY <1>1, <1>2 DEF Tally, AddsUp
  <2> QED  BY <1>1, <1>2, <2>1 DEF Tally
<1>3. CASE r = RequestOn(x) /\ ~x.requested
  <2>1. /\ InOrder(r) /\ r.requested
        /\ (tracking.notice => (HasNotice(r) <=> HasNotice(x)))
        /\ (tracking.impression => (HasImpression(r) <=> HasImpression(x)))
        /\ AllClicks(r) = AllClicks(x)
        /\ \A impressions \in Nat, actions \in Nat : \A names :
              Accounts(x, impressions, actions, names) =>
                 Accounts(r, impressions, actions, names)
    BY <1>3, RequestInOrder DEF Tally
  <2>2. AddsUp(r, ops, new)
    BY <1>1, <2>1 DEF Tally, AddsUp
  <2>3. new["foreign"] = 0 => Accounts(r, new["impression"], new["action"], NamesCame(new))
    BY <1>1, <2>1 DEF Tally
  <2> QED  BY <2>1, <2>2, <2>3 DEF Tally
<1> QED  BY <1>2, <1>3

(* A record handed on to where the request went.                           *)
Brings(op, record) ==
    \/ op.type = "notice" /\ record = "notice"
    \/ op.type = "impression" /\ record \in {"impression", "foreign"}
    \/ op.type = "click" /\ record = "click"
    \/ op.type = "action" /\ record = "action"
    \/ op.type = "post" /\ record \in PostAction

LEMMA ForwardTally ==
    ASSUME NEW x, NEW ops, OpsOK(ops), IsFiniteSet(DOMAIN ops), NEW came, NEW new, NEW record,
           Tally(x, ops, came), Grown(came, new, record), came["foreign"] > 0,
           NEW op, OpOK(op), Brings(op, record), NEW more, more = BagAdd(ops, op)
    PROVE  Tally(x, more, new)
<1>1. op.type # "change"
  BY DEF Brings
<1>2. /\ NoticeComing(more) <=> NoticeComing(ops) \/ NoticeIn(op)
      /\ ImpressionComing(more) <=> ImpressionComing(ops) \/ ImpressionIn(op)
      /\ ClicksComing(more) = ClicksComing(ops) + ClicksIn(op)
      /\ NoMove(more) <=> NoMove(ops) /\ op.type # "change"
  BY <1>1, MailAdded
<1>3. AllClicks(x) \in Nat /\ ClicksComing(ops) \in Nat
  BY AllClicksIs, MailCounted DEF Tally
<1>4. came \in Cames /\ new \in Cames /\ new[record] = came[record] + 1
  BY DEF Grown
<1>5. /\ came["request"] \in Nat /\ came["notice"] \in Nat /\ came["impression"] \in Nat
      /\ came["foreign"] \in Nat /\ came["click"] \in Nat /\ came["action"] \in Nat
  BY <1>4, CameIs
<1>6. /\ record # "request" => new["request"] = came["request"]
      /\ record # "notice" => new["notice"] = came["notice"]
      /\ record # "impression" => new["impression"] = came["impression"]
      /\ record # "foreign" => new["foreign"] = came["foreign"]
      /\ record # "click" => new["click"] = came["click"]
  BY GrownIs
<1>7. record \in PostAction =>
         record \notin {"request", "notice", "impression", "foreign", "click", "action"}
  BY NameIsNoOther
<1>8. new["foreign"] > 0 /\ new["request"] = came["request"]
  BY <1>4, <1>5, <1>6, <1>7 DEF Brings
<1>9. AddsUp(x, more, new)
  <2>1. CASE op.type = "notice" /\ record = "notice"
    BY <1>2, <1>3, <1>4, <1>5, <1>6, <2>1
       DEF Tally, AddsUp, NoticeIn, ImpressionIn, ClicksIn
  <2>2. CASE op.type = "impression" /\ record \in {"impression", "foreign"}
    <3>1. new["impression"] + new["foreign"] > 0
      BY <1>4, <1>5, <1>6, <2>2
    <3> QED  BY <1>2, <1>3, <1>6, <2>2, <3>1
                DEF Tally, AddsUp, NoticeIn, ImpressionIn, ClicksIn
  <2>3. CASE op.type = "click" /\ record = "click"
    BY <1>2, <1>3, <1>4, <1>5, <1>6, <2>3
       DEF Tally, AddsUp, NoticeIn, ImpressionIn, ClicksIn
  <2>4. CASE op.type = "action" /\ record = "action"
    BY <1>2, <1>3, <1>6, <2>4 DEF Tally, AddsUp, NoticeIn, ImpressionIn, ClicksIn
  <2>5. CASE op.type = "post" /\ record \in PostAction
    BY <1>2, <1>3, <1>6, <1>7, <2>5 DEF Tally, AddsUp, NoticeIn, ImpressionIn, ClicksIn
  <2> QED  BY <2>1, <2>2, <2>3, <2>4, <2>5 DEF Brings
<1> QED  BY <1>1, <1>2, <1>8, <1>9 DEF Tally

(* An operation of a record that is taken where the request went: with the *)
(* profile still RS_MOVED, an impression is told as a duplicate.           *)
TakenAs(x, op, r) ==
    /\ op.type \in {"notice", "impression", "click", "action", "post"}
    /\ op.type = "notice" => r = NoticeOn(x)
    /\ op.type = "click" => r = ClickOn(x)
    /\ op.type = "action" => r = ActionsOn(x, 1)
    /\ op.type = "post" => r = NamesOn(x, {op.arg})

Repeated(x) == [x EXCEPT !.shownAgain = @ + 1]

LEMMA RepeatedInOrder ==
    ASSUME NEW x, InOrder(x), NEW r, r = Repeated(x)
    PROVE  InOrder(r) /\ SameCome(x, r) /\ (r.requested <=> x.requested)
<1>1. x \in Sheets
  BY DEF InOrder
<1>2. /\ r \in Sheets /\ SameRequest(x, r) /\ SameClick(x, r)
      /\ (r.shown <=> x.shown) /\ r.waiting = x.waiting
  BY <1>1 DEF Repeated, Sheets, SameRequest, SameClick
<1>3. InOrder(r)
  BY <1>2 DEF InOrder, SameRequest, SameClick
<1> QED  BY <1>2, <1>3 DEF SameCome, HasNotice, HasImpression, AllClicks, SameRequest, SameClick

LEMMA DeliverTally ==
    ASSUME NEW x, NEW ops, OpsOK(ops), IsFiniteSet(DOMAIN ops), NEW came,
           Tally(x, ops, came), came["foreign"] > 0,
           NEW op \in DOMAIN ops, NEW r, TakenAs(x, op, r),
           op.type = "impression" => r = ImpressionOn(x) \/ (r = Repeated(x) /\ ~NoMove(ops)),
           NEW rest, rest = BagRemove(ops, op)
    PROVE  Tally(r, rest, came)
<1>1. op.type # "change"
  BY DEF TakenAs
<1>2. /\ OpsOK(rest) /\ IsFiniteSet(DOMAIN rest)
      /\ NoticeComing(ops) <=> NoticeComing(rest) \/ NoticeIn(op)
      /\ ImpressionComing(ops) <=> ImpressionComing(rest) \/ ImpressionIn(op)
      /\ ClicksComing(ops) = ClicksComing(rest) + ClicksIn(op)
      /\ NoMove(rest) <=> NoMove(ops)
  BY <1>1, MailRemoved
<1>3. InOrder(x) /\ AllClicks(x) \in Nat /\ ClicksComing(rest) \in Nat
  BY <1>2, AllClicksIs, MailCounted DEF Tally
<1>4. CASE op.type = "notice"
  <2>1. /\ InOrder(r) /\ (r.requested <=> x.requested)
        /\ HasNotice(r) /\ (tracking.impression => (HasImpression(r) <=> HasImpression(x)))
        /\ AllClicks(r) = AllClicks(x)
    BY <1>3, <1>4, NoticeInOrder DEF TakenAs
  <2>2. AddsUp(r, rest, came)
    BY <1>2, <1>3, <1>4, <2>1 DEF Tally, AddsUp, NoticeIn, ImpressionIn, ClicksIn
  <2> QED  BY <1>2, <2>1, <2>2 DEF Tally
<1>5. CASE op.type = "impression"
  <2>1. CASE r = ImpressionOn(x)
    <3>1. /\ InOrder(r) /\ SameRequest(x, r)
          /\ (HasNotice(r) <=> HasNotice(x)) /\ HasImpression(r)
          /\ AllClicks(r) = AllClicks(x)
      BY <1>3, <2>1, ImpressionInOrder
    <3>2. AddsUp(r, rest, came)
      BY <1>2, <1>3, <1>5, <3>1 DEF Tally, AddsUp, NoticeIn, ImpressionIn, ClicksIn
    <3> QED  BY <1>2, <3>1, <3>2 DEF Tally, SameRequest
  <2>2. CASE r = Repeated(x) /\ ~NoMove(ops)
    <3>1. InOrder(r) /\ SameCome(x, r) /\ (r.requested <=> x.requested)
      BY <1>3, <2>2, RepeatedInOrder
    <3>2. ImpressionComing(rest)
      BY <1>2, <2>2 DEF NoMove, ImpressionComing, ImpressionIn
    <3>3. AddsUp(r, rest, came)
      BY <1>2, <1>3, <1>5, <3>1, <3>2
         DEF Tally, AddsUp, NoticeIn, ImpressionIn, ClicksIn, SameCome
    <3> QED  BY <1>2, <3>1, <3>3 DEF Tally
  <2> QED  BY <1>5, <2>1, <2>2
<1>6. CASE op.type = "click"
  <2>1. /\ InOrder(r) /\ SameRequest(x, r)
        /\ (HasNotice(r) <=> HasNotice(x)) /\ (HasImpression(r) <=> HasImpression(x))
        /\ AllClicks(r) = AllClicks(x) + 1
    BY <1>3, <1>6, ClickInOrder DEF TakenAs
  <2>2. AddsUp(r, rest, came)
    BY <1>2, <1>3, <1>6, <2>1 DEF Tally, AddsUp, NoticeIn, ImpressionIn, ClicksIn
  <2> QED  BY <1>2, <2>1, <2>2 DEF Tally, SameRequest
<1>7. CASE op.type = "action"
  <2>1. InOrder(r) /\ SameCome(x, r) /\ SameRequest(x, r)
    BY <1>3, <1>7, ActionsInOrder DEF TakenAs
  <2>2. AddsUp(r, rest, came)
    BY <1>2, <1>3, <1>7, <2>1
       DEF Tally, AddsUp, NoticeIn, ImpressionIn, ClicksIn, SameCome
  <2> QED  BY <1>2, <2>1, <2>2 DEF Tally, SameRequest
<1>8. CASE op.type = "post"
  <2>1. {op.arg} \in SUBSET PostAction
    BY <1>8 DEF OpsOK, OpOK
  <2>2. InOrder(r) /\ SameCome(x, r) /\ SameRequest(x, r)
    BY <1>3, <1>8, <2>1, NamesInOrder DEF TakenAs
  <2>3. AddsUp(r, rest, came)
    BY <1>2, <1>3, <1>8, <2>2
       DEF Tally, AddsUp, NoticeIn, ImpressionIn, ClicksIn, SameCome
  <2> QED  BY <1>2, <2>2, <2>3 DEF Tally, SameRequest
<1> QED  BY <1>4, <1>5, <1>6, <1>7, <1>8 DEF TakenAs

(* The request leaves with what its profile has; where it goes nothing has *)
(* come yet.                                                               *)
LEMMA LeaveTally ==
    ASSUME NEW x, NEW ops, OpsOK(ops), IsFiniteSet(DOMAIN ops), NEW came, NEW new, NEW record,
           Tally(x, ops, came), Grown(came, new, record),
           record \in {"request", "impression", "foreign"}, new["foreign"] > 0,
           ~x.shown, NEW op, OpOK(op), op.type = "change", op \notin DOMAIN ops,
           NoticeIn(op) <=> HasNotice(x), ClicksIn(op) = x.clicks,
           NEW more, more = BagAdd(ops, op),
           NEW y, y \in Sheets, ~y.requested, ~y.noticed, ~y.early, ~y.shown, y.waiting = 0,
           ~y.clicked, y.clicks = 0, y.clickedAgain = x.clickedAgain
    PROVE  Tally(y, more, new)
<1>1. /\ NoticeComing(more) <=> NoticeComing(ops) \/ NoticeIn(op)
      /\ ImpressionComing(more) <=> ImpressionComing(ops) \/ ImpressionIn(op)
      /\ ClicksComing(more) = ClicksComing(ops) + ClicksIn(op)
      /\ NoMove(more) <=> NoMove(ops) /\ op.type # "change"
  BY MailAdded
<1>2. x.clickedAgain = 0 /\ ~x.clicked /\ x.clicks \in Nat
  <2>1. x.clickedAgain \in Nat
    BY DEF Tally, InOrder, Sheets
  <2> QED  BY <2>1 DEF Tally, InOrder, Sheets
<1>3. InOrder(y)
  BY <1>2 DEF InOrder
<1>4. ~HasNotice(y) /\ ~HasImpression(y) /\ AllClicks(y) = 0 /\ AllClicks(x) = x.clicks
  BY <1>2 DEF HasNotice, HasImpression, AllClicks
<1>5. new["notice"] = came["notice"] /\ new["click"] = came["click"]
  BY GrownIs
<1>6. new["impression"] \in Nat /\ new["foreign"] \in Nat
  BY CameIs DEF Grown
<1>7. ClicksComing(ops) \in Nat
  BY MailCounted
<1>8. AddsUp(y, more, new)
  <2>1. tracking.notice => (new["notice"] > 0 <=> HasNotice(y) \/ NoticeComing(more))
    BY <1>1, <1>4, <1>5 DEF Tally, AddsUp
  <2>2. new["impression"] + new["foreign"] > 0 /\ ImpressionComing(more)
    BY <1>1, <1>6 DEF ImpressionIn
  <2>3. new["click"] = AllClicks(y) + ClicksComing(more)
    BY <1>1, <1>2, <1>4, <1>5, <1>7 DEF Tally, AddsUp
  <2> QED  BY <2>1, <2>2, <2>3 DEF AddsUp
<1> QED  BY <1>1, <1>3, <1>8 DEF Tally

(* The request is taken anew, with what has overtaken it.                  *)
LEMMA SettleTally ==
    ASSUME NEW x, NEW ops, OpsOK(ops), IsFiniteSet(DOMAIN ops), NEW came,
           Tally(x, ops, came), came["foreign"] > 0, tracking.impression,
           NEW op \in DOMAIN ops, op.type = "change", ops[op] = 1, ~x.requested,
           NEW rest, rest = BagRemove(ops, op), NEW y, Blank(y), NEW waits,
           waits.notice <=> NoticeIn(op) \/ x.early, waits.clicks = ClicksIn(op) + x.clicks,
           waits.impressions \in Nat, waits.actions \in Nat,
           NEW names \in SUBSET PostAction, NEW r, r = ChangeOn(y, waits, names)
    PROVE  Tally(r, rest, came)
<1>1. /\ OpsOK(rest) /\ IsFiniteSet(DOMAIN rest)
      /\ NoticeComing(ops) <=> NoticeComing(rest) \/ NoticeIn(op)
      /\ ImpressionComing(ops) <=> ImpressionComing(rest) \/ ImpressionIn(op)
      /\ ClicksComing(ops) = ClicksComing(rest) + ClicksIn(op)
  BY MailRemoved
<1>2. ClicksComing(rest) \in Nat
  BY <1>1, MailCounted
<1>3. ~x.noticed /\ ~x.clicked /\ x.clickedAgain = 0 /\ x.clicks \in Nat
  <2>1. x.clickedAgain \in Nat
    BY DEF Tally, InOrder, Sheets
  <2> QED  BY <2>1 DEF Tally, InOrder, Sheets
<1>4. (HasNotice(x) <=> x.early) /\ AllClicks(x) = x.clicks
  BY <1>3 DEF HasNotice, AllClicks
<1>5. ClicksIn(op) \in Nat
  BY ClicksInIs DEF OpsOK
<1>6. waits.clicks \in Nat
  BY <1>3, <1>5
<1>7. /\ InOrder(r) /\ r.requested /\ HasImpression(r) /\ AllClicks(r) = waits.clicks
      /\ tracking.notice => (HasNotice(r) <=> waits.notice)
  BY <1>6, ChangeInOrder
<1>8. AddsUp(r, rest, came)
  <2>1. tracking.notice => (came["notice"] > 0 <=> HasNotice(r) \/ NoticeComing(rest))
    BY <1>1, <1>4, <1>7 DEF Tally, AddsUp
  <2>2. came["impression"] + came["foreign"] > 0
    BY <1>1 DEF Tally, AddsUp, ImpressionIn
  <2>3. came["click"] = AllClicks(r) + ClicksComing(rest)
    BY <1>1, <1>2, <1>3, <1>4, <1>5, <1>7 DEF Tally, AddsUp
  <2> QED  BY <1>7, <2>1, <2>2, <2>3 DEF AddsUp
<1> QED  BY <1>7, <1>8 DEF Tally

(* Where the records of the request meet: with the owner it came to until  *)
(* it leaves, then with the owner of the user it left for.                 *)
HasLeft == Moved(profile[Entry])
Place == IF HasLeft THEN home[profile[Entry].user_id] ELSE Entry
Now == Sheet(Base(At(Place)))

(* All that is on its way goes there, nobody else has a profile of it, and *)
(* once away from the owner it came to it does not leave again.            *)
PlacesInv ==
    /\ \A op \in DOMAIN operations : home[op.user] = Place
    /\ \A o \in Owner : o # Entry /\ o # Place => profile[o] = Nothing
    /\ HasLeft => arrived["request"] > 0
    /\ arrived["foreign"] > 0 => tracking.impression
    /\ ~Together(home) =>
         /\ ~HasLeft => DOMAIN operations = {}
         /\ ~HasLeft /\ Active(profile[Entry]) => profile[Entry].user_id = RequestUser
         /\ HasLeft => profile[Entry].user_id # RequestUser /\ ~Moved(profile[Place])

LEMMA HomeIs ==
    ASSUME Typed
    PROVE  /\ home \in [User -> Owner] /\ home[RequestUser] = Entry
           /\ Entry \in Owner /\ RequestUser \in User
BY OwnerAssumption DEF Typed

LEMMA PlaceIs ==
    ASSUME Typed
    PROVE  /\ Place \in Owner /\ (HasLeft => profile[Entry].user_id \in User)
           /\ (Together(home) => Place = Entry)
<1>1. HasLeft => profile[Entry].user_id \in User
  BY HomeIs DEF Typed, WellFormed, HasLeft, Moved
<1> QED  BY <1>1, HomeIs DEF Place, Together

LEMMA Away ==
    ASSUME Typed, PlacesInv, OwnersMeet
    PROVE  /\ HasLeft /\ ~Together(home) => Place # Entry
           /\ Place # Entry => HasLeft /\ ~Together(home) /\ ~Moved(profile[Place])
<1>1. Together(home) \/ \A user \in User \ {RequestUser} : home[user] # Entry
  BY DEF Typed, OwnersMeet
<1>2. HasLeft /\ ~Together(home) => Place # Entry
  BY <1>1, PlaceIs DEF PlacesInv, Place
<1>3. Place # Entry => HasLeft /\ ~Together(home)
  BY PlaceIs DEF Place
<1> QED  BY <1>2, <1>3 DEF PlacesInv

(* The sheet depends on the profile and on what was told.                  *)
LEMMA SheetOfBase ==
    ASSUME NEW s, NEW r, r.p = s.p, r.told = s.told
    PROVE  Sheet(Base(r)) = Sheet(Base(s))
BY DEF Sheet, Base

LEMMA NowIs ==
    ASSUME NEW r, profile'[Place'] = r.p, told' = r.told
    PROVE  Now' = Sheet(Base(r))
BY DEF Now, At, Sheet, Base

LEMMA NowOpen ==
    ASSUME NEW r, Ready(r), profile'[Place'] = r.p, told' = r.told
    PROVE  Now' = Sheet(r)
<1>1. Opened(r.p) = r.p
  BY TrackingFlags DEF Opened
<1>2. Sheet(Base(r)) = Sheet(r)
  BY <1>1 DEF Sheet, Base
<1> QED  BY <1>2, NowIs

(* A transaction where the request is, that leaves a profile there.        *)
LEMMA PlaceKept ==
    ASSUME Typed, PlacesInv, OwnersMeet, NEW r, SaveProfile(Place, r), r.p # Nothing, ~Moved(r.p),
           DOMAIN r.operations \subseteq DOMAIN operations, UNCHANGED <<home, tracking>>,
           arrived["request"] > 0 => arrived'["request"] > 0,
           arrived'["foreign"] > 0 => tracking.impression,
           ~Together(home) /\ ~HasLeft /\ Active(r.p) => r.p.user_id = RequestUser
    PROVE  PlacesInv' /\ profile'[Place'] = r.p /\ told' = r.told /\ operations' = r.operations
<1>1. Place \in Owner /\ Entry \in Owner
  BY PlaceIs, HomeIs
<1>2. /\ profile'[Place] = r.p /\ \A x \in Owner : x # Place => profile'[x] = profile[x]
      /\ told' = r.told /\ operations' = r.operations
  BY <1>1, PutProfile
<1>3. home' = home /\ tracking' = tracking
  OBVIOUS
<1>4. CASE Place = Entry
  <2>1. ~HasLeft' /\ Place' = Entry
    BY <1>2, <1>4 DEF HasLeft, Place
  <2>2. \A op \in DOMAIN operations' : home'[op.user] = Entry
    BY <1>2, <1>3, <1>4 DEF PlacesInv
  <2>3. ~Together(home) => ~HasLeft
    BY <1>4, Away
  <2>4. ~Together(home) => DOMAIN operations' = {}
    BY <1>2, <2>3 DEF PlacesInv
  <2>5. ~Together(home) /\ Active(profile'[Entry]) => profile'[Entry].user_id = RequestUser
    BY <1>2, <1>4, <2>3
  <2>6. \A o \in Owner : o # Entry => profile'[o] = Nothing
    BY <1>2, <1>4 DEF PlacesInv
  <2>7. arrived'["foreign"] > 0 => tracking'.impression
    BY <1>3
  <2> QED  BY <1>2, <1>3, <1>4, <2>1, <2>2, <2>4, <2>5, <2>6, <2>7 DEF PlacesInv
<1>5. CASE Place # Entry
  <2>1. HasLeft /\ ~Together(home)
    BY <1>5, Away
  <2>2. profile'[Entry] = profile[Entry] /\ HasLeft' /\ Place' = Place
    BY <1>1, <1>2, <1>3, <1>5, <2>1 DEF HasLeft, Place
  <2>3. \A op \in DOMAIN operations' : home'[op.user] = Place'
    BY <1>2, <1>3, <2>2 DEF PlacesInv
  <2>4. \A o \in Owner : o # Entry /\ o # Place => profile'[o] = Nothing
    BY <1>2 DEF PlacesInv
  <2>5. arrived'["request"] > 0
    BY <2>1 DEF PlacesInv
  <2>6. profile'[Entry].user_id # RequestUser /\ ~Moved(profile'[Place'])
    BY <1>2, <2>1, <2>2 DEF PlacesInv
  <2>7. arrived'["foreign"] > 0 => tracking'.impression
    BY <1>3
  <2> QED  BY <1>2, <1>3, <2>2, <2>3, <2>4, <2>5, <2>6, <2>7 DEF PlacesInv
<1> QED  BY <1>4, <1>5

(* A transaction that leaves the profiles as they are; what it hands on    *)
(* goes where the request is.                                              *)
LEMMA PlaceSame ==
    ASSUME Typed, PlacesInv, OwnersMeet, NEW o \in Owner, NEW r, SaveProfile(o, r),
           r.p = profile[o],
           \A op \in DOMAIN r.operations : op \in DOMAIN operations \/ (HasLeft /\ home[op.user] = Place),
           UNCHANGED <<home, tracking>>,
           arrived["request"] > 0 => arrived'["request"] > 0,
           arrived'["foreign"] > 0 => tracking.impression
    PROVE  /\ PlacesInv' /\ Place' = Place /\ profile'[Place] = profile[Place]
           /\ told' = r.told /\ operations' = r.operations
<1>1. Place \in Owner /\ Entry \in Owner
  BY PlaceIs, HomeIs
<1>2. /\ \A x \in Owner : profile'[x] = profile[x]
      /\ told' = r.told /\ operations' = r.operations
  BY PutProfile
<1>3. home' = home /\ tracking' = tracking
  OBVIOUS
<1>4. (HasLeft' <=> HasLeft) /\ Place' = Place /\ profile'[Entry] = profile[Entry]
      /\ profile'[Place] = profile[Place]
  BY <1>1, <1>2, <1>3 DEF HasLeft, Place
<1>5. \A op \in DOMAIN operations' : home'[op.user] = Place'
  BY <1>2, <1>3, <1>4 DEF PlacesInv
<1>6. ~HasLeft => DOMAIN operations' \subseteq DOMAIN operations
  BY <1>2
<1>7. arrived'["foreign"] > 0 => tracking'.impression
  BY <1>3
<1>8. \A x \in Owner : x # Entry /\ x # Place' => profile'[x] = Nothing
  BY <1>2, <1>4 DEF PlacesInv
<1>9. ~Together(home') =>
         /\ ~HasLeft' => DOMAIN operations' = {}
         /\ ~HasLeft' /\ Active(profile'[Entry]) => profile'[Entry].user_id = RequestUser
         /\ HasLeft' => profile'[Entry].user_id # RequestUser /\ ~Moved(profile'[Place'])
  BY <1>3, <1>4, <1>6 DEF PlacesInv
<1>10. HasLeft' => arrived'["request"] > 0
  BY <1>4 DEF PlacesInv
<1> QED  BY <1>2, <1>4, <1>5, <1>7, <1>8, <1>9, <1>10 DEF PlacesInv

(* The request leaves the owner it came to.                                *)
LEMMA PlaceLeft ==
    ASSUME Typed, PlacesInv, OwnersMeet, ~HasLeft, NEW r, SaveProfile(Entry, r), Moved(r.p),
           r.p.user_id \in User, NEW op, op.user = r.p.user_id,
           DOMAIN r.operations = DOMAIN operations \cup {op},
           UNCHANGED <<home, tracking>>, arrived'["request"] > 0,
           arrived'["foreign"] > 0 => tracking.impression,
           ~Together(home) => r.p.user_id # RequestUser
    PROVE  /\ PlacesInv' /\ Opened(profile'[Place']) = Stub
           /\ told' = r.told /\ operations' = r.operations
<1>1. Place = Entry /\ Entry \in Owner /\ home \in [User -> Owner]
  BY HomeIs DEF Place
<1>2. /\ profile'[Entry] = r.p /\ \A x \in Owner : x # Entry => profile'[x] = profile[x]
      /\ told' = r.told /\ operations' = r.operations
  BY <1>1, PutProfile
<1>3. home' = home /\ tracking' = tracking
  OBVIOUS
<1>4. HasLeft' /\ Place' = home[r.p.user_id] /\ Place' \in Owner
  BY <1>1, <1>2, <1>3 DEF HasLeft, Place
<1>5. \A x \in Owner : x # Entry => profile'[x] = Nothing
  BY <1>1, <1>2 DEF PlacesInv
<1>6. CASE Together(home)
  <2>1. Place' = Entry
    BY <1>4, <1>6 DEF Together
  <2>2. \A x \in DOMAIN operations' : home'[x.user] = Place'
    BY <1>1, <1>2, <1>3, <1>4 DEF PlacesInv, Together
  <2>3. arrived'["foreign"] > 0 => tracking'.impression
    BY <1>3
  <2>4. Opened(profile'[Place']) = Stub
    BY <1>2, <2>1 DEF Opened
  <2> QED  BY <1>2, <1>3, <1>5, <1>6, <2>1, <2>2, <2>3, <2>4 DEF PlacesInv
<1>7. CASE ~Together(home)
  <2>1. Place' # Entry
    <3>1. \A user \in User \ {RequestUser} : home[user] # Entry
      BY <1>7 DEF Typed, OwnersMeet
    <3> QED  BY <1>4, <1>7, <3>1
  <2>2. profile'[Place'] = Nothing
    BY <1>4, <1>5, <2>1
  <2>3. \A x \in DOMAIN operations' : home'[x.user] = Place'
    BY <1>2, <1>3, <1>4, <1>7 DEF PlacesInv
  <2>4. arrived'["foreign"] > 0 => tracking'.impression
    BY <1>3
  <2>5. Opened(profile'[Place']) = Stub /\ ~Moved(profile'[Place'])
    BY <2>2 DEF Opened, Moved
  <2> QED  BY <1>2, <1>3, <1>4, <1>5, <1>7, <2>2, <2>3, <2>4, <2>5 DEF PlacesInv
<1> QED  BY <1>6, <1>7

(* What the operation for a move carries.                                  *)
Carries(s, r, op) ==
    /\ OpOK(op) /\ op.type = "change" /\ ~op.arg.click_done
    /\ op.user = r.p.user_id /\ r.p.user_id \in User
    /\ Moved(r.p) /\ Sound(r) /\ r.operations = BagAdd(s.operations, op)
    /\ NoticeIn(op) <=> HasNotice(Sheet(s))
    /\ ClicksIn(op) = Sheet(s).clicks
    /\ r.told["click"]["duplicate"] = Sheet(s).clickedAgain

LEMMA DepartCarries ==
    ASSUME NEW s, Ready(s), NEW user \in User \cup {Nothing}, NEW moveable,
           Leaves(s, user, moveable), NEW r, r = ProcessImpression(s, user, moveable)
    PROVE  Carries(s, r, Op("change", user, r.p)) /\ r.p.user_id = user
<1>1. /\ s = [p |-> s.p, told |-> s.told, operations |-> s.operations] /\ s.p \in Profile
      /\ s.told \in Tolds /\ s.p # Nothing /\ ~Moved(s.p)
  BY TrackingFlags DEF IsStore
<1> DEFINE q == [s.p EXCEPT !.fraud = "moved", !.user_id = user, !.request_done = FALSE]
           ops == BagAdd(s.operations, Op("change", user, q))
           c == [p |-> q, told |-> s.told, operations |-> ops]
<1>2. ~s.p.impression_verified /\ ~s.p.click_done /\ user \in User
  BY DEF Leaves, Ready, WellFormed
<1>3. /\ q \in Profile /\ q.fraud = "moved" /\ q.user_id = user /\ ~q.click_done
      /\ (q.notice_received <=> s.p.notice_received)
      /\ (q.notice_non_considered <=> s.p.notice_non_considered)
      /\ q.click_non_considered = s.p.click_non_considered
  BY <1>1, <1>2 DEF Profile
<1>4. [s EXCEPT !.p = q, !.operations = BagAdd(@, Op("change", user, q))] = c
  <2> DEFINE d == [s EXCEPT !.p = q, !.operations = BagAdd(@, Op("change", user, q))]
  <2>1. d = [s EXCEPT !.p = q, !.operations = BagAdd(@, Op("change", user, q))]
    OBVIOUS
  <2> HIDE DEF d, q
  <2>2. d = [p |-> q, told |-> s.told, operations |-> BagAdd(s.operations, Op("change", user, q))]
    BY <1>1, <2>1
  <2> QED  BY <2>2 DEF d
<1>5. r = TellTimes(c, "request", "moved", 1)
  <2>1. r = MoveByImpression(s, user)
    BY <1>1, <1>2 DEF ProcessImpression, Leaves
  <2> QED  BY <1>4, <2>1 DEF MoveByImpression, Tell
<1> HIDE DEF q
<1>6. IsStore(c) /\ c.p = q /\ c.told = s.told /\ c.operations = ops
  BY <1>1 DEF IsStore
<1> HIDE DEF c
<1>7. "request" \in Kind /\ "moved" \in State /\ "click" \in Kind /\ "duplicate" \in State
  BY DEF Kind, State
<1>8. IsStore(r) /\ r.p = q /\ r.operations = ops
  BY <1>5, <1>6, <1>7, TellTimesResult
<1>9. r.told["click"]["duplicate"] = s.told["click"]["duplicate"]
  BY <1>5, <1>6, <1>7, TellTimesResult
<1>10. WellFormed(r.p)
  BY MoveByImpressionResult
<1> DEFINE op == Op("change", user, r.p)
<1>11. op.type = "change" /\ op.user = user /\ op.arg = q /\ OpOK(op)
  BY <1>2, <1>3, <1>8 DEF Op, OpOK
<1>12. Moved(r.p) /\ Sound(r) /\ r.p.user_id = user /\ r.operations = BagAdd(s.operations, op)
  <2>1. r.p # Nothing
    BY <1>3, <1>8, ProfileAssumption
  <2> QED  BY <1>3, <1>8, <1>10, <2>1 DEF Moved, Sound
<1> HIDE DEF op
<1>13. NoticeIn(op) <=> HasNotice(Sheet(s))
  BY <1>3, <1>11 DEF NoticeIn, HasNotice, Sheet
<1>14. ClicksIn(op) = Sheet(s).clicks /\ r.told["click"]["duplicate"] = Sheet(s).clickedAgain
  BY <1>3, <1>9, <1>11 DEF ClicksIn, Sheet
<1> QED  BY <1>2, <1>3, <1>11, <1>12, <1>13, <1>14 DEF Carries, op

LEMMA MoveAwayCarries ==
    ASSUME NEW s, Ready(s), ~s.p.request_done, s.p.user_id \in User,
           NEW r, r = MoveByRequest(s)
    PROVE  \E op : Carries(s, r, op) /\ r.p.user_id = s.p.user_id
<1>1. /\ s = [p |-> s.p, told |-> s.told, operations |-> s.operations] /\ s.p \in Profile
      /\ s.told \in Tolds
  BY TrackingFlags DEF IsStore
<1> DEFINE q == [s.p EXCEPT !.request_done = TRUE, !.fraud = "normal"]
           m == [q EXCEPT !.fraud = "moved"]
           op == Op("change", q.user_id, q)
<1>2. ~s.p.impression_verified /\ ~s.p.click_done
  BY DEF Ready, WellFormed
<1>3. /\ q \in Profile /\ q.user_id = s.p.user_id /\ ~q.click_done
      /\ (q.notice_received <=> s.p.notice_received)
      /\ (q.notice_non_considered <=> s.p.notice_non_considered)
      /\ q.click_non_considered = s.p.click_non_considered
  BY <1>1, <1>2 DEF Profile
<1>4. /\ m \in Profile /\ m.user_id = s.p.user_id /\ m.fraud = "moved"
  BY <1>1, <1>2 DEF Profile
<1>5. r = [p |-> m, told |-> s.told, operations |-> BagAdd(s.operations, op)]
  <2>1. r = [s EXCEPT !.p = m, !.operations = BagAdd(@, op)]
    BY DEF MoveByRequest
  <2> HIDE DEF m, q, op
  <2> QED  BY <1>1, <2>1
<1> HIDE DEF m, q
<1>6. IsStore(r) /\ r.told = s.told /\ r.p = m /\ r.operations = BagAdd(s.operations, op)
  BY <1>1, <1>5 DEF IsStore
<1>7. WellFormed(r.p)
  BY MoveByRequestResult
<1>8. op.type = "change" /\ op.user = s.p.user_id /\ op.arg = q /\ OpOK(op)
  BY <1>3 DEF Op, OpOK
<1>9. Moved(r.p) /\ Sound(r) /\ r.p.user_id = s.p.user_id
  <2>1. r.p # Nothing
    BY <1>4, <1>6, ProfileAssumption
  <2> QED  BY <1>4, <1>6, <1>7, <2>1 DEF Moved, Sound
<1> HIDE DEF op
<1>10. NoticeIn(op) <=> HasNotice(Sheet(s))
  BY <1>3, <1>8 DEF NoticeIn, HasNotice, Sheet
<1>11. ClicksIn(op) = Sheet(s).clicks /\ r.told["click"]["duplicate"] = Sheet(s).clickedAgain
  BY <1>3, <1>6, <1>8 DEF ClicksIn, Sheet
<1>12. Carries(s, r, op)
  BY <1>3, <1>6, <1>8, <1>9, <1>10, <1>11 DEF Carries
<1> QED  BY <1>9, <1>12

(* A rollback leaves the sheet as it is.                                   *)
LEMMA RollbackSheet ==
    ASSUME NEW s, Ready(s), s.p.impression_verified, s.p.fraud = "normal",
           NEW r, r = ProcessFraudRollback(s)
    PROVE  Sheet(r) = Sheet(s)
<1>1. /\ s = [p |-> s.p, told |-> s.told, operations |-> s.operations] /\ s.p \in Profile
      /\ s.told \in Tolds /\ s.p # Nothing
  BY TrackingFlags DEF IsStore
<1>2. s.p.request_done /\ s.p.notice_received
  BY DEF Ready, WellFormed
<1> DEFINE a == TellTimes(s, "request", "fraud", 1)
           b == TellTimes(a, "impression", "fraud", 1)
           c == IF s.p.click_done THEN TellTimes(b, "click", "fraud", 1) ELSE b
           q == [s.p EXCEPT !.fraud = "fraud"]
<1>3. r = [c EXCEPT !.p.fraud = "fraud"]
  BY <1>1, <1>2 DEF ProcessFraudRollback, TellIf, Tell
<1>4. "request" \in Kind /\ "impression" \in Kind /\ "click" \in Kind /\ "fraud" \in State
      /\ "request" \in Bookable /\ "impression" \in Bookable /\ "click" \in Bookable
  BY DEF Kind, State, Bookable
<1>5. IsStore(a) /\ a.p = s.p /\ a.operations = s.operations
  BY <1>1, <1>4, TellTimesResult DEF IsStore
<1>6. Sheet(a) = Sheet(s)
  <2>1. IsStore(s)
    BY DEF Ready
  <2> QED  BY <1>1, <1>4, <2>1, TellSheet
<1> HIDE DEF a
<1>7. IsStore(b) /\ b.p = s.p /\ b.operations = s.operations
  BY <1>4, <1>5, TellTimesResult
<1>8. Sheet(b) = Sheet(a)
  BY <1>1, <1>4, <1>5, TellSheet
<1> HIDE DEF b
<1>9. IsStore(c) /\ c.p = s.p /\ c.operations = s.operations
  <2>1. CASE s.p.click_done
    BY <1>4, <1>7, <2>1, TellTimesResult
  <2>2. CASE ~s.p.click_done
    BY <1>7, <2>2
  <2> QED  BY <2>1, <2>2
<1>10. Sheet(c) = Sheet(b)
  <2>1. CASE s.p.click_done
    BY <1>1, <1>4, <1>7, <2>1, TellSheet
  <2>2. CASE ~s.p.click_done
    BY <2>2
  <2> QED  BY <2>1, <2>2
<1> HIDE DEF c
<1>11. r = [p |-> q, told |-> c.told, operations |-> c.operations]
  BY <1>3, <1>9 DEF IsStore
<1>12. Sheet(r) = Sheet(c)
  BY <1>1, <1>9, <1>11 DEF Sheet, Profile
<1> QED  BY <1>6, <1>8, <1>10, <1>12

(* The inductive invariant: what has come is on the sheet of the place or  *)
(* on its way to it.                                                       *)
MeetInv ==
    /\ BooksInv /\ PlacesInv
    /\ IsFiniteSet(DOMAIN operations)
    /\ \A op \in DOMAIN operations : op.type = "change" => ~op.arg.click_done
    /\ Tally(Now, operations, arrived)

LEMMA MeetTyped ==
    ASSUME MeetInv
    PROVE  /\ Typed /\ OpsOK(operations) /\ arrived \in Cames
           /\ Place \in Owner /\ Entry \in Owner
           /\ ~HasLeft => Place = Entry
           /\ Sound(At(Place)) /\ Sound(At(Entry))
           /\ Now = Sheet(Base(At(Place))) /\ InOrder(Now)
<1>1. Typed
  BY DEF MeetInv, BooksInv
<1>2. Place \in Owner /\ Entry \in Owner /\ (~HasLeft => Place = Entry)
  BY <1>1, PlaceIs, HomeIs DEF Place
<1> QED  BY <1>1, <1>2, AtIs DEF Typed, MeetInv, Tally, Now, Cames

(* What is on the sheet and on its way after a step.                       *)
LEMMA TallyNext ==
    ASSUME tracking' = tracking, NEW x, NEW ops, NEW came, Tally(x, ops, came),
           Now' = x, operations' = ops, arrived' = came
    PROVE  Tally(Now, operations, arrived)'
BY DEF Tally, InOrder, AddsUp, Accounts, TellsActions, HasNotice, HasImpression, AllClicks,
       NoticeComing, ImpressionComing, ClicksComing, ClickCopies, NamesCame, NoMove, Sheets

LEMMA Came ==
    ASSUME MeetInv, NEW record \in Record, Arrive(record),
           record = "foreign" => tracking.impression
    PROVE  /\ Grown(arrived, arrived', record) /\ UNCHANGED <<home, tracking>>
           /\ arrived["request"] > 0 => arrived'["request"] > 0
           /\ arrived'["foreign"] > 0 => tracking.impression
<1>1. Grown(arrived, arrived', record) /\ UNCHANGED <<home, tracking>>
  BY MeetTyped, ArriveIs DEF Grown, Cames
<1>2. arrived["foreign"] > 0 => tracking.impression
  BY DEF MeetInv, PlacesInv
<1>3. arrived["request"] \in Nat /\ arrived["foreign"] \in Nat
  BY MeetTyped, CameIs
<1>4. CASE record = "request"
  <2>1. arrived'["request"] = arrived["request"] + 1
    BY <1>1, <1>4 DEF Grown
  <2>2. arrived'["foreign"] = arrived["foreign"]
    BY <1>1, <1>4, GrownIs
  <2> QED  BY <1>1, <1>2, <1>3, <2>1, <2>2
<1>5. CASE record # "request"
  <2>1. arrived'["request"] = arrived["request"]
    BY <1>1, <1>5, GrownIs
  <2>2. record # "foreign" => arrived'["foreign"] = arrived["foreign"]
    BY <1>1, GrownIs
  <2> QED  BY <1>1, <1>2, <1>3, <2>1, <2>2
<1> QED  BY <1>4, <1>5

(* A transaction at the place that leaves a profile there.                 *)
LEMMA MeetKept ==
    ASSUME MeetInv, BooksInv', OwnersMeet, NEW r, SaveProfile(Place, r), Ready(r),
           DOMAIN r.operations \subseteq DOMAIN operations,
           IsFiniteSet(DOMAIN r.operations), UNCHANGED <<home, tracking>>,
           arrived["request"] > 0 => arrived'["request"] > 0,
           arrived'["foreign"] > 0 => tracking.impression,
           ~Together(home) /\ ~HasLeft /\ Active(r.p) => r.p.user_id = RequestUser,
           Tally(Sheet(r), r.operations, arrived')
    PROVE  MeetInv'
<1>1. PlacesInv' /\ profile'[Place'] = r.p /\ told' = r.told /\ operations' = r.operations
  <2>1. Typed /\ PlacesInv
    BY DEF MeetInv, BooksInv
  <2>2. r.p # Nothing /\ ~Moved(r.p)
    BY TrackingFlags
  <2> QED  BY <2>1, <2>2, PlaceKept
<1>2. Now' = Sheet(r)
  BY <1>1, NowOpen
<1>3. Tally(Now, operations, arrived)'
  BY <1>1, <1>2, TallyNext
<1>4. IsFiniteSet(DOMAIN operations)'
  BY <1>1
<1>5. \A op \in DOMAIN operations' : op.type = "change" => ~op.arg.click_done
  BY <1>1 DEF MeetInv
<1> QED  BY <1>1, <1>3, <1>4, <1>5 DEF MeetInv

(* Before it leaves, a record is taken where it comes.                     *)
LEMMA HereRecord ==
    ASSUME MeetInv, BooksInv', OwnersMeet, NEW record \in Record, Arrive(record),
           record = "foreign" => tracking.impression, ~HasLeft,
           NEW r, SaveProfile(Entry, r), Ready(r), r.operations = operations,
           ~Together(home) /\ Active(r.p) => r.p.user_id = RequestUser,
           Tally(Sheet(r), operations, arrived')
    PROVE  MeetInv'
<1>1. Place = Entry
  BY MeetTyped
<1>2. IsFiniteSet(DOMAIN r.operations)
  BY DEF MeetInv
<1> QED  BY <1>1, <1>2, Came, MeetKept

(* The request stays with its user where it came to.                       *)
LEMMA SameUser ==
    ASSUME MeetInv, ~HasLeft, NEW r, Ready(r), ~Together(home),
           r.p.user_id = Base(At(Entry)).p.user_id,
           r.p.request_done = Base(At(Entry)).p.request_done, Active(r.p)
    PROVE  r.p.user_id = RequestUser
<1>1. Base(At(Entry)).p.request_done
  BY DEF Active
<1>2. Base(At(Entry)).p = Opened(profile[Entry])
  BY DEF Base, At
<1>3. profile[Entry] # Nothing /\ ~Moved(profile[Entry])
  BY <1>1, <1>2, StubFormed DEF Opened
<1>4. Active(profile[Entry]) /\ Base(At(Entry)).p = profile[Entry]
  BY <1>1, <1>2, <1>3 DEF Opened, Active, Moved
<1> QED  BY <1>4 DEF MeetInv, PlacesInv

(* Once it has left, a record is handed on.                                *)
LEMMA ForwardRecord ==
    ASSUME MeetInv, BooksInv', OwnersMeet, NEW record \in Record, Arrive(record),
           record = "foreign" => tracking.impression, HasLeft,
           NEW type \in {"notice", "impression", "click", "action", "post"}, NEW arg,
           type = "post" => arg \in PostAction,
           Brings(Op(type, Nothing, arg), record),
           SaveProfile(Entry, Forward(At(Entry), Op(type, Nothing, arg)))
    PROVE  MeetInv'
<1> DEFINE s == At(Entry)
           r == Forward(s, Op(type, Nothing, arg))
           op == Op(type, profile[Entry].user_id, arg)
<1>1. Sound(s) /\ s.p = profile[Entry] /\ s.told = told /\ s.operations = operations
  BY MeetTyped, AtIs
<1>2. Moved(s.p)
  BY <1>1 DEF HasLeft
<1>3. r = [p |-> s.p, told |-> s.told, operations |-> BagAdd(s.operations, op)]
      /\ profile[Entry].user_id \in User
  BY <1>1, <1>2, ForwardResult
<1>4. r.p = profile[Entry] /\ r.told = told /\ r.operations = BagAdd(operations, op)
  BY <1>1, <1>3
<1> HIDE DEF s, r
<1>5. SaveProfile(Entry, r)
  BY DEF r, s
<1>6. /\ op.type = type /\ op.user = profile[Entry].user_id /\ op.arg = arg /\ OpOK(op)
      /\ Brings(op, record)
  BY <1>3 DEF Op, OpOK, Brings
<1>7. home[op.user] = Place
  BY <1>6 DEF Place
<1> HIDE DEF op
<1>8. DOMAIN r.operations = DOMAIN operations \cup {op}
  <2>1. DOMAIN BagAdd(operations, op) = DOMAIN operations \cup {op}
    BY AddedIs
  <2> QED  BY <1>4, <2>1, Zenon
<1>9. /\ PlacesInv' /\ Place' = Place /\ profile'[Place] = profile[Place]
      /\ told' = told /\ operations' = r.operations
  <2>1. Typed /\ PlacesInv /\ Entry \in Owner
    BY MeetTyped DEF MeetInv
  <2>2. \A o \in DOMAIN r.operations : o \in DOMAIN operations \/ (HasLeft /\ home[o.user] = Place)
    BY <1>7, <1>8
  <2> QED  BY <1>4, <1>5, <2>1, <2>2, Came, PlaceSame
<1>10. Now' = Now
  <2>1. At(Place).p = profile[Place] /\ At(Place).told = told
    BY DEF At
  <2> QED  BY <1>9, <2>1, NowIs, MeetTyped
<1>11. arrived["foreign"] > 0
  <2>1. arrived["foreign"] \in Nat
    BY MeetTyped, CameIs
  <2>2. ~Here
    BY <1>1, <1>2, MeetTyped DEF Here, Moved
  <2> QED  BY <2>1, <2>2 DEF MeetInv, BooksInv
<1>12. Tally(Now, r.operations, arrived')
  <2>1. Grown(arrived, arrived', record)
    BY Came
  <2> QED  BY <1>4, <1>6, <1>11, <2>1, MeetTyped, ForwardTally DEF MeetInv
<1>13. Tally(Now, operations, arrived)'
  BY <1>9, <1>10, <1>12, Came, TallyNext
<1>14. IsFiniteSet(DOMAIN operations')
  BY <1>8, <1>9, FS_AddElement DEF MeetInv
<1>15. \A o \in DOMAIN operations' : o.type = "change" => ~o.arg.click_done
  BY <1>6, <1>8, <1>9 DEF MeetInv
<1> QED  BY <1>9, <1>13, <1>14, <1>15 DEF MeetInv

LEMMA HereFollows ==
    ASSUME MeetInv, BooksInv', OwnersMeet, NEW record \in Record, Arrive(record),
           record = "foreign" => tracking.impression, ~HasLeft,
           NEW r, SaveProfile(Entry, r), Follows(Base(At(Entry)), r),
           r.p.user_id = Base(At(Entry)).p.user_id,
           r.p.request_done = Base(At(Entry)).p.request_done,
           Tally(Sheet(r), operations, arrived')
    PROVE  MeetInv'
<1>1. Ready(r) /\ r.operations = operations
  BY DEF Follows, Base, At
<1>2. ~Together(home) /\ Active(r.p) => r.p.user_id = RequestUser
  BY <1>1, SameUser
<1> QED  BY <1>1, <1>2, HereRecord

LEMMA NoticeMeets ==
    ASSUME MeetInv, BooksInv', OwnersMeet, Notice
    PROVE  MeetInv'
<1> DEFINE m == TRUE
           s == At(Entry)
           r == ProcessNotice(s, m)
<1>1. Arrive("notice") /\ SaveProfile(Entry, r) /\ "notice" \in Record
  BY DEF Notice, Record
<1>2. Sound(s) /\ s.p = profile[Entry]
  BY MeetTyped DEF At
<1>3. CASE HasLeft
  <2>1. r = Forward(s, Op("notice", Nothing, Nothing))
    BY <1>2, <1>3 DEF ProcessNotice, HasLeft
  <2>2. Brings(Op("notice", Nothing, Nothing), "notice")
    BY DEF Brings, Op
  <2> QED  BY <1>1, <1>3, <2>1, <2>2, ForwardRecord
<1>4. CASE ~HasLeft
  <2> HIDE DEF m
  <2>1. ~(Moved(s.p) /\ m)
    BY <1>2, <1>4 DEF HasLeft
  <2>2. /\ Follows(Base(s), r) /\ r.p.user_id = Base(s).p.user_id
        /\ r.p.request_done = Base(s).p.request_done
    BY <1>2, <2>1, NoticeAt
  <2>3. Sheet(r) = NoticeOn(Now)
    <3>1. Sheet(r) = NoticeOn(Sheet(Base(s)))
      BY <1>2, <2>1, NoticeAtSheet
    <3> QED  BY <1>4, <3>1, MeetTyped
  <2> HIDE DEF r
  <2>4. Tally(Sheet(r), operations, arrived')
    BY <1>1, <2>3, Came, NoticeTally DEF MeetInv
  <2> QED  BY <1>1, <1>4, <2>2, <2>4, HereFollows
<1> QED  BY <1>3, <1>4

LEMMA ClickMeets ==
    ASSUME MeetInv, BooksInv', OwnersMeet, Click
    PROVE  MeetInv'
<1> DEFINE m == TRUE
           s == At(Entry)
           r == ProcessClick(s, m)
<1>1. Arrive("click") /\ SaveProfile(Entry, r) /\ "click" \in Record
  BY DEF Click, Record
<1>2. Sound(s) /\ s.p = profile[Entry]
  BY MeetTyped DEF At
<1>3. CASE HasLeft
  <2>1. r = Forward(s, Op("click", Nothing, Nothing))
    BY <1>2, <1>3 DEF ProcessClick, HasLeft
  <2>2. Brings(Op("click", Nothing, Nothing), "click")
    BY DEF Brings, Op
  <2> QED  BY <1>1, <1>3, <2>1, <2>2, ForwardRecord
<1>4. CASE ~HasLeft
  <2> HIDE DEF m
  <2>1. ~(Moved(s.p) /\ m)
    BY <1>2, <1>4 DEF HasLeft
  <2>2. /\ Follows(Base(s), r) /\ r.p.user_id = Base(s).p.user_id
        /\ r.p.request_done = Base(s).p.request_done
    BY <1>2, <2>1, ClickAt
  <2>3. Sheet(r) = ClickOn(Now)
    <3>1. Sheet(r) = ClickOn(Sheet(Base(s)))
      BY <1>2, <2>1, ClickAtSheet
    <3> QED  BY <1>4, <3>1, MeetTyped
  <2> HIDE DEF r
  <2>4. Tally(Sheet(r), operations, arrived')
    <3>1. Grown(arrived, arrived', "click")
      BY <1>1, Came
    <3> QED  BY <2>3, <3>1, MeetTyped, ClickTally DEF MeetInv
  <2> QED  BY <1>1, <1>4, <2>2, <2>4, HereFollows
<1> QED  BY <1>3, <1>4

LEMMA ActionMeets ==
    ASSUME MeetInv, BooksInv', OwnersMeet, Action
    PROVE  MeetInv'
<1> DEFINE m == TRUE
           s == At(Entry)
           r == ProcessAction(s, m)
<1>1. Arrive("action") /\ SaveProfile(Entry, r) /\ "action" \in Record
  BY DEF Action, Record
<1>2. Sound(s) /\ s.p = profile[Entry]
  BY MeetTyped DEF At
<1>3. CASE HasLeft
  <2>1. r = Forward(s, Op("action", Nothing, Nothing))
    BY <1>2, <1>3 DEF ProcessAction, HasLeft
  <2>2. Brings(Op("action", Nothing, Nothing), "action")
    BY DEF Brings, Op
  <2> QED  BY <1>1, <1>3, <2>1, <2>2, ForwardRecord
<1>4. CASE ~HasLeft
  <2> HIDE DEF m
  <2>1. ~(Moved(s.p) /\ m)
    BY <1>2, <1>4 DEF HasLeft
  <2>2. /\ Follows(Base(s), r) /\ r.p.user_id = Base(s).p.user_id
        /\ r.p.request_done = Base(s).p.request_done
    BY <1>2, <2>1, ActionAt
  <2>3. Sheet(r) = ActionsOn(Now, 1)
    <3>1. Sheet(r) = ActionsOn(Sheet(Base(s)), 1)
      BY <1>2, <2>1, ActionAtSheet
    <3> QED  BY <1>4, <3>1, MeetTyped
  <2> HIDE DEF r
  <2>4. Tally(Sheet(r), operations, arrived')
    BY <1>1, <2>3, Came, ActionTally DEF MeetInv
  <2> QED  BY <1>1, <1>4, <2>2, <2>4, HereFollows
<1> QED  BY <1>3, <1>4

LEMMA PostMeets ==
    ASSUME MeetInv, BooksInv', OwnersMeet, Post
    PROVE  MeetInv'
<1> PICK name \in PostAction :
        Arrive(name) /\ SaveProfile(Entry, ProcessPostAction(At(Entry), name, TRUE))
  BY DEF Post
<1> DEFINE m == TRUE
           s == At(Entry)
           r == ProcessPostAction(s, name, m)
<1>1. Arrive(name) /\ SaveProfile(Entry, r) /\ name \in Record /\ name # "foreign"
  BY NameIsNoOther DEF Record
<1>2. Sound(s) /\ s.p = profile[Entry]
  BY MeetTyped DEF At
<1>3. CASE HasLeft
  <2>1. r = Forward(s, Op("post", Nothing, name))
    BY <1>2, <1>3 DEF ProcessPostAction, HasLeft
  <2>2. Brings(Op("post", Nothing, name), name)
    BY DEF Brings, Op
  <2> QED  BY <1>1, <1>3, <2>1, <2>2, ForwardRecord
<1>4. CASE ~HasLeft
  <2> HIDE DEF m
  <2>1. ~(Moved(s.p) /\ m)
    BY <1>2, <1>4 DEF HasLeft
  <2>2. /\ Follows(Base(s), r) /\ r.p.user_id = Base(s).p.user_id
        /\ r.p.request_done = Base(s).p.request_done
    BY <1>2, <2>1, PostActionAt
  <2>3. Sheet(r) = NamesOn(Now, {name})
    <3>1. Sheet(r) = NamesOn(Sheet(Base(s)), {name})
      BY <1>2, <2>1, PostActionAtSheet
    <3> QED  BY <1>4, <3>1, MeetTyped
  <2> HIDE DEF r
  <2>4. Tally(Sheet(r), operations, arrived')
    <3>1. Grown(arrived, arrived', name)
      BY <1>1, Came
    <3> QED  BY <2>3, <3>1, PostTally DEF MeetInv
  <2> QED  BY <1>1, <1>4, <2>2, <2>4, HereFollows
<1> QED  BY <1>3, <1>4

(* Only the profile at the place, or the one that left, is there.          *)
LEMMA RollbackMeets ==
    ASSUME MeetInv, BooksInv', OwnersMeet, NEW o \in Owner, FraudRollback(o)
    PROVE  MeetInv'
<1> DEFINE s == At(o)
           r == ProcessFraudRollback(s)
<1>1. /\ profile[o] # Nothing /\ profile[o].impression_verified /\ profile[o].fraud = "normal"
      /\ SaveProfile(o, r) /\ UNCHANGED <<home, tracking, arrived>>
  BY DEF FraudRollback
<1>2. Typed /\ Sound(s) /\ s.p = profile[o] /\ s.operations = operations
  BY MeetTyped, AtIs
<1>3. ~Moved(profile[o])
  BY <1>1 DEF Moved
<1>4. o = Place
  <2>1. o = Entry \/ o = Place
    BY <1>1 DEF MeetInv, PlacesInv
  <2>2. HasLeft => o # Entry
    BY <1>3 DEF HasLeft
  <2> QED  BY <2>1, <2>2, MeetTyped
<1>5. Base(s) = s /\ Ready(s)
  BY <1>1, <1>2, BaseReady DEF Ready, Sound
<1> HIDE DEF s
<1>6. Follows(s, r) /\ r.p.user_id = s.p.user_id /\ r.p.request_done = s.p.request_done
  BY <1>1, <1>2, <1>5, RollbackFollows
<1>7. Sheet(r) = Sheet(s)
  BY <1>1, <1>2, <1>5, RollbackSheet
<1>8. Sheet(s) = Now
  BY <1>4, <1>5, MeetTyped DEF s
<1> HIDE DEF r
<1>9. Ready(r) /\ r.operations = operations
  BY <1>2, <1>6 DEF Follows
<1>10. ~Together(home) /\ ~HasLeft /\ Active(r.p) => r.p.user_id = RequestUser
  <2> SUFFICES ASSUME ~Together(home), ~HasLeft, Active(r.p)
               PROVE  r.p.user_id = RequestUser
    OBVIOUS
  <2>1. At(Entry) = s
    BY <1>4, MeetTyped DEF s
  <2> QED  BY <1>5, <1>6, <1>9, <2>1, SameUser
<1>11. Tally(Sheet(r), r.operations, arrived')
  BY <1>1, <1>7, <1>8, <1>9 DEF MeetInv
<1>12. IsFiniteSet(DOMAIN r.operations) /\ DOMAIN r.operations \subseteq DOMAIN operations
  BY <1>9 DEF MeetInv
<1>13. arrived' = arrived /\ (arrived["foreign"] > 0 => tracking.impression)
  BY <1>1 DEF MeetInv, PlacesInv
<1> QED  BY <1>1, <1>4, <1>9, <1>10, <1>11, <1>12, <1>13, MeetKept

LEMMA StutterMeets ==
    ASSUME MeetInv, BooksInv', UNCHANGED requestVars
    PROVE  MeetInv'
<1>1. Now' = Now
  BY DEF requestVars, Now, Sheet, Base, At, Place, HasLeft
<1>2. Tally(Now, operations, arrived)'
  BY <1>1, TallyNext DEF MeetInv, requestVars
<1>3. PlacesInv'
  BY DEF MeetInv, requestVars, PlacesInv, Place, HasLeft
<1> QED  BY <1>2, <1>3 DEF MeetInv, requestVars

LEMMA MeetInit ==
    ASSUME RequestInit
    PROVE  MeetInv
<1>1. BooksInv /\ Typed
  BY BooksInit DEF BooksInv
<1>2. profile[Entry] = Nothing /\ ~HasLeft /\ Place = Entry
  BY OwnerAssumption DEF RequestInit, HasLeft, Place, Moved
<1>3. DOMAIN operations = {}
  BY DEF RequestInit, EmptyBag, SetToBag
<1>4. \A x \in Record : arrived[x] = 0
  BY DEF RequestInit
<1>5. PlacesInv
  <2>1. ~(arrived["foreign"] > 0)
    BY <1>4 DEF Record
  <2>2. \A o \in Owner : profile[o] = Nothing
    BY DEF RequestInit
  <2>3. ~Active(profile[Entry])
    BY <1>2 DEF Active
  <2> QED  BY <1>2, <1>3, <2>1, <2>2, <2>3 DEF PlacesInv
<1>6. Tally(Now, operations, arrived)
  <2> DEFINE x == Now
  <2>1. /\ At(Place).p = Nothing
        /\ \A k \in Kind, z \in State : At(Place).told[k][z] = 0
    BY <1>2 DEF RequestInit, At
  <2>2. Now = Sheet([p |-> Stub, told |-> told, operations |-> operations])
    BY <1>2 DEF Now, Base, At, Opened
  <2>3. IsStore([p |-> Stub, told |-> told, operations |-> operations]) /\ Stub \in Profile
    BY <1>1, StubFormed DEF IsStore, Typed, WellFormed
  <2>4. /\ told["impression"]["duplicate"] = 0 /\ told["click"]["duplicate"] = 0
        /\ told["action"]["normal"] = 0 /\ told["post"]["normal"] = 0
    BY DEF RequestInit, Kind, State
  <2>5. /\ x \in Sheets /\ ~x.requested /\ ~x.noticed /\ ~x.early /\ ~x.shown /\ x.waiting = 0
        /\ ~x.clicked /\ x.clicks = 0 /\ x.actions = 0 /\ x.names = {}
        /\ x.shownAgain = 0 /\ x.clickedAgain = 0 /\ x.acted = 0 /\ x.posted = 0
    <3> DEFINE z == [p |-> Stub, told |-> told, operations |-> operations]
    <3>1. z.p = Stub /\ z.told = told /\ IsStore(z) /\ z.p \in Profile /\ x = Sheet(z)
      BY <2>2, <2>3
    <3>2. /\ ~Stub.request_done /\ ~Stub.notice_received /\ ~Stub.notice_non_considered
          /\ ~Stub.impression_verified /\ Stub.impression_non_considered = 0
          /\ ~Stub.click_done /\ Stub.click_non_considered = 0
          /\ Stub.actions_non_considered = 0 /\ Stub.post_impression_actions = {}
      BY DEF Stub
    <3> HIDE DEF z, x
    <3>3. /\ x \in Sheets
          /\ x.requested = z.p.request_done /\ x.noticed = z.p.notice_received
          /\ x.early = z.p.notice_non_considered /\ x.shown = z.p.impression_verified
          /\ x.waiting = z.p.impression_non_considered /\ x.clicked = z.p.click_done
          /\ x.clicks = z.p.click_non_considered /\ x.actions = z.p.actions_non_considered
          /\ x.names = z.p.post_impression_actions
          /\ x.shownAgain = z.told["impression"]["duplicate"]
          /\ x.clickedAgain = z.told["click"]["duplicate"]
          /\ x.acted = z.told["action"]["normal"] /\ x.posted = z.told["post"]["normal"]
      BY <3>1, OnSheet
    <3> QED  BY <2>4, <3>1, <3>2, <3>3
  <2>6. /\ arrived["request"] = 0 /\ arrived["notice"] = 0 /\ arrived["impression"] = 0
        /\ arrived["foreign"] = 0 /\ arrived["click"] = 0 /\ arrived["action"] = 0
        /\ NamesCame(arrived) = {}
    <3>1. \A name \in PostAction : arrived[name] = 0
      BY <1>4 DEF Record
    <3>2. NamesCame(arrived) = {}
      BY <3>1 DEF NamesCame
    <3>3. {"request", "notice", "impression", "foreign", "click", "action"} \subseteq Record
      BY DEF Record
    <3> QED  BY <1>4, <3>2, <3>3
  <2>7. /\ ~NoticeComing(operations) /\ ~ImpressionComing(operations)
        /\ ClicksComing(operations) = 0
    BY <1>3, MailNone
  <2> HIDE DEF x
  <2>8. InOrder(x)
    BY <2>5 DEF InOrder
  <2>9. AddsUp(x, operations, arrived)
    BY <2>5, <2>6, <2>7 DEF AddsUp, HasNotice, HasImpression, AllClicks
  <2>10. Accounts(x, 0, 0, {})
    BY <2>5 DEF Accounts
  <2>11. Tally(x, operations, arrived)
    BY <2>6, <2>8, <2>9, <2>10 DEF Tally
  <2> QED  BY <2>11 DEF x
<1>7. IsFiniteSet(DOMAIN operations)
  BY <1>3, FS_EmptySet
<1> QED  BY <1>1, <1>3, <1>5, <1>6, <1>7 DEF MeetInv

(* The sheet of the place the request went to.                             *)
LEMMA LeftSheet ==
    ASSUME NEW r, IsStore(r), Opened(profile'[Place']) = Stub, told' = r.told,
           NEW y, y = Now'
    PROVE  /\ y \in Sheets /\ ~y.requested /\ ~y.noticed /\ ~y.early /\ ~y.shown
           /\ y.waiting = 0 /\ ~y.clicked /\ y.clicks = 0
           /\ y.clickedAgain = r.told["click"]["duplicate"]
<1> DEFINE z == [p |-> Stub, told |-> r.told, operations |-> operations]
<1>1. y = Sheet(z)
  BY DEF Now, Base, At, Sheet
<1>2. z.p = Stub /\ z.told = r.told /\ IsStore(z) /\ z.p \in Profile
  BY StubFormed DEF IsStore, WellFormed
<1>3. /\ ~Stub.request_done /\ ~Stub.notice_received /\ ~Stub.notice_non_considered
      /\ ~Stub.impression_verified /\ Stub.impression_non_considered = 0
      /\ ~Stub.click_done /\ Stub.click_non_considered = 0
  BY DEF Stub
<1> HIDE DEF z
<1>4. /\ y \in Sheets
      /\ y.requested = z.p.request_done /\ y.noticed = z.p.notice_received
      /\ y.early = z.p.notice_non_considered /\ y.shown = z.p.impression_verified
      /\ y.waiting = z.p.impression_non_considered /\ y.clicked = z.p.click_done
      /\ y.clicks = z.p.click_non_considered
      /\ y.clickedAgain = z.told["click"]["duplicate"]
  BY <1>1, <1>2, OnSheet
<1> QED  BY <1>2, <1>3, <1>4

(* The request leaves the owner it came to.                                *)
LEMMA LeaveMeets ==
    ASSUME MeetInv, BooksInv', OwnersMeet, NEW record \in {"request", "impression", "foreign"},
           Arrive(record), record = "foreign" => tracking.impression, ~HasLeft,
           NEW s, Ready(s), Sheet(s) = Now, s.operations = operations,
           NEW r, SaveProfile(Entry, r), NEW op, Carries(s, r, op),
           ~s.p.impression_verified, NoMove(operations), arrived'["request"] > 0,
           ~Together(home) => r.p.user_id # RequestUser
    PROVE  MeetInv'
<1>1. record \in Record
  BY DEF Record
<1>2. /\ Grown(arrived, arrived', record) /\ UNCHANGED <<home, tracking>>
      /\ arrived'["foreign"] > 0 => tracking.impression
  BY <1>1, Came
<1>3. /\ OpOK(op) /\ op.type = "change" /\ ~op.arg.click_done /\ op.user = r.p.user_id
      /\ r.p.user_id \in User /\ Moved(r.p) /\ Sound(r)
      /\ r.operations = BagAdd(operations, op)
      /\ (NoticeIn(op) <=> HasNotice(Now)) /\ ClicksIn(op) = Now.clicks
      /\ r.told["click"]["duplicate"] = Now.clickedAgain
  BY DEF Carries
<1>4. op \notin DOMAIN operations
  BY <1>3 DEF NoMove
<1>5. DOMAIN r.operations = DOMAIN operations \cup {op}
  <2>1. DOMAIN BagAdd(operations, op) = DOMAIN operations \cup {op}
    BY AddedIs
  <2> QED  BY <1>3, <2>1, Zenon
<1>6. /\ PlacesInv' /\ Opened(profile'[Place']) = Stub
      /\ told' = r.told /\ operations' = r.operations
  BY <1>2, <1>3, <1>5, MeetTyped, PlaceLeft DEF MeetInv
<1>7. arrived'["foreign"] > 0
  <2>1. ~Here'
    BY <1>5, <1>6 DEF Here
  <2>2. arrived'["foreign"] \in Nat
    BY <1>2, CameIs DEF Grown
  <2> QED  BY <2>1, <2>2 DEF BooksInv
<1>8. ~Now.shown
  <2>1. IsStore(s) /\ s.p \in Profile
    BY TrackingFlags
  <2> QED  BY <2>1, OnSheet
<1> DEFINE y == Now'
<1>9. /\ y \in Sheets /\ ~y.requested /\ ~y.noticed /\ ~y.early /\ ~y.shown
      /\ y.waiting = 0 /\ ~y.clicked /\ y.clicks = 0 /\ y.clickedAgain = Now.clickedAgain
  <2>1. IsStore(r)
    BY <1>3 DEF Sound
  <2> QED  BY <1>3, <1>6, <2>1, LeftSheet
<1> DEFINE more == BagAdd(operations, op)
           x == Now
<1>10. Tally(x, operations, arrived) /\ OpsOK(operations) /\ IsFiniteSet(DOMAIN operations)
  BY MeetTyped DEF MeetInv
<1>11. r.operations = more
  BY <1>3
<1>12. ~x.shown /\ (NoticeIn(op) <=> HasNotice(x)) /\ ClicksIn(op) = x.clicks
       /\ y.clickedAgain = x.clickedAgain
  BY <1>3, <1>8, <1>9
<1> HIDE DEF x, y, more
<1>13. Tally(y, more, arrived')
  BY <1>2, <1>3, <1>4, <1>7, <1>9, <1>10, <1>12, LeaveTally DEF more
<1>14. Tally(Now, operations, arrived)'
  BY <1>2, <1>6, <1>11, <1>13, TallyNext DEF y
<1>15. IsFiniteSet(DOMAIN operations')
  BY <1>5, <1>6, <1>10, FS_AddElement
<1>16. \A o \in DOMAIN operations' : o.type = "change" => ~o.arg.click_done
  BY <1>3, <1>5, <1>6 DEF MeetInv
<1> QED  BY <1>6, <1>14, <1>15, <1>16 DEF MeetInv

(* An impression of whichever user.                                        *)
LEMMA ImpressionMeets ==
    ASSUME MeetInv, BooksInv', OwnersMeet, NEW record \in {"impression", "foreign"},
           Arrive(record), record = "foreign" => tracking.impression,
           NEW user \in User \cup {Nothing},
           SaveProfile(Entry, ProcessImpression(At(Entry), user, TRUE))
    PROVE  MeetInv'
<1> DEFINE m == TRUE
           s == At(Entry)
           r == ProcessImpression(s, user, m)
<1>1. SaveProfile(Entry, r) /\ record \in Record /\ record # "request" /\ m
  BY DEF Record
<1>2. /\ Sound(s) /\ s.p = profile[Entry] /\ s.told = told /\ s.operations = operations
      /\ profile[Entry] # Nothing => WellFormed(profile[Entry])
  BY MeetTyped, AtIs DEF Sound
<1>3. CASE HasLeft
  <2>1. Moved(s.p) /\ s.p # Nothing
    BY <1>2, <1>3 DEF HasLeft, Moved
  <2>2. r = Forward(s, Op("impression", Nothing, Nothing))
    BY <2>1 DEF ProcessImpression, SecondImpression
  <2>3. Brings(Op("impression", Nothing, Nothing), record)
    BY DEF Brings, Op
  <2> QED  BY <1>1, <1>3, <2>2, <2>3, ForwardRecord
<1>4. CASE ~HasLeft /\ profile[Entry] # Nothing /\ Leaves(s, user, m)
  <2>1. Active(profile[Entry]) /\ Ready(s) /\ Base(s) = s
    <3>1. profile[Entry].fraud # "moved"
      BY <1>4 DEF HasLeft, Moved
    <3> QED  BY <1>2, <1>4, <3>1, BaseReady DEF Leaves, Active
  <2>2. Sheet(s) = Now
    BY <1>4, <2>1, MeetTyped
  <2> HIDE DEF m
  <2>3. Carries(s, r, Op("change", user, r.p)) /\ r.p.user_id = user
    BY <1>4, <2>1, DepartCarries
  <2>4. ~Together(home) => user # RequestUser
    BY <1>2, <1>4, <2>1 DEF MeetInv, PlacesInv, Leaves
  <2>5. arrived["request"] > 0 /\ NoMove(operations)
    BY <2>1, MeetTyped DEF MeetInv, BooksInv, Books, Unbooked, Requested, BookedAt, UnderWay
  <2>6. arrived'["request"] > 0
    BY <1>1, <2>5, Came
  <2> DEFINE op == Op("change", user, r.p)
  <2>7. Carries(s, r, op) /\ (~Together(home) => r.p.user_id # RequestUser)
    BY <2>3, <2>4
  <2>8. ~s.p.impression_verified
    BY <1>4 DEF Leaves
  <2> HIDE DEF op, r, s
  <2> QED  BY <1>1, <1>2, <1>4, <2>1, <2>2, <2>5, <2>6, <2>7, <2>8, LeaveMeets
<1>5. CASE ~HasLeft /\ (profile[Entry] # Nothing => ~Leaves(s, user, m))
  <2>1. s.p = Nothing \/ s.p.fraud # "moved"
    BY <1>2, <1>5 DEF HasLeft, Moved
  <2>2. ~Together(home) /\ Active(r.p) /\ NamedBy(Base(s), r, user) /\ Ready(r)
        /\ r.p.request_done = Base(s).p.request_done => r.p.user_id = RequestUser
    <3> SUFFICES ASSUME ~Together(home), Active(r.p), NamedBy(Base(s), r, user), Ready(r),
                        r.p.request_done = Base(s).p.request_done
                 PROVE  r.p.user_id = RequestUser
      OBVIOUS
    <3>1. CASE r.p.user_id = Base(s).p.user_id
      BY <1>5, <3>1, SameUser
    <3>2. CASE r.p.user_id # Base(s).p.user_id
      <4>1. user # Nothing /\ r.p.user_id = user /\ user # Base(s).p.user_id
        BY <3>2 DEF NamedBy
      <4>2. s.p # Nothing
        <5>1. s.p = Nothing => Base(s).p = Stub
          BY <1>2, BaseReady
        <5> QED  BY <5>1, StubFormed DEF Active
      <4>3. Base(s) = s /\ Ready(s)
        BY <1>2, <2>1, <4>2, BaseReady
      <4>4. s.p.impression_verified
        BY <1>1, <1>2, <1>5, <4>1, <4>2, <4>3 DEF Leaves, Active
      <4>5. r = TellTimes(s, "impression", "duplicate", 1)
        <5>1. ~Moved(s.p)
          BY <2>1 DEF Moved
        <5> QED  BY <4>2, <4>4, <5>1 DEF ProcessImpression, SecondImpression, Tell
      <4>6. r.p = s.p
        <5>1. "impression" \in Kind /\ "duplicate" \in State
          BY DEF Kind, State
        <5>2. IsStore(s)
          BY <4>3 DEF Ready
        <5> HIDE DEF r, s
        <5> QED  BY <4>5, <5>1, <5>2, TellTimesResult
      <4> QED  BY <3>2, <4>3, <4>6
    <3> QED  BY <3>1, <3>2
  <2> HIDE DEF m
  <2>3. /\ Follows(Base(s), r) /\ NamedBy(Base(s), r, user)
        /\ r.p.request_done = Base(s).p.request_done
    BY <1>2, <1>5, <2>1, ImpressionAt
  <2>4. Sheet(r) = ImpressionOn(Now)
    <3>1. Sheet(r) = ImpressionOn(Sheet(Base(s)))
      BY <1>2, <1>5, <2>1, ImpressionAtSheet
    <3> QED  BY <1>5, <3>1, MeetTyped
  <2> HIDE DEF r
  <2>5. Tally(Sheet(r), operations, arrived')
    <3>1. Grown(arrived, arrived', record)
      BY <1>1, Came
    <3> QED  BY <2>4, <3>1, ImpressionTally DEF MeetInv
  <2>6. Ready(r) /\ r.operations = operations
    BY <2>3 DEF Follows, Base, At
  <2> QED  BY <1>1, <1>5, <2>2, <2>3, <2>5, <2>6, HereRecord
<1> QED  BY <1>3, <1>4, <1>5

LEMMA RequestMeets ==
    ASSUME MeetInv, BooksInv', OwnersMeet, OneRequestMoves', RequestRecord
    PROVE  MeetInv'
<1> DEFINE s == At(Entry)
           r == ProcessRequest(s, RequestUser, TRUE)
           x == Now
<1>1. Arrive("request") /\ SaveProfile(Entry, r) /\ "request" \in Record
  BY DEF RequestRecord, Record
<1>2. /\ Grown(arrived, arrived', "request") /\ UNCHANGED <<home, tracking>>
      /\ arrived'["foreign"] > 0 => tracking.impression
      /\ arrived["request"] > 0 => arrived'["request"] > 0
  BY <1>1, Came
<1>3. /\ Sound(s) /\ s.p = profile[Entry] /\ s.told = told /\ s.operations = operations
      /\ profile[Entry] # Nothing => WellFormed(profile[Entry])
  BY MeetTyped, AtIs DEF Sound
<1>4. ~HasLeft => x = Sheet(Base(s))
  BY MeetTyped
<1>5. Tally(x, operations, arrived)
  BY DEF MeetInv
<1>6. CASE s.p # Nothing /\ (s.p.request_done \/ s.p.fraud = "moved")
  <2>1. r = s
    BY <1>6 DEF ProcessRequest, Moved
  <2> HIDE DEF r, s
  <2>2. /\ PlacesInv' /\ Place' = Place /\ profile'[Place] = profile[Place]
        /\ told' = told /\ operations' = operations
    <3>1. Typed /\ PlacesInv /\ Entry \in Owner
      BY MeetTyped DEF MeetInv
    <3>2. r.p = profile[Entry] /\ \A o \in DOMAIN r.operations : o \in DOMAIN operations
      BY <1>3, <2>1
    <3> QED  BY <1>1, <1>2, <1>3, <2>1, <3>1, <3>2, PlaceSame
  <2>3. Now' = x
    <3>1. At(Place).p = profile[Place] /\ At(Place).told = told
      BY DEF At
    <3> QED  BY <2>2, <3>1, NowIs, MeetTyped
  <2>4. ~NoMove(operations) \/ x.requested
    <3>1. CASE HasLeft
      <4>1. arrived["request"] > 0
        BY <3>1 DEF MeetInv, PlacesInv
      <4> QED  BY <1>5, <4>1 DEF Tally
    <3>2. CASE ~HasLeft
      <4>1. s.p.fraud # "moved" /\ s.p.request_done
        BY <1>3, <1>6, <3>2 DEF HasLeft, Moved
      <4>2. Base(s) = s /\ IsStore(s) /\ s.p \in Profile
        BY <1>3, <1>6, <4>1, BaseReady, TrackingFlags
      <4> QED  BY <1>4, <3>2, <4>1, <4>2, OnSheet
    <3> QED  BY <3>1, <3>2
  <2> HIDE DEF x
  <2>5. Tally(x, operations, arrived')
    BY <1>2, <1>5, <2>4, RequestTally
  <2>6. Tally(Now, operations, arrived)'
    BY <1>2, <2>2, <2>3, <2>5, TallyNext
  <2> QED  BY <2>2, <2>6 DEF MeetInv
<1>7. CASE s.p # Nothing /\ ~s.p.request_done /\ s.p.fraud # "moved"
           /\ s.p.user_id \notin {Nothing, RequestUser}
  <2>1. r = MoveByRequest(s)
    BY <1>7 DEF ProcessRequest, Moved
  <2>2. Ready(s) /\ s.p \in Profile /\ Base(s) = s /\ ~s.p.impression_verified
    BY <1>3, <1>7, BaseReady DEF Ready, WellFormed
  <2>3. s.p.user_id \in User
    BY <1>7, <2>2 DEF Profile
  <2>4. ~HasLeft
    BY <1>3, <1>7 DEF HasLeft, Moved
  <2> HIDE DEF r, s
  <2> PICK op : Carries(s, r, op) /\ r.p.user_id = s.p.user_id
    BY <1>7, <2>1, <2>2, <2>3, MoveAwayCarries
  <2>5. NoMove(operations) /\ arrived'["request"] > 0
    <3>1. /\ arrived["request"] \in Nat /\ arrived["foreign"] \in Nat
          /\ arrived'["request"] = arrived["request"] + 1
          /\ arrived'["foreign"] = arrived["foreign"]
      <4>1. arrived'["foreign"] = arrived["foreign"]
        BY <1>2, GrownIs
      <4> QED  BY <1>2, <4>1, MeetTyped, CameIs DEF Grown
    <3>2. CASE arrived["foreign"] = 0
      BY <3>1, <3>2 DEF MeetInv, BooksInv, Here, NoMove
    <3>3. CASE arrived["foreign"] > 0
      <4>1. arrived["request"] = 0
        BY <3>1, <3>3 DEF BooksInv
      <4> QED  BY <3>1, <4>1 DEF MeetInv, BooksInv, Books, Unbooked
    <3> QED  BY <3>1, <3>2, <3>3
  <2>6. Sheet(s) = Now
    BY <1>4, <2>2, <2>4
  <2> QED  BY <1>1, <1>3, <1>7, <2>2, <2>4, <2>5, <2>6, LeaveMeets
<1>8. CASE \/ s.p = Nothing
           \/ /\ s.p # Nothing /\ ~s.p.request_done /\ s.p.fraud # "moved"
              /\ s.p.user_id \in {Nothing, RequestUser}
  <2>1. r = RequestDone(s, RequestUser, TRUE)
    BY <1>8 DEF ProcessRequest, Moved
  <2>2. s.p # Nothing => s.p.fraud # "moved" /\ ~s.p.request_done
    BY <1>8
  <2>3. Follows(Base(s), r) /\ r.p.user_id = RequestUser /\ Sheet(r) = RequestOn(Sheet(Base(s)))
    <3>1. \A m, z : z = RequestDone(s, RequestUser, m) =>
             /\ Follows(Base(s), z) /\ z.p.user_id = RequestUser
             /\ Sheet(z) = RequestOn(Sheet(Base(s)))
      BY <1>3, <2>2, OwnerAssumption, RequestDoneAt, RequestDoneSheet
    <3> QED  BY <2>1, <3>1
  <2>4. ~HasLeft
    BY <1>3, <1>8 DEF HasLeft, Moved
  <2>5. ~x.requested
    <3>1. ~Base(s).p.request_done /\ IsStore(Base(s)) /\ Base(s).p \in Profile
      BY <1>3, <2>2, BaseReady, StubFormed, TrackingFlags
    <3> QED  BY <1>4, <2>4, <3>1, OnSheet
  <2>6. Sheet(r) = RequestOn(x)
    BY <1>4, <2>3, <2>4
  <2> HIDE DEF r, x
  <2>7. Tally(Sheet(r), operations, arrived')
    BY <1>2, <1>5, <2>5, <2>6, RequestTally
  <2>8. Ready(r) /\ r.operations = operations
    BY <1>3, <2>3 DEF Follows, Base
  <2> QED  BY <1>1, <2>3, <2>4, <2>7, <2>8, HereRecord
<1> QED  BY <1>6, <1>7, <1>8

(* An operation reaches the place.                                         *)
LEMMA Reached ==
    ASSUME MeetInv, NEW op \in DOMAIN operations,
           NEW s, s = Taken(Place, op)
    PROVE  /\ home[op.user] = Place /\ OpOK(op) /\ arrived["foreign"] > 0
           /\ tracking.impression /\ (~Together(home) => HasLeft)
           /\ Sound(s) /\ s.p = profile[Place] /\ s.told = told
           /\ s.operations = BagRemove(operations, op)
           /\ Sheet(Base(s)) = Now /\ InOrder(Now)
<1>1. home[op.user] = Place /\ (~Together(home) => HasLeft)
  BY DEF MeetInv, PlacesInv
<1>2. arrived["foreign"] > 0 /\ tracking.impression
  <2>1. arrived["foreign"] \in Nat
    BY MeetTyped, CameIs
  <2>2. ~Here
    BY DEF Here
  <2> QED  BY <2>1, <2>2 DEF MeetInv, BooksInv, PlacesInv
<1>3. /\ Sound(s) /\ s.p = profile[Place] /\ s.told = told
      /\ s.operations = BagRemove(operations, op)
  BY MeetTyped, TakenIs
<1>4. Sheet(Base(s)) = Now
  <2>1. At(Place).p = profile[Place] /\ At(Place).told = told
    BY DEF At
  <2>2. Sheet(Base(s)) = Sheet(Base(At(Place)))
    BY <1>3, <2>1, SheetOfBase
  <2> QED  BY <2>2, MeetTyped
<1> QED  BY <1>1, <1>2, <1>3, <1>4, MeetTyped DEF OpsOK

(* What an operation leaves at the place.                                  *)
LEMMA ReachedKeeps ==
    ASSUME MeetInv, BooksInv', OwnersMeet, NEW op \in DOMAIN operations, NEW r, Ready(r),
           op.type = "change" => operations[op] = 1,
           r.operations = BagRemove(operations, op), SaveProfile(Place, r),
           UNCHANGED <<home, tracking, arrived>>, Tally(Sheet(r), r.operations, arrived)
    PROVE  MeetInv'
<1>1. IsFiniteSet(DOMAIN r.operations) /\ DOMAIN r.operations \subseteq DOMAIN operations
  BY MailRemoved, MeetTyped DEF MeetInv
<1>2. (~Together(home) => HasLeft) /\ (arrived["foreign"] > 0 => tracking.impression)
  BY Reached
<1>3. arrived' = arrived
  OBVIOUS
<1> QED  BY <1>1, <1>2, <1>3, MeetKept

LEMMA DeliverMeets ==
    ASSUME MeetInv, BooksInv', OwnersMeet, NEW op \in DOMAIN operations,
           NEW r, SaveProfile(Place, r), UNCHANGED <<home, tracking, arrived>>,
           Follows(Base(Taken(Place, op)), r), TakenAs(Now, op, Sheet(r)),
           op.type = "impression" => Sheet(r) = ImpressionOn(Now)
    PROVE  MeetInv'
<1> DEFINE s == Taken(Place, op)
<1>1. Sound(s) /\ s.operations = BagRemove(operations, op) /\ arrived["foreign"] > 0
  BY Reached
<1>2. Ready(r) /\ r.operations = BagRemove(operations, op)
  <2>1. Base(s).operations = s.operations
    BY DEF Base
  <2> QED  BY <1>1, <2>1 DEF Follows
<1>3. op.type # "change"
  BY DEF TakenAs
<1>4. Tally(Sheet(r), r.operations, arrived)
  BY <1>1, <1>2, DeliverTally, MeetTyped DEF MeetInv
<1> QED  BY <1>2, <1>3, <1>4, ReachedKeeps

(* An impression that reaches the profile that left for the same place is  *)
(* a duplicate; the operation for the move is still under way.             *)
LEMMA RepeatMeets ==
    ASSUME MeetInv, BooksInv', OwnersMeet, NEW op \in DOMAIN operations,
           op.type = "impression", Moved(profile[Place]),
           SaveProfile(Place, Tell(Taken(Place, op), "impression", "duplicate")),
           UNCHANGED <<home, tracking, arrived>>
    PROVE  MeetInv'
<1> DEFINE s == Taken(Place, op)
           r == TellTimes(s, "impression", "duplicate", 1)
           b == Base(s)
           c == TellTimes(b, "impression", "duplicate", 1)
           x == Now
<1>1. /\ Sound(s) /\ s.p = profile[Place] /\ s.told = told
      /\ s.operations = BagRemove(operations, op) /\ Sheet(b) = x /\ InOrder(x)
      /\ arrived["foreign"] > 0 /\ tracking.impression
  BY Reached
<1>2. SaveProfile(Place, r)
  BY DEF Tell
<1>3. "impression" \in Kind /\ "duplicate" \in State
  BY DEF Kind, State
<1>4. IsStore(s)
  BY <1>1 DEF Sound
<1>5. Ready(b) /\ b.told = s.told /\ b.p = Stub
  <2>1. s.p.fraud = "moved"
    BY <1>1 DEF Moved
  <2> QED  BY <1>1, <2>1, BaseReady
<1> HIDE DEF s, x
<1>6. IsStore(r) /\ r.p = s.p /\ r.operations = s.operations
  BY <1>3, <1>4, TellTimesResult
<1>7. Sheet(Base(r)) = Repeated(x)
  <2>1. IsStore(b) /\ b.p \in Profile
    BY <1>5, TrackingFlags
  <2> HIDE DEF b
  <2>2. Sheet(c) = [Sheet(b) EXCEPT !.shownAgain = @ + 1]
    BY <1>3, <2>1, TellSheet
  <2>3. c.told = r.told
    BY <1>4, <1>5, <2>1 DEF IsStore, TellTimes
  <2>4. c.p = b.p
    BY <1>3, <2>1, TellTimesResult
  <2>5. Base(r).p = Base(s).p /\ Base(r).told = r.told
    BY <1>6 DEF Base
  <2>6. Sheet(Base(r)) = Sheet(c)
    BY <2>3, <2>4, <2>5 DEF Sheet, b
  <2> QED  BY <1>1, <2>2, <2>6 DEF Repeated
<1>8. ~NoMove(operations)
  <2>1. Place = Entry /\ HasLeft
    <3>1. Place = Entry
      BY Away, MeetTyped DEF MeetInv
    <3> QED  BY <3>1 DEF HasLeft
  <2>2. arrived["request"] > 0
    BY <2>1 DEF MeetInv, PlacesInv
  <2>3. ~x.requested
    <3>1. IsStore(b) /\ b.p \in Profile
      BY <1>5, TrackingFlags
    <3>2. ~b.p.request_done
      BY <1>5, StubFormed
    <3> HIDE DEF b
    <3> QED  BY <1>1, <3>1, <3>2, OnSheet
  <2> QED  BY <2>2, <2>3 DEF MeetInv, Tally, x
<1> HIDE DEF r
<1>9. /\ PlacesInv' /\ Place' = Place /\ profile'[Place] = profile[Place]
      /\ told' = r.told /\ operations' = r.operations
  <2>1. Typed /\ PlacesInv /\ Place \in Owner
    BY MeetTyped DEF MeetInv
  <2>2. DOMAIN r.operations \subseteq DOMAIN operations
    BY <1>1, <1>6, MailRemoved, MeetTyped DEF MeetInv
  <2>3. arrived' = arrived
    OBVIOUS
  <2> QED  BY <1>1, <1>2, <1>6, <2>1, <2>2, <2>3, PlaceSame
<1>10. Now' = Repeated(x)
  BY <1>1, <1>6, <1>7, <1>9, NowIs
<1>11. Tally(Repeated(x), r.operations, arrived)
  <2>1. Tally(x, operations, arrived)
    BY DEF MeetInv, x
  <2>2. TakenAs(x, op, Repeated(x))
    BY DEF TakenAs
  <2> QED  BY <1>1, <1>6, <1>8, <2>1, <2>2, DeliverTally, MeetTyped DEF MeetInv
<1>12. Tally(Now, operations, arrived)'
  BY <1>9, <1>10, <1>11, TallyNext
<1>13. IsFiniteSet(DOMAIN operations') /\ DOMAIN operations' \subseteq DOMAIN operations
  BY <1>1, <1>6, <1>9, MailRemoved, MeetTyped DEF MeetInv
<1> QED  BY <1>9, <1>12, <1>13 DEF MeetInv

(* The operations that are no moves.                                       *)
LEMMA RecordOperationMeets ==
    ASSUME MeetInv, BooksInv', OwnersMeet, NEW op \in DOMAIN operations, op.type # "change",
           Operation(op)
    PROVE  MeetInv'
<1> DEFINE s == Taken(Place, op)
           r == Processed(s, op)
           m == FALSE
<1>1. /\ Sound(s) /\ s.p = profile[Place] /\ OpOK(op) /\ home[op.user] = Place
      /\ Sheet(Base(s)) = Now
  BY Reached
<1>2. SaveProfile(Place, r) /\ UNCHANGED <<home, tracking, arrived>>
  BY <1>1 DEF Operation, Taken
<1>3. op.user \in User /\ op.type \in {"notice", "impression", "click", "action", "post"}
      /\ (op.type = "post" => op.arg \in PostAction)
  BY <1>1 DEF OpOK
<1>4. ~m
  OBVIOUS
<1>5. CASE op.type = "notice"
  <2>1. r = ProcessNotice(s, m)
    BY <1>5 DEF Processed
  <2> HIDE DEF m, r, s
  <2>2. Follows(Base(s), r) /\ Sheet(r) = NoticeOn(Now)
    <3>1. Follows(Base(s), r)
      BY <1>1, <1>4, <2>1, NoticeAt
    <3>2. Sheet(r) = NoticeOn(Sheet(Base(s)))
      BY <1>1, <1>4, <2>1, NoticeAtSheet
    <3> QED  BY <1>1, <3>1, <3>2
  <2>3. TakenAs(Now, op, Sheet(r))
    BY <1>5, <2>2 DEF TakenAs
  <2> QED  BY <1>2, <1>5, <2>2, <2>3, DeliverMeets DEF s
<1>6. CASE op.type = "click"
  <2>1. r = ProcessClick(s, m)
    BY <1>6 DEF Processed
  <2> HIDE DEF m, r, s
  <2>2. Follows(Base(s), r) /\ Sheet(r) = ClickOn(Now)
    <3>1. Follows(Base(s), r)
      BY <1>1, <1>4, <2>1, ClickAt
    <3>2. Sheet(r) = ClickOn(Sheet(Base(s)))
      BY <1>1, <1>4, <2>1, ClickAtSheet
    <3> QED  BY <1>1, <3>1, <3>2
  <2>3. TakenAs(Now, op, Sheet(r))
    BY <1>6, <2>2 DEF TakenAs
  <2> QED  BY <1>2, <1>6, <2>2, <2>3, DeliverMeets DEF s
<1>7. CASE op.type = "action"
  <2>1. r = ProcessAction(s, m)
    BY <1>7 DEF Processed
  <2> HIDE DEF m, r, s
  <2>2. Follows(Base(s), r) /\ Sheet(r) = ActionsOn(Now, 1)
    <3>1. Follows(Base(s), r)
      BY <1>1, <1>4, <2>1, ActionAt
    <3>2. Sheet(r) = ActionsOn(Sheet(Base(s)), 1)
      BY <1>1, <1>4, <2>1, ActionAtSheet
    <3> QED  BY <1>1, <3>1, <3>2
  <2>3. TakenAs(Now, op, Sheet(r))
    BY <1>7, <2>2 DEF TakenAs
  <2> QED  BY <1>2, <1>7, <2>2, <2>3, DeliverMeets DEF s
<1>8. CASE op.type = "post"
  <2>1. r = ProcessPostAction(s, op.arg, m)
    BY <1>8 DEF Processed
  <2> HIDE DEF m, r, s
  <2>2. Follows(Base(s), r) /\ Sheet(r) = NamesOn(Now, {op.arg})
    <3>1. Follows(Base(s), r)
      BY <1>1, <1>3, <1>4, <1>8, <2>1, PostActionAt
    <3>2. Sheet(r) = NamesOn(Sheet(Base(s)), {op.arg})
      BY <1>1, <1>3, <1>4, <1>8, <2>1, PostActionAtSheet
    <3> QED  BY <1>1, <3>1, <3>2
  <2>3. TakenAs(Now, op, Sheet(r))
    BY <1>8, <2>2 DEF TakenAs
  <2> QED  BY <1>2, <1>8, <2>2, <2>3, DeliverMeets DEF s
<1>9. CASE op.type = "impression"
  <2>1. r = ProcessImpression(s, op.user, m)
    BY <1>9 DEF Processed
  <2>2. CASE Moved(s.p)
    <3>1. r = Tell(s, "impression", "duplicate")
      <4>1. s.p # Nothing
        BY <2>2 DEF Moved
      <4> QED  BY <2>1, <2>2, <4>1 DEF ProcessImpression, SecondImpression
    <3> QED  BY <1>1, <1>2, <1>9, <2>2, <3>1, RepeatMeets
  <2>3. CASE ~Moved(s.p)
    <3> HIDE DEF m, r, s
    <3>1. s.p = Nothing \/ s.p.fraud # "moved"
      BY <2>3 DEF Moved
    <3>2. ~Leaves(s, op.user, m)
      BY <1>4 DEF Leaves
    <3>3. Follows(Base(s), r) /\ Sheet(r) = ImpressionOn(Now)
      <4>1. Follows(Base(s), r)
        BY <1>1, <1>3, <2>1, <3>1, <3>2, ImpressionAt
      <4>2. Sheet(r) = ImpressionOn(Sheet(Base(s)))
        BY <1>1, <1>3, <2>1, <3>1, <3>2, ImpressionAtSheet
      <4> QED  BY <1>1, <4>1, <4>2
    <3>4. TakenAs(Now, op, Sheet(r))
      BY <1>9 DEF TakenAs
    <3> QED  BY <1>2, <3>3, <3>4, DeliverMeets DEF s
  <2> QED  BY <2>2, <2>3
<1> QED  BY <1>3, <1>5, <1>6, <1>7, <1>8, <1>9

(* The operation for a move.                                               *)
LEMMA ChangeMeets ==
    ASSUME MeetInv, BooksInv', OwnersMeet, NEW op \in DOMAIN operations, op.type = "change",
           Operation(op)
    PROVE  MeetInv'
<1> DEFINE s == Taken(Place, op)
           r == ChangeRequestUser(s, op.arg)
           waits == Waits(op.arg, s.p)
           x == Now
           y == Sheet(Emptied(s))
<1>1. /\ Sound(s) /\ s.p = profile[Place] /\ OpOK(op) /\ home[op.user] = Place
      /\ Sheet(Base(s)) = x /\ arrived["foreign"] > 0 /\ tracking.impression
      /\ s.operations = BagRemove(operations, op)
  BY Reached
<1>2. SaveProfile(Place, r) /\ UNCHANGED <<home, tracking, arrived>>
  <2>1. Processed(s, op) = r
    BY DEF Processed
  <2> QED  BY <1>1, <2>1 DEF Operation, Taken
<1>3. op.arg \in Profile /\ op.arg.user_id \in User /\ ~op.arg.click_done
      /\ op.arg.post_impression_actions \in SUBSET PostAction
  BY <1>1 DEF OpOK, MeetInv, Profile
<1>4. operations[op] = 1 /\ \A o \in Owner : ~Active(profile[o])
  BY DEF MeetInv, BooksInv, Books, Unbooked, Requested, BookedAt, UnderWay, NoMove
<1>5. Ready(r) /\ r.operations = s.operations
  BY <1>1, <1>3, ChangeResult
<1>6. Sheet(r) = ChangeOn(y, waits, op.arg.post_impression_actions)
  BY <1>1, <1>3, ChangeSheet
<1>7. waits.impressions \in Nat /\ waits.clicks \in Nat /\ waits.actions \in Nat
  BY <1>1, <1>3, WaitsAre DEF Sound
<1>8. IsStore(Base(s)) /\ Base(s).p \in Profile /\ Base(s).p = Opened(s.p)
  BY <1>1, BaseReady, TrackingFlags
<1>9. ~x.requested
  <2>1. ~Opened(s.p).request_done
    <3>1. ~Active(s.p)
      BY <1>1, <1>4, MeetTyped
    <3> QED  BY <3>1, StubFormed DEF Opened, Active, Moved
  <2> QED  BY <1>1, <1>8, <2>1, OnSheet
<1>10. /\ x.early = Opened(s.p).notice_non_considered
       /\ x.clicks = Opened(s.p).click_non_considered
  BY <1>1, <1>8, OnSheet
<1>11. waits.notice <=> NoticeIn(op) \/ x.early
  <2>1. waits.notice <=> \/ op.arg.notice_received \/ op.arg.notice_non_considered
                         \/ Opened(s.p).notice_non_considered
    BY DEF Waits
  <2>2. NoticeIn(op) <=> op.arg.notice_received \/ op.arg.notice_non_considered
    BY DEF NoticeIn
  <2> QED  BY <1>10, <2>1, <2>2
<1>12. waits.clicks = ClicksIn(op) + x.clicks
  <2>1. waits.clicks = 0 + op.arg.click_non_considered + Opened(s.p).click_non_considered
    BY <1>3 DEF Waits
  <2>2. ClicksIn(op) = op.arg.click_non_considered /\ op.arg.click_non_considered \in Nat
    BY <1>3 DEF ClicksIn, Profile
  <2> QED  BY <1>10, <2>1, <2>2
<1>13. Blank(y)
  <2> DEFINE z == Emptied(s)
  <2>1. z.p = Stub /\ IsStore(z) /\ z.p \in Profile /\ z.told = s.told
    BY <1>1, StubFormed DEF Emptied, IsStore, Sound, WellFormed
  <2>2. /\ ~Stub.request_done /\ ~Stub.notice_received /\ ~Stub.notice_non_considered
        /\ ~Stub.impression_verified /\ Stub.impression_non_considered = 0
        /\ ~Stub.click_done /\ Stub.click_non_considered = 0
    BY DEF Stub
  <2>3. y = Sheet(z)
    OBVIOUS
  <2>4. x.clickedAgain = s.told["click"]["duplicate"]
    <3>1. Base(s).told = s.told
      BY DEF Base
    <3> HIDE DEF s, x
    <3> QED  BY <1>1, <1>8, <3>1, OnSheet
  <2>5. x.clickedAgain = 0
    <3>1. InOrder(x)
      BY Reached
    <3> HIDE DEF x
    <3> QED  BY <1>9, <3>1 DEF InOrder, Sheets
  <2> HIDE DEF x, y, z, s
  <2>6. /\ y \in Sheets
        /\ y.requested = z.p.request_done /\ y.noticed = z.p.notice_received
        /\ y.early = z.p.notice_non_considered /\ y.shown = z.p.impression_verified
        /\ y.waiting = z.p.impression_non_considered /\ y.clicked = z.p.click_done
        /\ y.clicks = z.p.click_non_considered
        /\ y.clickedAgain = z.told["click"]["duplicate"]
    BY <2>1, <2>3, OnSheet
  <2> QED  BY <2>1, <2>2, <2>4, <2>5, <2>6 DEF Blank
<1> DEFINE names == op.arg.post_impression_actions
           rest == BagRemove(operations, op)
<1>14. Tally(x, operations, arrived) /\ OpsOK(operations) /\ IsFiniteSet(DOMAIN operations)
  BY MeetTyped DEF MeetInv
<1>15. r.operations = rest /\ names \in SUBSET PostAction
  BY <1>1, <1>3, <1>5
<1> HIDE DEF x, y, waits, r, names
<1>16. Tally(Sheet(r), rest, arrived)
  BY <1>1, <1>4, <1>6, <1>7, <1>9, <1>11, <1>12, <1>13, <1>14, <1>15, SettleTally DEF names
<1> QED  BY <1>2, <1>4, <1>5, <1>15, <1>16, ReachedKeeps

LEMMA MeetNext ==
    ASSUME MeetInv, [RequestNext]_requestVars, OneRequestMoves', OwnersMeet
    PROVE  MeetInv'
<1>1. BooksInv'
  BY BooksNext DEF MeetInv
<1>2. CASE RequestRecord
  BY <1>1, <1>2, RequestMeets
<1>3. CASE Notice
  BY <1>1, <1>3, NoticeMeets
<1>4. CASE Impression
  <2>1. PICK user \in {Nothing, RequestUser} :
           SaveProfile(Entry, ProcessImpression(At(Entry), user, TRUE))
    BY <1>4 DEF Impression
  <2>2. user \in User \cup {Nothing} /\ Arrive("impression")
    BY <1>4, OwnerAssumption DEF Impression
  <2> QED  BY <1>1, <2>1, <2>2, ImpressionMeets
<1>5. CASE ForeignImpression
  <2>1. PICK user \in User \ {RequestUser} :
           SaveProfile(Entry, ProcessImpression(At(Entry), user, TRUE))
    BY <1>5 DEF ForeignImpression
  <2>2. Arrive("foreign") /\ tracking.impression
    BY <1>5 DEF ForeignImpression
  <2> QED  BY <1>1, <2>1, <2>2, ImpressionMeets
<1>6. CASE Click
  BY <1>1, <1>6, ClickMeets
<1>7. CASE Action
  BY <1>1, <1>7, ActionMeets
<1>8. CASE Post
  BY <1>1, <1>8, PostMeets
<1>9. CASE \E o \in Owner : FraudRollback(o)
  BY <1>1, <1>9, RollbackMeets
<1>10. CASE \E op \in BagToSet(operations) : Operation(op)
  <2>1. PICK op \in DOMAIN operations : Operation(op)
    BY <1>10 DEF BagToSet
  <2> QED  BY <1>1, <2>1, RecordOperationMeets, ChangeMeets
<1>11. CASE UNCHANGED requestVars
  BY <1>1, <1>11, StutterMeets
<1> QED  BY <1>2, <1>3, <1>4, <1>5, <1>6, <1>7, <1>8, <1>9, <1>10, <1>11 DEF RequestNext

(* The profile at the place, and the sheet of it.                          *)
LEMMA NowHas ==
    ASSUME MeetInv
    PROVE  /\ Now.requested = Opened(profile[Place]).request_done
           /\ Now.shown = Opened(profile[Place]).impression_verified
           /\ Now.clicked = Opened(profile[Place]).click_done
           /\ Now.shownAgain = told["impression"]["duplicate"]
           /\ Now.clickedAgain = told["click"]["duplicate"]
           /\ Now.acted = told["action"]["normal"] /\ Now.posted = told["post"]["normal"]
           /\ Opened(profile[Place]).request_done <=> Active(profile[Place])
<1> DEFINE b == Base(At(Place))
           x == Now
<1>1. IsStore(b) /\ b.p \in Profile /\ x = Sheet(b)
  BY MeetTyped, BaseReady, TrackingFlags
<1>2. b.p = Opened(profile[Place]) /\ b.told = told
  BY DEF Base, At
<1>3. Opened(profile[Place]).request_done <=> Active(profile[Place])
  BY StubFormed DEF Opened, Active, Moved
<1> HIDE DEF b, x
<1>4. /\ x.requested = b.p.request_done /\ x.shown = b.p.impression_verified
      /\ x.clicked = b.p.click_done
      /\ x.shownAgain = b.told["impression"]["duplicate"]
      /\ x.clickedAgain = b.told["click"]["duplicate"]
      /\ x.acted = b.told["action"]["normal"] /\ x.posted = b.told["post"]["normal"]
  BY <1>1, OnSheet
<1> QED  BY <1>2, <1>3, <1>4 DEF x

(* With nothing on its way the sheet says how far the request came.        *)
LEMMA StagesAre ==
    ASSUME MeetInv, DOMAIN operations = {}
    PROVE  /\ Now.requested <=> arrived["request"] > 0
           /\ Now.noticed <=> Noticed
           /\ Now.shown <=> Shown
           /\ Now.clicked <=> Clicked
           /\ Clicked => Now.clickedAgain = arrived["click"] - 1
           /\ ~Clicked => Now.clickedAgain = 0
<1> DEFINE x == Now
<1>1. /\ ~NoticeComing(operations) /\ ~ImpressionComing(operations)
      /\ ClicksComing(operations) = 0 /\ NoMove(operations)
  BY MailNone
<1>2. Tally(x, operations, arrived)
  BY DEF MeetInv
<1>3. /\ arrived["request"] \in Nat /\ arrived["notice"] \in Nat /\ arrived["impression"] \in Nat
      /\ arrived["foreign"] \in Nat /\ arrived["click"] \in Nat
  BY MeetTyped, CameIs
<1>4. x.requested <=> arrived["request"] > 0
  <2>1. arrived["request"] > 0 => x.requested
    BY <1>1, <1>2 DEF Tally
  <2>2. x.requested => Active(profile[Place])
    BY NowHas
  <2>3. Active(profile[Place]) => arrived["request"] > 0
    BY MeetTyped DEF MeetInv, BooksInv, Books, Unbooked
  <2> QED  BY <2>1, <2>2, <2>3
<1> HIDE DEF x
<1>5. x.noticed <=> Noticed
  BY <1>1, <1>2, <1>3, <1>4 DEF Tally, InOrder, AddsUp, HasNotice, Noticed
<1>6. x.shown <=> Shown
  <2>1. tracking.impression => (Impressions > 0 <=> x.shown \/ x.waiting > 0)
    BY <1>1, <1>2 DEF Tally, AddsUp, HasImpression, Impressions
  <2> QED  BY <1>2, <1>5, <2>1 DEF Tally, InOrder, Shown
<1>7. /\ x.clicked <=> Clicked
      /\ Clicked => x.clickedAgain = arrived["click"] - 1
      /\ ~Clicked => x.clickedAgain = 0
  <2>1. /\ x.clicked => arrived["click"] = 1 + x.clicks + x.clickedAgain
        /\ ~x.clicked => arrived["click"] = 0 + x.clicks + x.clickedAgain
    <3>1. arrived["click"] = AllClicks(x) + 0
      BY <1>1, <1>2 DEF Tally, AddsUp
    <3>2. AllClicks(x) \in Nat
      BY <1>2, AllClicksIs DEF Tally
    <3> QED  BY <3>1, <3>2 DEF AllClicks
  <2>2. x.clicks \in Nat /\ x.clickedAgain \in Nat
    BY <1>2 DEF Tally, InOrder, Sheets
  <2>3. /\ x.clicked => x.shown /\ x.clicks = 0
        /\ x.shown => x.clicks = 0
        /\ x.clickedAgain > 0 => x.clicked
    BY <1>2 DEF Tally, InOrder
  <2>4. x.clicked <=> Clicked
    <3>1. CASE x.clicked
      <4>1. arrived["click"] > 0
        BY <2>1, <2>2, <3>1
      <4> QED  BY <1>6, <2>3, <3>1, <4>1 DEF Clicked
    <3>2. CASE ~x.clicked
      <4>1. x.shown => arrived["click"] = 0
        <5>1. x.clickedAgain = 0
          BY <2>2, <2>3, <3>2
        <5>2. arrived["click"] = 0 + x.clicks + x.clickedAgain
          BY <2>1, <3>2
        <5>3. x.shown => x.clicks = 0
          BY <2>3
        <5> QED  BY <5>1, <5>2, <5>3
      <4> QED  BY <1>6, <3>2, <4>1 DEF Clicked
    <3> QED  BY <3>1, <3>2
  <2> QED  BY <1>3, <2>1, <2>2, <2>3, <2>4
<1> QED  BY <1>4, <1>5, <1>6, <1>7 DEF x

LEMMA NetIs ==
    ASSUME MeetInv, DOMAIN operations = {}
    PROVE  /\ Net("request") = One(arrived["request"] > 0 /\ ~RolledBack)
           /\ Net("impression") = One(Shown /\ ~RolledBack)
           /\ Net("click") = One(Clicked /\ ~RolledBack)
<1> DEFINE p == profile[Place]
           x == Now
<1>1. "request" \in Bookable /\ "impression" \in Bookable /\ "click" \in Bookable
  BY DEF Bookable
<1>2. \A k : Net(k) = NetOf(told, k)
  BY DEF Net, NetOf
<1>3. /\ x.requested <=> arrived["request"] > 0
      /\ x.shown <=> Shown
      /\ x.clicked <=> Clicked
  BY StagesAre
<1>4. CASE ~(arrived["request"] > 0)
  <2>1. Unbooked(profile, operations, told)
    BY <1>4 DEF MeetInv, BooksInv, Books
  <2>2. ~Shown /\ ~Clicked
    BY <1>4 DEF Clicked, Shown, Noticed
  <2> QED  BY <1>1, <1>2, <1>4, <2>1, <2>2 DEF Unbooked, One
<1>5. CASE arrived["request"] > 0
  <2>1. Active(p) /\ x.requested
    BY <1>3, <1>5, NowHas
  <2>2. BookedAt(Place, profile, operations, told)
    BY <2>1, MeetTyped DEF MeetInv, BooksInv, Books, Unbooked, Requested, BookedAt, UnderWay
  <2>3. \A k \in Bookable : Net(k) = NetCount(p, k)
    BY <1>2, <2>2 DEF BookedAt, Agrees
  <2>4. Opened(p) = p
    BY <2>1 DEF Opened, Active, Moved
  <2>5. /\ p.request_done /\ (p.impression_verified <=> Shown) /\ (p.click_done <=> Clicked)
    BY <1>3, <2>1, <2>4, NowHas DEF Active
  <2>6. RolledBack <=> p.fraud = "fraud"
    <3>1. p # Nothing /\ Place \in Owner
      BY <2>1, MeetTyped DEF Active
    <3>2. \A o \in Owner : profile[o] # Nothing /\ profile[o].fraud = "fraud" => o = Place
      <4>1. \A o \in Owner : profile[o] # Nothing => o = Entry \/ o = Place
        BY DEF MeetInv, PlacesInv
      <4>2. HasLeft => profile[Entry].fraud # "fraud"
        BY DEF HasLeft, Moved
      <4> QED  BY <4>1, <4>2, MeetTyped
    <3> QED  BY <3>1, <3>2 DEF RolledBack
  <2> HIDE DEF p
  <2>7. Net("request") = One(~RolledBack)
    BY <1>1, <2>3, <2>5, <2>6 DEF NetCount, Count, Done, One
  <2>8. Net("impression") = One(Shown /\ ~RolledBack)
    BY <1>1, <2>3, <2>5, <2>6 DEF NetCount, Count, Done, One
  <2>9. Net("click") = One(Clicked /\ ~RolledBack)
    BY <1>1, <2>3, <2>5, <2>6 DEF NetCount, Count, Done, One
  <2> QED  BY <1>5, <2>7, <2>8, <2>9 DEF One
<1> QED  BY <1>4, <1>5

LEMMA MeetSays ==
    ASSUME MeetInv
    PROVE  OutcomeIsOrderFree
<1> SUFFICES ASSUME operations = EmptyBag
             PROVE  /\ OutcomeOfRequest /\ OutcomeOfImpression /\ OutcomeOfClick
                    /\ OutcomeOfActions /\ OutcomeOfPostActions
  BY DEF OutcomeIsOrderFree
<1> DEFINE x == Now
<1>1. DOMAIN operations = {}
  BY DEF EmptyBag, SetToBag
<1>2. /\ x.shown <=> Shown
      /\ x.clicked <=> Clicked
      /\ Clicked => x.clickedAgain = arrived["click"] - 1
      /\ ~Clicked => x.clickedAgain = 0
  BY <1>1, StagesAre
<1>3. /\ x.shownAgain = told["impression"]["duplicate"]
      /\ x.clickedAgain = told["click"]["duplicate"]
      /\ x.acted = told["action"]["normal"] /\ x.posted = told["post"]["normal"]
  BY NowHas
<1>4. arrived["foreign"] = 0 =>
         Accounts(x, arrived["impression"], arrived["action"], NamesCame(arrived))
  BY DEF MeetInv, Tally
<1> HIDE DEF x
<1>5. OutcomeOfRequest
  BY <1>1, NetIs DEF OutcomeOfRequest
<1>6. OutcomeOfImpression
  <2>1. arrived["impression"] \in Nat
    BY MeetTyped, CameIs
  <2>2. Shown /\ arrived["foreign"] = 0 =>
           \/ arrived["impression"] > 0 /\ x.shownAgain = arrived["impression"] - 1
           \/ ~tracking.impression /\ x.shownAgain = arrived["impression"]
    BY <1>2, <1>4 DEF Accounts
  <2> QED  BY <1>1, <1>3, <2>1, <2>2, NetIs DEF OutcomeOfImpression, Less1
<1>7. OutcomeOfClick
  BY <1>1, <1>2, <1>3, NetIs DEF OutcomeOfClick
<1>8. OutcomeOfActions
  BY <1>2, <1>3, <1>4 DEF OutcomeOfActions, Accounts, TellsActions
<1>9. OutcomeOfPostActions
  BY <1>2, <1>3, <1>4 DEF OutcomeOfPostActions, Accounts, NamesCame
<1> QED  BY <1>5, <1>6, <1>7, <1>8, <1>9

(* The sheet as long as the books are in order and the users meet.         *)
SheetInv == Typed /\ (OneRequestMoves /\ OwnersMeet => MeetInv)

LEMMA HomeStays ==
    ASSUME [RequestNext]_requestVars
    PROVE  home' = home
BY DEF RequestNext, RequestRecord, Notice, Impression, ForeignImpression, Click, Action, Post,
       FraudRollback, Operation, Arrive, requestVars

(* As long as a request with impressions of other users has had one        *)
(* request record, and if its users meet (all of them at home with the     *)
(* owner its records come to, or none but its own): whenever nothing is on *)
(* its way, what was told of it is what its records call for, in whatever  *)
(* order they, the rollback and the operations between the owners came     *)
(* (process_*_buf_, change_request_user_id_, RequestOperationProxy).       *)
THEOREM OutcomeIsOrderFreeHolds == RequestSpec => []OutcomeIsOrderFree
<1>1. RequestInit => SheetInv
  BY MeetInit, TypedInit DEF SheetInv
<1>2. SheetInv /\ [RequestNext]_requestVars => SheetInv'
  <2> SUFFICES ASSUME SheetInv, [RequestNext]_requestVars
               PROVE  SheetInv'
    OBVIOUS
  <2>1. Typed'
    BY TypedNext DEF SheetInv
  <2>2. ASSUME OneRequestMoves', OwnersMeet'
        PROVE  MeetInv'
    <3>1. OwnersMeet
      BY <2>2, HomeStays DEF OwnersMeet, Together
    <3>2. OneRequestMoves
      BY <2>2, OneRequestBefore DEF SheetInv
    <3> QED  BY <2>2, <3>1, <3>2, MeetNext DEF SheetInv
  <2> QED  BY <2>1, <2>2 DEF SheetInv
<1>3. SheetInv => OutcomeIsOrderFree
  BY MeetSays DEF SheetInv, OutcomeIsOrderFree
<1> QED  BY <1>1, <1>2, <1>3, PTL DEF RequestSpec

-----------------------------------------------------------------------------
(* FileTransfer.                                                           *)

-----------------------------------------------------------------------------
(* The invariant.                                                          *)

Mover ==
    [pc : {"none", "host", "send", "touch", "unlink"}, host : Host \cup {None},
     try : Nat, exists : BOOLEAN, second : BOOLEAN]

TypeInv ==
    /\ pooled \in BOOLEAN
    /\ logged \in SUBSET File /\ source \in SUBSET File /\ batch \in SUBSET File
    /\ unlink_files \in SUBSET File /\ touched \in SUBSET File
    /\ commits \in SUBSET (File \X Host) /\ commitSent \in SUBSET (File \X Host)
    /\ mover \in [File -> Mover]
    /\ dst_it_ \in Host /\ available \in [Host -> BOOLEAN]
    /\ uploaded \in [Host -> SUBSET File] /\ committed \in [Host -> SUBSET File]
    /\ held \in [Host -> SUBSET File] /\ handling \in [Host -> File \cup {None}]
    /\ processed \in [File -> Nat] /\ late \in [File -> Nat] /\ faults \in Nat

(* A file is moved while it lies at the source, and listed at most once.   *)
PlaceInv(f) ==
    /\ f \in source \cup touched => f \in logged
    /\ f \in batch => f \in source /\ mover[f] = Resting
    /\ mover[f] # Resting => f \in source /\ mover[f].pc # "none"
    /\ mover[f].pc \in {"send", "touch"} => mover[f].host \in Host

(* A receiver has taken a copy.                                            *)
Arrived(f) == processed[f] > 0 \/ \E h \in Host : f \in held[h]

(* There is a commit file for a host, wherever.                            *)
Committed(f, h) ==
    <<f, h>> \in commits \/ <<f, h>> \in commitSent \/ f \in committed[h]

Safe(f) ==
    \/ Arrived(f)
    \/ \E h \in Host :
        f \in uploaded[h] /\ (f \in committed[h] \/ <<f, h>> \in commits)

(* A commit file says that a copy waits at its host, or that a receiver    *)
(* has taken one; what has a commit file may be deleted at the source.     *)
SafeInv(f) ==
    /\ f \in logged => f \in source \/ Safe(f)
    /\ f \in unlink_files \/ mover[f].pc = "unlink" => Safe(f) /\ f \in touched
    /\ mover[f].pc = "touch" => f \in uploaded[mover[f].host] \/ Arrived(f)
    /\ \A h \in Host :
        /\ Committed(f, h) => f \in uploaded[h] \/ Arrived(f)
        /\ <<f, h>> \in commitSent => f \in committed[h] \/ Arrived(f)
        /\ handling[h] = f => Arrived(f)

(* The hosts that may give a copy to their receiver, now or when the mover *)
(* has touched the commit file.                                            *)
Holders(f) == {h \in Host : f \in held[h]}
Waiting(f) ==
    {h \in Host :
        /\ f \in uploaded[h]
        /\ \/ Committed(f, h)
           \/ f \in touched /\ mover[f].pc = "touch" /\ mover[f].host = h}

OnceInv(f) ==
    /\ f \notin touched =>
        /\ ~Arrived(f) /\ late[f] = 0
        /\ \A h \in Host : ~Committed(f, h)
    /\ processed[f] + Cardinality(Holders(f)) + Cardinality(Waiting(f)) <= 1 + late[f]

(* The copies a mover may still make without a failure.                    *)
ToCome(f) ==
    CASE mover[f].pc \in {"none", "host"} -> IF f \in source THEN 2 ELSE 0
      [] mover[f].pc = "send" -> IF mover[f].second THEN 1 ELSE 2
      [] mover[f].pc = "touch" -> IF mover[f].exists /\ ~mover[f].second THEN 1 ELSE 0
      [] mover[f].pc = "unlink" -> 0

LateInv(f) ==
    /\ f \in touched => late[f] + ToCome(f) <= 2 * faults
    /\ f \notin touched =>
        /\ ~mover[f].second
        /\ (\E h \in Host : f \in uploaded[h]) =>
                faults > 0 \/ (mover[f].pc = "touch" /\ ~mover[f].exists)

FileInv(f) == PlaceInv(f) /\ SafeInv(f) /\ OnceInv(f) /\ LateInv(f)

Inv == TypeInv /\ \A f \in File : FileInv(f)


-----------------------------------------------------------------------------
(* The sets of hosts are finite, and what a step adds to one is counted.   *)

LEMMA HostSets ==
    /\ \A A \in SUBSET Host : IsFiniteSet(A) /\ Cardinality(A) \in Nat
    /\ \A A, B \in SUBSET Host : A \subseteq B => Cardinality(A) <= Cardinality(B)
    /\ \A A \in SUBSET Host, h \in Host :
        /\ Cardinality(A \cup {h}) <= Cardinality(A) + 1
        /\ h \in A => Cardinality(A \ {h}) = Cardinality(A) - 1
    /\ Cardinality({}) = 0
<1>1. IsFiniteSet(Host)
  BY FileTransferAssumption, FS_Interval DEF Host
<1>2. ASSUME NEW A \in SUBSET Host PROVE IsFiniteSet(A) /\ Cardinality(A) \in Nat
  BY <1>1, FS_Subset, FS_CardinalityType
<1>3. ASSUME NEW A \in SUBSET Host, NEW B \in SUBSET Host, A \subseteq B
      PROVE  Cardinality(A) <= Cardinality(B)
  BY <1>2, <1>3, FS_Subset
<1>4. ASSUME NEW A \in SUBSET Host, NEW h \in Host
      PROVE  /\ Cardinality(A \cup {h}) <= Cardinality(A) + 1
             /\ h \in A => Cardinality(A \ {h}) = Cardinality(A) - 1
  <2>1. IsFiniteSet(A) /\ Cardinality(A) \in Nat
    BY <1>2
  <2>2. Cardinality(A \cup {h}) <= Cardinality(A) + 1
    <3>1. Cardinality(A \cup {h}) = IF h \in A THEN Cardinality(A) ELSE Cardinality(A) + 1
      BY <2>1, FS_AddElement
    <3> QED  BY <2>1, <3>1
  <2>3. h \in A => Cardinality(A \ {h}) = Cardinality(A) - 1
    BY <2>1, FS_RemoveElement
  <2> QED  BY <2>2, <2>3
<1>5. Cardinality({}) = 0
  BY FS_EmptySet
<1> QED  BY <1>2, <1>3, <1>4, <1>5

(* The first available host is a host.                                     *)
LEMMA Shift ==
    ASSUME NEW a \in Host, NEW h \in Host
    PROVE  \E i \in Host : (a + i) % Hosts = h
<1>1. CASE a <= h
  <2>1. h - a \in Host /\ a + (h - a) = h
    BY <1>1, FileTransferAssumption DEF Host
  <2>2. h % Hosts = h
    BY FileTransferAssumption DEF Host
  <2> QED  BY <2>1, <2>2
<1>2. CASE h < a
  <2>1. /\ h - a + Hosts \in Host
        /\ a + (h - a + Hosts) = h + Hosts
    BY <1>2, FileTransferAssumption DEF Host
  <2>2. (h + Hosts) % Hosts = h
    BY FileTransferAssumption, SMTT(30) DEF Host
  <2> QED  BY <2>1, <2>2
<1> QED  BY <1>1, <1>2, FileTransferAssumption DEF Host

LEMMA FirstIsHost ==
    ASSUME TypeInv, \E h \in Host : available[h]
    PROVE  HostAt(FirstAvailable) \in Host /\ HostAt(FirstAvailable + 1) \in Host
<1> DEFINE S == {i \in Host : available[HostAt(i)]}
<1>1. dst_it_ \in Host /\ Host \subseteq Nat
  BY FileTransferAssumption DEF TypeInv, Host
<1>2. S \subseteq Nat /\ S # {}
  BY <1>1, Shift DEF HostAt
<1>3. PICK m \in S : \A n \in S : m <= n
  <2> HIDE DEF S
  <2> QED  BY <1>2, Smallest
<1>4. ASSUME NEW n \in Host, n < m PROVE ~available[HostAt(n)]
  <2>1. n \notin S
    BY <1>1, <1>2, <1>3, <1>4
  <2> QED  BY <2>1, <1>4
<1>5. FirstAvailable \in Host
  BY <1>3, <1>4 DEF FirstAvailable
<1>6. ASSUME NEW i \in Int PROVE HostAt(i) \in Host
  BY <1>1, FileTransferAssumption DEF HostAt, Host
<1> QED  BY <1>1, <1>5, <1>6, FileTransferAssumption

-----------------------------------------------------------------------------
(* What a step leaves of a file that it does not deal with.                *)

SameStored(g) ==
    /\ (g \in touched') = (g \in touched)
    /\ late'[g] = late[g] /\ processed'[g] = processed[g]
    /\ \A h \in Host :
        /\ (g \in uploaded'[h]) = (g \in uploaded[h])
        /\ (g \in committed'[h]) = (g \in committed[h])
        /\ (g \in held'[h]) = (g \in held[h])
        /\ (<<g, h>> \in commits') = (<<g, h>> \in commits)
        /\ (<<g, h>> \in commitSent') = (<<g, h>> \in commitSent)
        /\ handling'[h] = g => handling[h] = g

SameFile(g) ==
    /\ SameStored(g)
    /\ mover'[g] = mover[g]
    /\ (g \in logged') = (g \in logged)
    /\ (g \in source') = (g \in source)
    /\ g \in batch' => g \in batch
    /\ g \in unlink_files' => g \in unlink_files
    /\ faults' >= faults

LEMMA StoredKept ==
    ASSUME NEW g \in File, SameStored(g)
    PROVE  /\ Arrived(g)' = Arrived(g) /\ Safe(g)' = Safe(g)
           /\ \A h \in Host : Committed(g, h)' = Committed(g, h)
           /\ Holders(g)' = Holders(g)
<1>1. Arrived(g)' = Arrived(g)
  BY DEF SameStored, Arrived
<1>2. \A h \in Host : Committed(g, h)' = Committed(g, h)
  BY DEF SameStored, Committed
<1>3. Safe(g)' = Safe(g)
  BY <1>1 DEF SameStored, Safe
<1>4. Holders(g)' = Holders(g)
  BY DEF SameStored, Holders
<1> QED  BY <1>1, <1>2, <1>3, <1>4

(* Where no copy comes or is taken, a host may only stop to wait.          *)
LEMMA OnceLessens ==
    ASSUME TypeInv, TypeInv', NEW g \in File, OnceInv(g),
           (g \in touched') = (g \in touched), late'[g] = late[g], processed'[g] = processed[g],
           Arrived(g)' = Arrived(g), Holders(g)' = Holders(g),
           \A h \in Host : Committed(g, h)' => Committed(g, h),
           Waiting(g)' \subseteq Waiting(g)
    PROVE  OnceInv(g)'
<1>1. PICK W, V : W = Waiting(g)' /\ V = Waiting(g)
  OBVIOUS
<1>2. W \in SUBSET Host /\ V \in SUBSET Host /\ W \subseteq V
  BY <1>1 DEF Waiting
<1>3. Cardinality(W) <= Cardinality(V) /\ Cardinality(W) \in Nat /\ Cardinality(V) \in Nat
  BY <1>2, HostSets
<1>4. PICK k : k = Cardinality(Holders(g))
  OBVIOUS
<1>5. k \in Nat
  BY <1>4, HostSets DEF Holders
<1>6. processed[g] \in Nat /\ late[g] \in Nat
  BY DEF TypeInv
<1>7. processed[g] + k + Cardinality(V) <= 1 + late[g]
  BY <1>1, <1>4 DEF OnceInv
<1>8. processed'[g] + k + Cardinality(W) <= 1 + late'[g]
  BY <1>3, <1>5, <1>6, <1>7
<1>9. (processed[g] + Cardinality(Holders(g)) + Cardinality(Waiting(g)) <= 1 + late[g])'
  BY <1>8, <1>1, <1>4
<1>10. (g \notin touched => ~Arrived(g) /\ late[g] = 0 /\ \A h \in Host : ~Committed(g, h))'
  BY DEF OnceInv
<1> QED  BY <1>9, <1>10 DEF OnceInv

LEMMA OnceKept ==
    ASSUME TypeInv, TypeInv', NEW g \in File, OnceInv(g), SameStored(g),
           Waiting(g)' \subseteq Waiting(g)
    PROVE  OnceInv(g)'
<1>1. /\ Arrived(g)' = Arrived(g)
      /\ \A h \in Host : Committed(g, h)' = Committed(g, h)
      /\ Holders(g)' = Holders(g)
  BY StoredKept
<1>2. /\ (g \in touched') = (g \in touched)
      /\ late'[g] = late[g] /\ processed'[g] = processed[g]
  BY DEF SameStored
<1> QED  BY <1>1, <1>2, OnceLessens

LEMMA FileKept ==
    ASSUME TypeInv, TypeInv', NEW g \in File, FileInv(g), SameFile(g)
    PROVE  FileInv(g)'
<1>1. /\ Arrived(g)' = Arrived(g) /\ Safe(g)' = Safe(g)
      /\ \A h \in Host : Committed(g, h)' = Committed(g, h)
  BY StoredKept DEF SameFile
<1>2. PlaceInv(g)'
  BY DEF FileInv, PlaceInv, SameFile, SameStored
<1>3. SafeInv(g)'
  <2>1. SafeInv(g) /\ PlaceInv(g)
    BY DEF FileInv
  <2>2. ASSUME mover[g].pc = "touch"
        PROVE  g \in uploaded'[mover[g].host] \/ Arrived(g)
    BY <2>1, <2>2 DEF SafeInv, PlaceInv, SameFile, SameStored
  <2> QED  BY <1>1, <2>1, <2>2 DEF SafeInv, SameFile, SameStored
<1>4. OnceInv(g)'
  <2>1. Waiting(g)' \subseteq Waiting(g)
    BY <1>1 DEF Waiting, SameFile, SameStored
  <2> QED  BY <2>1, OnceKept DEF FileInv, SameFile
<1>5. LateInv(g)'
  <2>1. ToCome(g)' = ToCome(g)
    BY DEF ToCome, SameFile
  <2>2. ToCome(g) \in Nat /\ faults \in Nat /\ faults' \in Nat
    BY DEF ToCome, TypeInv, Mover
  <2>3. LateInv(g)
    BY DEF FileInv
  <2>4. late[g] \in Nat
    BY DEF TypeInv
  <2>5. (g \in touched => late[g] + ToCome(g) <= 2 * faults)'
    <3>1. PICK n : n = ToCome(g)
      OBVIOUS
    <3>2. g \in touched => late[g] + n <= 2 * faults
      BY <2>3, <3>1 DEF LateInv
    <3>3. g \in touched' => late'[g] + n <= 2 * faults'
      BY <2>2, <2>4, <3>1, <3>2 DEF SameFile, SameStored
    <3> QED  BY <3>3, <3>1, <2>1
  <2>6. (g \notin touched =>
            /\ ~mover[g].second
            /\ (\E h \in Host : g \in uploaded[h]) =>
                    faults > 0 \/ (mover[g].pc = "touch" /\ ~mover[g].exists))'
    <3>1. mover'[g] = mover[g] /\ (g \in touched') = (g \in touched)
      BY DEF SameFile, SameStored
    <3>2. (\E h \in Host : g \in uploaded'[h]) => \E h \in Host : g \in uploaded[h]
      BY DEF SameFile, SameStored
    <3>3. faults > 0 => faults' > 0
      BY <2>2 DEF SameFile
    <3> QED  BY <3>1, <3>2, <3>3, <2>3 DEF LateInv
  <2> QED  BY <2>5, <2>6 DEF LateInv
<1> QED  BY <1>2, <1>3, <1>4, <1>5 DEF FileInv

-----------------------------------------------------------------------------
(* Steps of the sender that change no copy.                                *)

SenderMoves(g) ==
    /\ SameStored(g)
    /\ mover'[g].pc # "touch"
    /\ g \in logged' => g \in source' \/ Safe(g)
    /\ g \in unlink_files' \/ mover'[g].pc = "unlink" =>
            g \in unlink_files \/ mover[g].pc = "unlink"
    /\ mover'[g].second => mover[g].second
    /\ \/ faults' > faults
       \/ faults' = faults /\ mover[g].pc # "touch" /\ ToCome(g)' <= ToCome(g)

LEMMA ToComeType ==
    ASSUME TypeInv, NEW g \in File PROVE ToCome(g) \in 0 .. 2
BY DEF ToCome, TypeInv, Mover

LEMMA SenderKeeps ==
    ASSUME TypeInv, TypeInv', NEW g \in File, FileInv(g), SenderMoves(g), PlaceInv(g)'
    PROVE  FileInv(g)'
<1>0. PlaceInv(g) /\ SafeInv(g) /\ OnceInv(g) /\ LateInv(g)
  BY DEF FileInv
<1>1. /\ Arrived(g)' = Arrived(g) /\ Safe(g)' = Safe(g)
      /\ \A h \in Host : Committed(g, h)' = Committed(g, h)
      /\ (g \in touched') = (g \in touched)
  BY StoredKept DEF SenderMoves, SameStored
<1>2. SafeInv(g)'
  BY <1>0, <1>1 DEF SafeInv, SenderMoves, SameStored
<1>3. OnceInv(g)'
  <2>1. Waiting(g)' \subseteq Waiting(g)
    BY <1>1 DEF Waiting, SenderMoves, SameStored
  <2> QED  BY <1>0, <2>1, OnceKept DEF SenderMoves
<1>4. (g \in touched => late[g] + ToCome(g) <= 2 * faults)'
  <2>1. PICK n, m : n = ToCome(g)' /\ m = ToCome(g)
    OBVIOUS
  <2>2. n \in 0 .. 2 /\ m \in 0 .. 2
    <3>1. (ToCome(g) \in 0 .. 2)'
      BY DEF ToCome, TypeInv, Mover
    <3> QED  BY <3>1, <2>1, ToComeType
  <2>3. faults \in Nat /\ faults' \in Nat /\ late[g] \in Nat /\ late'[g] = late[g]
    BY DEF TypeInv, SenderMoves, SameStored
  <2>4. faults' > faults \/ (faults' = faults /\ n <= m)
    BY <2>1 DEF SenderMoves
  <2>5. g \in touched' => late[g] + m <= 2 * faults
    BY <1>0, <1>1, <2>1 DEF LateInv
  <2>6. g \in touched' => late'[g] + n <= 2 * faults'
    BY <2>2, <2>3, <2>4, <2>5
  <2> QED  BY <2>1, <2>6
<1>5. (g \notin touched =>
          /\ ~mover[g].second
          /\ (\E h \in Host : g \in uploaded[h]) =>
                  faults > 0 \/ (mover[g].pc = "touch" /\ ~mover[g].exists))'
  <2> SUFFICES ASSUME g \notin touched'
               PROVE  /\ ~mover'[g].second
                      /\ (\E h \in Host : g \in uploaded'[h]) => faults' > 0
    OBVIOUS
  <2>1. ~mover'[g].second
    BY <1>0, <1>1 DEF LateInv, SenderMoves
  <2>2. ASSUME \E h \in Host : g \in uploaded'[h] PROVE faults' > 0
    <3>1. \E h \in Host : g \in uploaded[h]
      BY <2>2 DEF SenderMoves, SameStored
    <3>2. faults > 0 \/ mover[g].pc = "touch"
      BY <1>0, <1>1, <3>1 DEF LateInv
    <3>3. faults' > faults \/ (faults' = faults /\ mover[g].pc # "touch")
      BY DEF SenderMoves
    <3>4. faults \in Nat /\ faults' \in Nat
      BY DEF TypeInv
    <3> QED  BY <3>2, <3>3, <3>4
  <2> QED  BY <2>1, <2>2
<1>6. LateInv(g)'
  BY <1>4, <1>5 DEF LateInv
<1> QED  BY <1>2, <1>3, <1>6 DEF FileInv

LEMMA RestingMover == Resting \in Mover
BY DEF Resting, Mover

LEMMA CreateKeeps == ASSUME Inv, NEW f \in File, Create(f) PROVE Inv'
<1>1. TypeInv /\ \A g \in File : FileInv(g)
  BY DEF Inv
<1>2. TypeInv'
  BY <1>1 DEF TypeInv, Create, commitVars, receiverVars, history
<1>3. ASSUME NEW g \in File, g # f PROVE FileInv(g)'
  <2>1. SameFile(g)
    BY <1>1, <1>3 DEF SameFile, SameStored, Create, commitVars, receiverVars, history, TypeInv
  <2> QED  BY <1>1, <1>2, <2>1, FileKept
<1>4. FileInv(f)'
  <2>1. PlaceInv(f) /\ f \notin logged
    BY <1>1 DEF FileInv, Create
  <2>2. f \notin source /\ mover[f] = Resting
    BY <2>1 DEF PlaceInv
  <2>3. PlaceInv(f)'
    BY <2>1, <2>2 DEF PlaceInv, Create, Resting, history
  <2>4. ASSUME f \in touched PROVE FALSE
    BY <2>1, <2>4 DEF PlaceInv
  <2>5. SameStored(f) /\ faults' = faults /\ mover' = mover /\ unlink_files' = unlink_files
    BY DEF SameStored, Create, commitVars, receiverVars, history
  <2>6. Arrived(f)' = Arrived(f) /\ Safe(f)' = Safe(f)
        /\ \A h \in Host : Committed(f, h)' = Committed(f, h)
    BY <2>5, StoredKept
  <2>7. SafeInv(f)'
    <3>1. f \in source'
      BY DEF Create
    <3>2. SafeInv(f)
      BY <1>1 DEF FileInv
    <3> QED  BY <2>2, <2>5, <2>6, <3>1, <3>2 DEF SafeInv, SameStored, Resting
  <2>8. OnceInv(f)'
    <3>1. Waiting(f)' \subseteq Waiting(f)
      BY <2>5, <2>6 DEF Waiting, SameStored
    <3> QED  BY <1>1, <1>2, <2>5, <3>1, OnceKept DEF FileInv
  <2>9. LateInv(f)'
    <3>1. LateInv(f)
      BY <1>1 DEF FileInv
    <3> QED  BY <2>4, <2>5, <3>1 DEF LateInv, SameStored
  <2> QED  BY <2>3, <2>7, <2>8, <2>9 DEF FileInv
<1> QED  BY <1>2, <1>3, <1>4 DEF Inv

LEMMA ProcessKeeps == ASSUME Inv, Process PROVE Inv'
<1>1. TypeInv /\ \A g \in File : FileInv(g)
  BY DEF Inv
<1>2. PICK kept \in SUBSET unlink_files :
        /\ IF kept = {} THEN UNCHANGED faults ELSE Fault
        /\ source' = source \ (unlink_files \ kept)
        /\ unlink_files' = kept
        /\ batch' = IF kept = {} THEN source' ELSE {}
  BY DEF Process
<1>3. /\ \A f \in File : mover[f] = Resting
      /\ logged' = logged /\ mover' = mover
      /\ faults' = faults \/ faults' = faults + 1
      /\ UNCHANGED <<pooled, logged, mover, dst_it_, available>>
      /\ UNCHANGED <<commitVars, receiverVars, history>>
  BY <1>2 DEF Process, Fault
<1>4. TypeInv'
  BY <1>1, <1>2, <1>3 DEF TypeInv, commitVars, receiverVars, history
<1>5. ASSUME NEW g \in File PROVE FileInv(g)'
  <2>1. PlaceInv(g) /\ SafeInv(g)
    BY <1>1 DEF FileInv
  <2>2. mover[g] = Resting /\ mover'[g] = Resting
    BY <1>3
  <2>3. PlaceInv(g)'
    BY <1>2, <1>3, <2>1, <2>2 DEF PlaceInv, Resting, history
  <2>4. SameStored(g)
    BY <1>3 DEF SameStored, commitVars, receiverVars, history
  <2>5. ToCome(g)' <= ToCome(g)
    BY <1>2, <2>2 DEF ToCome, Resting
  <2>6. SenderMoves(g)
    BY <1>1, <1>2, <1>3, <2>1, <2>2, <2>4, <2>5
       DEF SenderMoves, Resting, SafeInv, TypeInv
  <2> QED  BY <1>1, <1>4, <2>3, <2>6, SenderKeeps
<1> QED  BY <1>4, <1>5 DEF Inv

LEMMA CrashKeeps == ASSUME Inv, Crash PROVE Inv'
<1>1. TypeInv /\ \A g \in File : FileInv(g)
  BY DEF Inv
<1>2. TypeInv'
  BY <1>1, RestingMover, FileTransferAssumption
     DEF TypeInv, Crash, Fault, commitVars, receiverVars, history, Host
<1>3. ASSUME NEW g \in File PROVE FileInv(g)'
  <2>1. PlaceInv(g) /\ SafeInv(g)
    BY <1>1 DEF FileInv
  <2>2. mover'[g] = Resting /\ batch' = {} /\ unlink_files' = {}
    BY DEF Crash
  <2>3. PlaceInv(g)'
    BY <2>1, <2>2 DEF PlaceInv, Resting, history, Crash
  <2>4. SameStored(g)
    BY DEF SameStored, commitVars, receiverVars, history, Crash
  <2>5. faults' > faults
    BY <1>1 DEF Crash, Fault, TypeInv
  <2>6. SenderMoves(g)
    BY <2>1, <2>2, <2>4, <2>5 DEF SenderMoves, Resting, SafeInv, Crash
  <2> QED  BY <1>1, <1>2, <2>3, <2>6, SenderKeeps
<1> QED  BY <1>2, <1>3 DEF Inv

LEMMA PeriodEndsKeeps == ASSUME Inv, NEW h \in Host, PeriodEnds(h) PROVE Inv'
<1>1. TypeInv /\ \A g \in File : FileInv(g)
  BY DEF Inv
<1>2. TypeInv'
  BY <1>1 DEF TypeInv, PeriodEnds, commitVars, receiverVars, history
<1>3. ASSUME NEW g \in File PROVE FileInv(g)'
  <2>1. SameFile(g)
    BY <1>1 DEF SameFile, SameStored, PeriodEnds, commitVars, receiverVars, history, TypeInv
  <2> QED  BY <1>1, <1>2, <2>1, FileKept
<1> QED  BY <1>2, <1>3 DEF Inv

-----------------------------------------------------------------------------
(* The steps of a mover.                                                   *)

LEMMA BeginKeeps == ASSUME Inv, NEW f \in File, Begin(f) PROVE Inv'
<1>1. TypeInv /\ \A g \in File : FileInv(g)
  BY DEF Inv
<1>2. PlaceInv(f) /\ f \in batch
  BY <1>1 DEF FileInv, Begin
<1>3. f \in source /\ mover[f] = Resting
  BY <1>2 DEF PlaceInv
<1>4. mover' = [mover EXCEPT ![f] = [Resting EXCEPT !.pc = "host"]]
  BY <1>1, <1>3 DEF Begin, TypeInv
<1>5. TypeInv'
  BY <1>1, <1>4 DEF TypeInv, Begin, commitVars, receiverVars, history, Mover, Resting
<1>6. ASSUME NEW g \in File, g # f PROVE FileInv(g)'
  <2>1. SameFile(g)
    BY <1>1, <1>6 DEF SameFile, SameStored, Begin, commitVars, receiverVars, history, TypeInv
  <2> QED  BY <1>1, <1>5, <2>1, FileKept
<1>7. FileInv(f)'
  <2>1. mover'[f] = [Resting EXCEPT !.pc = "host"]
    BY <1>1, <1>4 DEF TypeInv
  <2>2. PlaceInv(f)'
    BY <1>2, <1>3, <2>1 DEF PlaceInv, Begin, Resting, history
  <2>3. SameStored(f) /\ faults' = faults /\ unlink_files' = unlink_files
        /\ logged' = logged /\ source' = source
    BY DEF SameStored, Begin, commitVars, receiverVars, history
  <2>4. ToCome(f)' <= ToCome(f)
    BY <1>3, <2>1, <2>3 DEF ToCome, Resting
  <2>5. SenderMoves(f)
    BY <1>3, <2>1, <2>3, <2>4 DEF SenderMoves, Resting
  <2> QED  BY <1>1, <1>5, <2>2, <2>5, SenderKeeps
<1> QED  BY <1>5, <1>6, <1>7 DEF Inv

LEMMA GetDestHostKeeps == ASSUME Inv, NEW f \in File, GetDestHost(f) PROVE Inv'
<1>1. TypeInv /\ \A g \in File : FileInv(g)
  BY DEF Inv
<1>2. PlaceInv(f) /\ mover[f].pc = "host" /\ mover[f] \in Mover
  BY <1>1 DEF FileInv, GetDestHost, TypeInv
<1>3. f \in source /\ f \notin batch /\ mover[f] # Resting
  BY <1>2 DEF PlaceInv, Resting
<1>4. PICK m \in Mover : /\ mover' = [mover EXCEPT ![f] = m]
                         /\ \/ m = Resting
                            \/ m.pc = "send" /\ m.host \in Host /\ m.second = mover[f].second
  <2>1. CASE \E h \in Host : available[h]
    <3>1. mover' = [mover EXCEPT ![f] =
                        [mover[f] EXCEPT !.pc = "send", !.host = HostAt(FirstAvailable)]]
      BY <1>1, <2>1 DEF GetDestHost, TypeInv
    <3>2. HostAt(FirstAvailable) \in Host
      BY <1>1, <2>1, FirstIsHost
    <3>3. [mover[f] EXCEPT !.pc = "send", !.host = HostAt(FirstAvailable)] \in Mover
      BY <1>2, <3>2 DEF Mover
    <3> QED  BY <1>2, <3>1, <3>2, <3>3 DEF Mover
  <2>2. CASE ~\E h \in Host : available[h]
    BY <2>2, RestingMover DEF GetDestHost, MoveEnds
  <2> QED  BY <2>1, <2>2
<1>5. /\ batch' \subseteq batch /\ dst_it_' \in Host
      /\ UNCHANGED <<pooled, logged, source, unlink_files, available, faults>>
      /\ UNCHANGED <<commitVars, receiverVars, history>>
  BY <1>1, FirstIsHost DEF GetDestHost, MoveEnds, TypeInv
<1>6. TypeInv'
  BY <1>1, <1>4, <1>5 DEF TypeInv, commitVars, receiverVars, history
<1>7. ASSUME NEW g \in File, g # f PROVE FileInv(g)'
  <2>1. SameFile(g)
    BY <1>1, <1>4, <1>5, <1>7 DEF SameFile, SameStored, commitVars, receiverVars, history, TypeInv
  <2> QED  BY <1>1, <1>6, <2>1, FileKept
<1>8. FileInv(f)'
  <2>1. mover'[f] = m
    BY <1>1, <1>4 DEF TypeInv
  <2>2. PlaceInv(f)'
    <3>1. logged' = logged /\ source' = source /\ touched' = touched /\ f \notin batch'
      BY <1>3, <1>5 DEF history
    <3>2. m # Resting => m.pc = "send" /\ m.host \in Host
      BY <1>4
    <3>3. Resting.pc = "none"
      BY DEF Resting
    <3> QED  BY <1>2, <1>3, <2>1, <3>1, <3>2, <3>3 DEF PlaceInv
  <2>3. SameStored(f)
    BY <1>5 DEF SameStored, commitVars, receiverVars, history
  <2>4. ToCome(f)' <= ToCome(f)
    BY <1>2, <1>3, <1>4, <1>5, <2>1 DEF ToCome, Resting
  <2>5. SafeInv(f)
    BY <1>1 DEF FileInv
  <2>6. SenderMoves(f)
    BY <1>2, <1>3, <1>4, <1>5, <2>1, <2>3, <2>4, <2>5 DEF SenderMoves, Resting
  <2> QED  BY <1>1, <1>6, <2>2, <2>6, SenderKeeps
<1> QED  BY <1>6, <1>7, <1>8 DEF Inv

LEMMA UnlinkKeeps == ASSUME Inv, NEW f \in File, Unlink(f) PROVE Inv'
<1>1. TypeInv /\ \A g \in File : FileInv(g)
  BY DEF Inv
<1>2. PlaceInv(f) /\ SafeInv(f) /\ mover[f].pc = "unlink"
  BY <1>1 DEF FileInv, Unlink
<1>3. f \notin batch /\ Safe(f)
  BY <1>2 DEF PlaceInv, SafeInv, Resting
<1>4. /\ mover' = [mover EXCEPT ![f] = Resting] /\ source' = source \ {f} /\ batch' = batch
      /\ UNCHANGED <<pooled, logged, unlink_files, dst_it_, available, faults>>
      /\ UNCHANGED <<commitVars, receiverVars, history>>
  BY DEF Unlink, MoveEnds
<1>5. TypeInv'
  BY <1>1, <1>4, RestingMover DEF TypeInv, commitVars, receiverVars, history
<1>6. ASSUME NEW g \in File, g # f PROVE FileInv(g)'
  <2>1. SameFile(g)
    BY <1>1, <1>4, <1>6 DEF SameFile, SameStored, commitVars, receiverVars, history, TypeInv
  <2> QED  BY <1>1, <1>5, <2>1, FileKept
<1>7. FileInv(f)'
  <2>1. mover'[f] = Resting
    BY <1>1, <1>4 DEF TypeInv
  <2>2. PlaceInv(f)'
    BY <1>2, <1>3, <1>4, <2>1 DEF PlaceInv, Resting, history
  <2>3. SameStored(f)
    BY <1>4 DEF SameStored, commitVars, receiverVars, history
  <2>4. ToCome(f)' <= ToCome(f)
    BY <1>2, <1>4, <2>1 DEF ToCome, Resting
  <2>5. SenderMoves(f)
    BY <1>2, <1>3, <1>4, <2>1, <2>3, <2>4 DEF SenderMoves, Resting
  <2> QED  BY <1>1, <1>5, <2>2, <2>5, SenderKeeps
<1> QED  BY <1>5, <1>6, <1>7 DEF Inv

LEMMA UnlinkFailsKeeps == ASSUME Inv, NEW f \in File, UnlinkFails(f) PROVE Inv'
<1>1. TypeInv /\ \A g \in File : FileInv(g)
  BY DEF Inv
<1>2. PlaceInv(f) /\ mover[f].pc = "unlink"
  BY <1>1 DEF FileInv, UnlinkFails
<1>3. f \notin batch /\ f \in source
  BY <1>2 DEF PlaceInv, Resting
<1>4. /\ mover' = [mover EXCEPT ![f] = Resting] /\ batch' \subseteq batch
      /\ unlink_files' \in {unlink_files, {f}} /\ faults' = faults + 1
      /\ UNCHANGED <<pooled, logged, source, dst_it_, available>>
      /\ UNCHANGED <<commitVars, receiverVars, history>>
  BY DEF UnlinkFails, MoveEnds, Fault
<1>5. TypeInv'
  BY <1>1, <1>4, RestingMover DEF TypeInv, commitVars, receiverVars, history
<1>6. ASSUME NEW g \in File, g # f PROVE FileInv(g)'
  <2>1. SameFile(g)
    BY <1>1, <1>4, <1>6 DEF SameFile, SameStored, commitVars, receiverVars, history, TypeInv
  <2> QED  BY <1>1, <1>5, <2>1, FileKept
<1>7. FileInv(f)'
  <2>1. mover'[f] = Resting
    BY <1>1, <1>4 DEF TypeInv
  <2>2. PlaceInv(f)'
    BY <1>2, <1>3, <1>4, <2>1 DEF PlaceInv, Resting, history
  <2>3. SameStored(f)
    BY <1>4 DEF SameStored, commitVars, receiverVars, history
  <2>4. faults' > faults
    BY <1>1, <1>4 DEF TypeInv
  <2>5. SenderMoves(f)
    BY <1>2, <1>3, <1>4, <2>1, <2>3, <2>4 DEF SenderMoves, Resting
  <2> QED  BY <1>1, <1>5, <2>2, <2>5, SenderKeeps
<1> QED  BY <1>5, <1>6, <1>7 DEF Inv

(* A copy comes to a host.  If the file had a commit file before, the copy *)
(* is late; if not, no host has one to hand it on.                         *)
LEMMA UploadKeeps ==
    ASSUME Inv, TypeInv', NEW f \in File, NEW h \in Host, Upload(f, h),
           mover[f].pc # "touch", mover'[f].pc # "unlink",
           mover'[f].pc = "touch" => mover'[f].host = h,
           UNCHANGED <<logged, source, unlink_files>>,
           UNCHANGED <<commitVars, committed, handling, held, processed, touched>>
    PROVE  SafeInv(f)' /\ OnceInv(f)'
<1>1. TypeInv /\ SafeInv(f) /\ OnceInv(f) /\ (f \in touched') = (f \in touched)
  BY DEF Inv, FileInv
<1>2. /\ uploaded'[h] = uploaded[h] \cup {f}
      /\ \A k \in Host : uploaded[k] \subseteq uploaded'[k]
      /\ \A k \in Host : k # h => uploaded'[k] = uploaded[k]
  BY <1>1 DEF Upload, TypeInv
<1>3. /\ Arrived(f)' = Arrived(f)
      /\ \A k \in Host : Committed(f, k)' = Committed(f, k)
      /\ Holders(f)' = Holders(f)
  BY DEF Arrived, Committed, Holders, commitVars
<1>4. Safe(f) => Safe(f)'
  BY <1>2, <1>3 DEF Safe, commitVars
<1>5. SafeInv(f)'
  BY <1>1, <1>2, <1>3, <1>4 DEF SafeInv, commitVars
<1>6. PICK W, V : W = Waiting(f)' /\ V = Waiting(f)
  OBVIOUS
<1>7. W \in SUBSET Host /\ V \in SUBSET Host /\ W \subseteq V \cup {h}
  BY <1>2, <1>3, <1>6 DEF Waiting
<1>8. f \notin touched => W = {}
  BY <1>1, <1>3, <1>6 DEF Waiting, OnceInv
<1>9. PICK k : k = Cardinality(Holders(f))
  OBVIOUS
<1>10. k \in Nat /\ Cardinality(V) \in Nat /\ Cardinality(W) \in Nat
       /\ Cardinality(W) <= Cardinality(V) + 1 /\ (W = {} => Cardinality(W) = 0)
  <2>1. k \in Nat
    BY <1>9, HostSets DEF Holders
  <2>2. Cardinality(V \cup {h}) <= Cardinality(V) + 1 /\ V \cup {h} \in SUBSET Host
    BY <1>7, HostSets
  <2>3. Cardinality(W) <= Cardinality(V \cup {h})
    BY <1>7, <2>2, HostSets
  <2>4. Cardinality(V) \in Nat /\ Cardinality(W) \in Nat /\ Cardinality(V \cup {h}) \in Nat
    BY <1>7, <2>2, HostSets
  <2>5. W = {} => Cardinality(W) = 0
    BY HostSets
  <2> QED  BY <2>1, <2>2, <2>3, <2>4, <2>5
<1>11. /\ processed[f] \in Nat /\ late[f] \in Nat /\ processed' = processed
       /\ f \in touched => late'[f] = late[f] + 1
       /\ f \notin touched => late'[f] = late[f]
  BY <1>1 DEF Upload, TypeInv
<1>12. processed[f] + k + Cardinality(V) <= 1 + late[f]
  BY <1>1, <1>6, <1>9 DEF OnceInv
<1>13. processed'[f] + k + Cardinality(W) <= 1 + late'[f]
  BY <1>8, <1>10, <1>11, <1>12
<1>14. (processed[f] + Cardinality(Holders(f)) + Cardinality(Waiting(f)) <= 1 + late[f])'
  BY <1>13, <1>3, <1>6, <1>9
<1>15. (f \notin touched => ~Arrived(f) /\ late[f] = 0 /\ \A k_1 \in Host : ~Committed(f, k_1))'
  BY <1>1, <1>3, <1>11 DEF OnceInv
<1> QED  BY <1>5, <1>14, <1>15 DEF OnceInv

LEMMA SendKeeps == ASSUME Inv, NEW f \in File, Send(f) PROVE Inv'
<1>1. TypeInv /\ \A g \in File : FileInv(g)
  BY DEF Inv
<1>2. PICK h, m : /\ h = mover[f].host
                  /\ m = [mover[f] EXCEPT !.pc = "touch", !.exists = f \in uploaded[h]]
  OBVIOUS
<1>3. PlaceInv(f) /\ LateInv(f) /\ mover[f].pc = "send" /\ mover[f] \in Mover /\ h \in Host
  BY <1>1, <1>2 DEF FileInv, PlaceInv, Send, TypeInv
<1>4. f \in source /\ f \notin batch
  BY <1>3 DEF PlaceInv, Resting
<1>5. m \in Mover /\ m.pc = "touch" /\ m.host = h /\ m.exists = (f \in uploaded[h])
      /\ m.second = mover[f].second
  <2>0. (f \in uploaded[h]) \in BOOLEAN
    OBVIOUS
  <2>1. PICK e \in BOOLEAN : e = (f \in uploaded[h])
    BY <2>0, Zenon
  <2>2. m = [mover[f] EXCEPT !.pc = "touch", !.exists = e]
    BY <1>2, <2>1
  <2>3. m \in Mover /\ m.pc = "touch" /\ m.host = h /\ m.exists = e /\ m.second = mover[f].second
    BY <1>2, <1>3, <2>2 DEF Mover
  <2> QED  BY <2>1, <2>3
<1>6. mover' = [mover EXCEPT ![f] = m]
  BY <1>1, <1>2 DEF Send, TypeInv
<1>7. /\ Upload(f, h)
      /\ UNCHANGED <<pooled, logged, source, batch, unlink_files, dst_it_, available, faults>>
      /\ UNCHANGED <<commitVars, committed, handling, held, processed, touched>>
  BY <1>2 DEF Send
<1>8. TypeInv'
  <2>1. uploaded' \in [Host -> SUBSET File]
    BY <1>1, <1>7 DEF Upload, TypeInv
  <2>2. late' \in [File -> Nat]
    BY <1>1, <1>7 DEF Upload, TypeInv
  <2> QED  BY <1>1, <1>5, <1>6, <1>7, <2>1, <2>2 DEF TypeInv, commitVars
<1>9. ASSUME NEW g \in File, g # f PROVE FileInv(g)'
  <2>1. SameFile(g)
    BY <1>1, <1>6, <1>7, <1>9 DEF SameFile, SameStored, Upload, commitVars, TypeInv
  <2> QED  BY <1>1, <1>8, <2>1, FileKept
<1>10. FileInv(f)'
  <2>1. mover'[f] = m
    BY <1>1, <1>6 DEF TypeInv
  <2>2. PlaceInv(f)'
    BY <1>3, <1>4, <1>5, <1>7, <2>1 DEF PlaceInv
  <2>3. SafeInv(f)' /\ OnceInv(f)'
    BY <1>3, <1>5, <1>7, <1>8, <2>1, UploadKeeps
  <2>4. /\ late[f] \in Nat /\ faults \in Nat /\ faults' = faults /\ touched' = touched
        /\ f \in touched => late'[f] = late[f] + 1
    BY <1>1, <1>7 DEF Upload, TypeInv
  <2>5. (f \in touched => late[f] + ToCome(f) <= 2 * faults)'
    <3>1. CASE mover[f].second
      <4>1. ToCome(f) = 1 /\ ToCome(f)' = 0
        BY <1>3, <1>5, <2>1, <3>1 DEF ToCome
      <4> QED  BY <1>3, <2>4, <4>1 DEF LateInv
    <3>2. CASE ~mover[f].second
      <4>1. ToCome(f) = 2 /\ ToCome(f)' \in {0, 1}
        BY <1>3, <1>5, <2>1, <3>2 DEF ToCome
      <4> QED  BY <1>3, <2>4, <4>1 DEF LateInv
    <3> QED  BY <3>1, <3>2
  <2>6. (f \notin touched =>
            /\ ~mover[f].second
            /\ (\E k \in Host : f \in uploaded[k]) =>
                    faults > 0 \/ (mover[f].pc = "touch" /\ ~mover[f].exists))'
    <3> SUFFICES ASSUME f \notin touched
                 PROVE  ~m.second /\ (faults' > 0 \/ (m.pc = "touch" /\ ~m.exists))
      BY <2>1, <2>4
    <3>1. ~mover[f].second
      BY <1>3 DEF LateInv
    <3>2. f \in uploaded[h] => faults > 0
      BY <1>3 DEF LateInv
    <3> QED  BY <1>5, <2>4, <3>1, <3>2
  <2> QED  BY <2>2, <2>3, <2>5, <2>6 DEF FileInv, LateInv
<1> QED  BY <1>8, <1>9, <1>10 DEF Inv

(* A failed try leaves the file to the next one, or to a later listing.    *)
TryMoves(f) ==
    /\ \E m \in Mover : /\ mover' = [mover EXCEPT ![f] = m]
                        /\ m = Resting \/ m.pc = "host"
                        /\ ~m.second
    /\ batch' \subseteq batch
    /\ faults' = faults + 1
    /\ available' \in [Host -> BOOLEAN]

LEMMA TryFailsMoves ==
    ASSUME TypeInv, NEW f \in File, TryFails(f) PROVE TryMoves(f)
<1>1. mover[f] \in Mover /\ mover[f].try \in Nat
  BY DEF TypeInv, Mover
<1>2. PICK m : m = [Resting EXCEPT !.pc = "host", !.try = mover[f].try + 1]
  OBVIOUS
<1>3. m \in Mover /\ m.pc = "host" /\ ~m.second
  <2>1. m = [pc |-> "host", host |-> None, try |-> mover[f].try + 1, exists |-> FALSE,
             second |-> FALSE]
    BY <1>2 DEF Resting
  <2> QED  BY <1>1, <2>1 DEF Mover
<1>4. mover' = [mover EXCEPT ![f] = m] \/ mover' = [mover EXCEPT ![f] = Resting]
  BY <1>2 DEF TryFails, MoveEnds
<1>5. Resting \in Mover /\ ~Resting.second
  BY DEF Resting, Mover
<1>6. batch' \subseteq batch /\ faults' = faults + 1 /\ available' \in [Host -> BOOLEAN]
  BY DEF TryFails, MoveEnds, Fault, TypeInv
<1> QED  BY <1>3, <1>4, <1>5, <1>6 DEF TryMoves

LEMMA TryPlaced ==
    ASSUME Inv, NEW f \in File, TryMoves(f), mover[f].pc \in {"send", "touch"},
           UNCHANGED <<logged, source>>, touched' \subseteq touched \cup {f}
    PROVE  /\ PlaceInv(f)'
           /\ mover'[f].pc \in {"none", "host"} /\ ~mover'[f].second
           /\ \A g \in File : g # f => mover'[g] = mover[g]
           /\ mover' \in [File -> Mover]
<1>1. TypeInv /\ PlaceInv(f)
  BY DEF Inv, FileInv
<1>2. f \in source /\ f \notin batch
  BY <1>1 DEF PlaceInv, Resting
<1>3. PICK m \in Mover : /\ mover' = [mover EXCEPT ![f] = m]
                         /\ m = Resting \/ m.pc = "host"
                         /\ ~m.second
  BY DEF TryMoves
<1>4. mover'[f] = m /\ \A g \in File : g # f => mover'[g] = mover[g]
  BY <1>1, <1>3 DEF TypeInv
<1>5. PlaceInv(f)'
  <2>1. logged' = logged /\ source' = source /\ f \notin batch' /\ f \in logged
    BY <1>1, <1>2 DEF TryMoves, PlaceInv
  <2>2. m.pc \notin {"send", "touch"} /\ (m # Resting => m.pc # "none")
    BY <1>3 DEF Resting
  <2> QED  BY <1>2, <1>4, <2>1, <2>2 DEF PlaceInv
<1> QED  BY <1>1, <1>3, <1>4, <1>5 DEF Resting, TypeInv

(* Each failure pays for two late copies.                                  *)
LEMMA TryLate ==
    ASSUME Inv, TypeInv', NEW f \in File, TryMoves(f),
           mover'[f].pc \in {"none", "host"}, ~mover'[f].second,
           f \in touched => \/ mover[f].pc = "send" /\ late'[f] <= late[f] + 1
                            \/ late'[f] = late[f],
           f \notin touched => late'[f] = 0
    PROVE  LateInv(f)'
<1>1. TypeInv /\ LateInv(f) /\ OnceInv(f)
  BY DEF Inv, FileInv
<1>2. late[f] \in Nat /\ faults \in Nat /\ faults' = faults + 1 /\ late'[f] \in Nat
  BY <1>1 DEF TypeInv, TryMoves
<1>3. PICK n, k : n = ToCome(f)' /\ k = ToCome(f)
  OBVIOUS
<1>4. n \in 0 .. 2
  BY <1>3 DEF ToCome
<1>5. k \in 0 .. 2 /\ (mover[f].pc = "send" => k >= 1)
  <2>1. k \in 0 .. 2
    BY <1>1, <1>3, ToComeType
  <2>2. mover[f].pc = "send" => k >= 1
    BY <1>3 DEF ToCome
  <2> QED  BY <2>1, <2>2
<1>6. late'[f] + n <= 2 * faults'
  <2>1. CASE f \in touched
    <3>1. late[f] + k <= 2 * faults
      BY <1>1, <1>3, <2>1 DEF LateInv
    <3> QED  BY <1>2, <1>4, <1>5, <2>1, <3>1
  <2>2. CASE f \notin touched
    BY <1>2, <1>4, <2>2
  <2> QED  BY <2>1, <2>2
<1>7. (late[f] + ToCome(f) <= 2 * faults)'
  BY <1>3, <1>6
<1> QED  BY <1>2, <1>7 DEF LateInv

LEMMA SendFailsKeeps == ASSUME Inv, NEW f \in File, SendFails(f) PROVE Inv'
<1>1. TypeInv /\ \A g \in File : FileInv(g)
  BY DEF Inv
<1>2. PICK h : h = mover[f].host
  OBVIOUS
<1>3. PlaceInv(f) /\ LateInv(f) /\ OnceInv(f) /\ mover[f].pc = "send" /\ h \in Host
  BY <1>1, <1>2 DEF FileInv, PlaceInv, SendFails
<1>4. TryMoves(f)
  BY <1>1, TryFailsMoves DEF SendFails
<1>5. /\ Upload(f, h) \/ UNCHANGED <<uploaded, late>>
      /\ UNCHANGED <<pooled, logged, source, unlink_files, dst_it_>>
      /\ UNCHANGED <<commitVars, committed, handling, held, processed, touched>>
  BY <1>2 DEF SendFails
<1>6. /\ PlaceInv(f)'
      /\ mover'[f].pc \in {"none", "host"} /\ ~mover'[f].second
      /\ \A g \in File : g # f => mover'[g] = mover[g]
      /\ mover' \in [File -> Mover]
  BY <1>3, <1>4, <1>5, TryPlaced
<1>7. TypeInv'
  <2>1. uploaded' \in [Host -> SUBSET File] /\ late' \in [File -> Nat]
    BY <1>1, <1>5 DEF Upload, TypeInv
  <2> QED  BY <1>1, <1>4, <1>5, <1>6, <2>1 DEF TypeInv, TryMoves, commitVars
<1>8. ASSUME NEW g \in File, g # f PROVE FileInv(g)'
  <2>1. SameStored(g)
    BY <1>1, <1>5, <1>8 DEF SameStored, Upload, commitVars, TypeInv
  <2>2. SameFile(g)
    BY <1>1, <1>4, <1>5, <1>6, <1>8, <2>1 DEF SameFile, TryMoves, TypeInv
  <2> QED  BY <1>1, <1>7, <2>2, FileKept
<1>9. SafeInv(f)' /\ OnceInv(f)'
  <2>1. CASE Upload(f, h)
    BY <1>3, <1>5, <1>6, <1>7, <2>1, UploadKeeps
  <2>2. CASE UNCHANGED <<uploaded, late>>
    <3>1. SameStored(f)
      BY <1>5, <2>2 DEF SameStored, commitVars
    <3>2. faults' > faults
      BY <1>1, <1>4 DEF TryMoves, TypeInv
    <3>3. SafeInv(f)
      BY <1>1 DEF FileInv
    <3>4. SenderMoves(f)
      BY <1>3, <1>5, <1>6, <3>1, <3>2, <3>3 DEF SenderMoves, SafeInv
    <3>5. FileInv(f)'
      BY <1>1, <1>6, <1>7, <3>4, SenderKeeps
    <3> QED  BY <3>5 DEF FileInv
  <2> QED  BY <1>5, <2>1, <2>2
<1>10. LateInv(f)'
  <2>1. late[f] \in Nat
    BY <1>1 DEF TypeInv
  <2>2. f \in touched => late'[f] <= late[f] + 1
    BY <1>1, <1>5, <2>1 DEF Upload, TypeInv
  <2>3. f \notin touched => late'[f] = 0
    BY <1>3, <1>5 DEF Upload, OnceInv
  <2> QED  BY <1>3, <1>4, <1>6, <1>7, <2>2, <2>3, TryLate
<1> QED  BY <1>6, <1>7, <1>8, <1>9, <1>10 DEF Inv, FileInv

(* A commit file is written for a host that the file came to, or for a     *)
(* copy that has been taken; the host then waits, if it did not before.    *)
LEMMA CommitKeeps ==
    ASSUME Inv, TypeInv', NEW f \in File, NEW h \in Host, Commit(f, h),
           mover[f].pc = "touch", mover[f].host = h, mover'[f].pc # "touch",
           UNCHANGED <<logged, source, unlink_files, commitSent, late>>, UNCHANGED receiverVars
    PROVE  SafeInv(f)' /\ OnceInv(f)'
<1>1. TypeInv /\ PlaceInv(f) /\ SafeInv(f) /\ OnceInv(f)
  BY DEF Inv, FileInv
<1>2. /\ f \in uploaded[h] \/ Arrived(f)
      /\ f \in touched' /\ <<f, h>> \in commits'
      /\ \A k \in Host : <<f, k>> \in commits' => <<f, k>> \in commits \/ k = h
      /\ commits \subseteq commits'
  BY <1>1 DEF SafeInv, Commit
<1>3. /\ Arrived(f)' = Arrived(f) /\ Holders(f)' = Holders(f)
      /\ \A k \in Host : Committed(f, k)' => Committed(f, k) \/ k = h
  BY <1>2 DEF Arrived, Committed, Holders, receiverVars
<1>4. Safe(f)'
  BY <1>2, <1>3 DEF Safe, receiverVars
<1>5. SafeInv(f)'
  BY <1>1, <1>2, <1>3, <1>4 DEF SafeInv, receiverVars
<1>6. PICK W, V : W = Waiting(f)' /\ V = Waiting(f)
  OBVIOUS
<1>7. W \in SUBSET Host /\ V \in SUBSET Host
  BY <1>6 DEF Waiting
<1>8. f \in touched => W \subseteq V
  BY <1>3, <1>6 DEF Waiting, receiverVars
<1>9. f \notin touched => W \subseteq {h} /\ Holders(f) = {} /\ processed[f] = 0 /\ late[f] = 0
  BY <1>1, <1>3, <1>6 DEF Waiting, OnceInv, Arrived, Holders, TypeInv
<1>10. PICK k : k = Cardinality(Holders(f))
  OBVIOUS
<1>11. k \in Nat /\ Cardinality(V) \in Nat /\ Cardinality(W) \in Nat
  BY <1>7, <1>10, HostSets DEF Holders
<1>12. f \in touched => Cardinality(W) <= Cardinality(V)
  BY <1>7, <1>8, HostSets
<1>13. f \notin touched => Cardinality(W) <= 1 /\ k = 0
  <2> SUFFICES ASSUME f \notin touched PROVE Cardinality(W) <= 1 /\ k = 0
    OBVIOUS
  <2>1. {h} \in SUBSET Host /\ {} \in SUBSET Host /\ {} \cup {h} = {h}
    OBVIOUS
  <2>2. Cardinality({h}) <= 1
    BY <2>1, HostSets
  <2>3. Cardinality(W) <= Cardinality({h}) /\ Cardinality({h}) \in Nat
    BY <1>7, <1>9, <2>1, HostSets
  <2> QED  BY <1>9, <1>10, <1>11, <2>2, <2>3, HostSets
<1>14. processed[f] \in Nat /\ late[f] \in Nat /\ processed' = processed /\ late' = late
  BY <1>1 DEF TypeInv, receiverVars
<1>15. processed[f] + k + Cardinality(V) <= 1 + late[f]
  BY <1>1, <1>6, <1>10 DEF OnceInv
<1>16. processed'[f] + k + Cardinality(W) <= 1 + late'[f]
  <2>1. CASE f \in touched
    BY <1>11, <1>12, <1>14, <1>15, <2>1
  <2>2. CASE f \notin touched
    BY <1>9, <1>11, <1>13, <1>14, <2>2
  <2> QED  BY <2>1, <2>2
<1>17. (processed[f] + Cardinality(Holders(f)) + Cardinality(Waiting(f)) <= 1 + late[f])'
  BY <1>3, <1>6, <1>10, <1>16
<1> QED  BY <1>2, <1>5, <1>17 DEF OnceInv

LEMMA TouchKeeps == ASSUME Inv, NEW f \in File, Touch(f) PROVE Inv'
<1>1. TypeInv /\ \A g \in File : FileInv(g)
  BY DEF Inv
<1>2. PICK h : h = mover[f].host
  OBVIOUS
<1>3. /\ PlaceInv(f) /\ LateInv(f) /\ SafeInv(f) /\ OnceInv(f)
      /\ mover[f].pc = "touch" /\ mover[f] \in Mover /\ h \in Host
  BY <1>1, <1>2 DEF FileInv, PlaceInv, Touch, TypeInv
<1>4. f \in source /\ f \notin batch /\ f \in logged
  BY <1>3 DEF PlaceInv, Resting
<1>5. PICK m : mover' = [mover EXCEPT ![f] = m] /\
            m = IF mover[f].exists /\ ~mover[f].second
                THEN [mover[f] EXCEPT !.pc = "send", !.second = TRUE]
                ELSE [mover[f] EXCEPT !.pc = "unlink"]
  BY DEF Touch
<1>6. /\ m \in Mover /\ m.host = h /\ m.pc \in {"send", "unlink"}
      /\ m.pc = "send" => mover[f].exists /\ ~mover[f].second /\ m.second
  BY <1>2, <1>3, <1>5 DEF Mover
<1>7. /\ Commit(f, h)
      /\ UNCHANGED <<pooled, logged, source, batch, unlink_files, dst_it_, available, faults>>
      /\ UNCHANGED <<commitSent, late>> /\ UNCHANGED receiverVars
  BY <1>2 DEF Touch
<1>8. TypeInv'
  <2>1. commits' \in SUBSET (File \X Host) /\ touched' \in SUBSET File
    BY <1>1, <1>3, <1>7 DEF Commit, TypeInv
  <2>2. mover' \in [File -> Mover]
    BY <1>1, <1>5, <1>6 DEF TypeInv
  <2> QED  BY <1>1, <1>7, <2>1, <2>2 DEF TypeInv, receiverVars
<1>9. ASSUME NEW g \in File, g # f PROVE FileInv(g)'
  <2>1. SameFile(g)
    BY <1>1, <1>5, <1>7, <1>9 DEF SameFile, SameStored, Commit, receiverVars, TypeInv
  <2> QED  BY <1>1, <1>8, <2>1, FileKept
<1>10. FileInv(f)'
  <2>1. mover'[f] = m
    BY <1>1, <1>5 DEF TypeInv
  <2>2. PlaceInv(f)'
    BY <1>3, <1>4, <1>6, <1>7, <2>1 DEF PlaceInv
  <2>3. SafeInv(f)' /\ OnceInv(f)'
    BY <1>2, <1>3, <1>6, <1>7, <1>8, <2>1, CommitKeeps
  <2>4. late[f] \in Nat /\ faults \in Nat /\ faults' = faults /\ late' = late /\ f \in touched'
    BY <1>1, <1>7 DEF Commit, TypeInv
  <2>5. PICK n : n = ToCome(f)'
    OBVIOUS
  <2>6. n = IF m.pc = "send" THEN 1 ELSE 0
    BY <1>6, <2>1, <2>5 DEF ToCome
  <2>7. late[f] + n <= 2 * faults
    <3>1. CASE f \in touched
      <4>1. PICK k : k = ToCome(f)
        OBVIOUS
      <4>2. n <= k
        BY <1>3, <1>6, <2>6, <4>1 DEF ToCome
      <4>3. late[f] + k <= 2 * faults /\ k \in Nat
        BY <1>1, <1>3, <3>1, <4>1, ToComeType DEF LateInv
      <4> QED  BY <2>4, <2>6, <4>2, <4>3
    <3>2. CASE f \notin touched
      <4>1. late[f] = 0 /\ f \in uploaded[h]
        BY <1>2, <1>3, <3>2 DEF OnceInv, SafeInv
      <4>2. m.pc = "send" => faults > 0
        BY <1>3, <1>6, <3>2, <4>1 DEF LateInv
      <4> QED  BY <2>4, <2>6, <4>1, <4>2
    <3> QED  BY <3>1, <3>2
  <2>8. (late[f] + ToCome(f) <= 2 * faults)'
    BY <2>4, <2>5, <2>7
  <2>9. LateInv(f)'
    BY <2>4, <2>8 DEF LateInv
  <2> QED  BY <2>2, <2>3, <2>9 DEF FileInv
<1> QED  BY <1>8, <1>9, <1>10 DEF Inv

LEMMA TouchFailsKeeps == ASSUME Inv, NEW f \in File, TouchFails(f) PROVE Inv'
<1>1. TypeInv /\ \A g \in File : FileInv(g)
  BY DEF Inv
<1>2. PICK h : h = mover[f].host
  OBVIOUS
<1>3. /\ PlaceInv(f) /\ LateInv(f) /\ OnceInv(f) /\ SafeInv(f)
      /\ mover[f].pc = "touch" /\ h \in Host
  BY <1>1, <1>2 DEF FileInv, PlaceInv, TouchFails, TypeInv
<1>4. TryMoves(f)
  BY <1>1, TryFailsMoves DEF TouchFails
<1>5. /\ Commit(f, h) \/ UNCHANGED <<commits, touched>>
      /\ UNCHANGED <<pooled, logged, source, unlink_files, dst_it_>>
      /\ UNCHANGED <<commitSent, late>> /\ UNCHANGED receiverVars
  BY <1>2 DEF TouchFails
<1>6. /\ PlaceInv(f)'
      /\ mover'[f].pc \in {"none", "host"} /\ ~mover'[f].second
      /\ \A g \in File : g # f => mover'[g] = mover[g]
      /\ mover' \in [File -> Mover]
  <2>1. touched' \subseteq touched \cup {f}
    BY <1>5 DEF Commit
  <2> QED  BY <1>3, <1>4, <1>5, <2>1, TryPlaced
<1>7. TypeInv'
  <2>1. commits' \in SUBSET (File \X Host) /\ touched' \in SUBSET File
    BY <1>1, <1>3, <1>5 DEF Commit, TypeInv
  <2> QED  BY <1>1, <1>4, <1>5, <1>6, <2>1 DEF TypeInv, TryMoves, receiverVars
<1>8. ASSUME NEW g \in File, g # f PROVE FileInv(g)'
  <2>1. SameStored(g)
    BY <1>1, <1>5, <1>8 DEF SameStored, Commit, receiverVars, TypeInv
  <2>2. SameFile(g)
    BY <1>1, <1>4, <1>5, <1>6, <1>8, <2>1 DEF SameFile, TryMoves, TypeInv
  <2> QED  BY <1>1, <1>7, <2>2, FileKept
<1>9. SafeInv(f)' /\ OnceInv(f)'
  <2>1. CASE Commit(f, h)
    BY <1>2, <1>3, <1>5, <1>6, <1>7, <2>1, CommitKeeps
  <2>2. CASE UNCHANGED <<commits, touched>>
    <3>1. SameStored(f)
      BY <1>5, <2>2 DEF SameStored, receiverVars
    <3>2. faults' > faults
      BY <1>1, <1>4 DEF TryMoves, TypeInv
    <3>3. SenderMoves(f)
      BY <1>3, <1>5, <1>6, <3>1, <3>2 DEF SenderMoves, SafeInv
    <3>4. FileInv(f)'
      BY <1>1, <1>6, <1>7, <3>3, SenderKeeps
    <3> QED  BY <3>4 DEF FileInv
  <2> QED  BY <1>5, <2>1, <2>2
<1>10. LateInv(f)'
  <2>1. late'[f] = late[f]
    BY <1>5
  <2>2. f \notin touched => late'[f] = 0
    BY <1>3, <2>1 DEF OnceInv
  <2> QED  BY <1>4, <1>6, <1>7, <2>1, <2>2, TryLate
<1> QED  BY <1>6, <1>7, <1>8, <1>9, <1>10 DEF Inv, FileInv

-----------------------------------------------------------------------------
(* The route of the commit files and the receivers.                        *)

LEMMA SenderRests ==
    ASSUME Inv, TypeInv', NEW f \in File, UNCHANGED <<senderVars, history>>, faults' >= faults,
           \A h \in Host : f \in uploaded'[h] => f \in uploaded[h]
    PROVE  PlaceInv(f)' /\ LateInv(f)'
<1>1. TypeInv /\ PlaceInv(f) /\ LateInv(f)
  BY DEF Inv, FileInv
<1>2. UNCHANGED <<mover, source, logged, batch>> /\ UNCHANGED <<touched, late>>
  BY DEF senderVars, history
<1>3. PlaceInv(f)'
  BY <1>1, <1>2 DEF PlaceInv
<1>4. PICK n : n = ToCome(f)' /\ n = ToCome(f) /\ n \in 0 .. 2
  <2>1. ToCome(f)' = ToCome(f)
    BY <1>2 DEF ToCome
  <2> QED  BY <1>1, <2>1, ToComeType
<1>5. faults \in Nat /\ faults' \in Nat /\ late[f] \in Nat
  BY <1>1 DEF TypeInv
<1>6. f \in touched => late[f] + n <= 2 * faults'
  <2>1. f \in touched => late[f] + n <= 2 * faults
    BY <1>1, <1>4 DEF LateInv
  <2> QED  BY <1>4, <1>5, <2>1
<1>7. (f \in touched => late[f] + ToCome(f) <= 2 * faults)'
  BY <1>2, <1>4, <1>6
<1>8. (f \notin touched =>
          /\ ~mover[f].second
          /\ (\E h \in Host : f \in uploaded[h]) =>
                  faults > 0 \/ (mover[f].pc = "touch" /\ ~mover[f].exists))'
  <2>1. faults > 0 => faults' > 0
    BY <1>5
  <2>2. (\E h \in Host : f \in uploaded'[h]) => \E h \in Host : f \in uploaded[h]
    OBVIOUS
  <2> QED  BY <1>1, <1>2, <2>1, <2>2 DEF LateInv
<1> QED  BY <1>3, <1>7, <1>8 DEF LateInv

LEMMA SendCommitKeeps ==
    ASSUME Inv, NEW f \in File, NEW h \in Host, SendCommit(f, h) PROVE Inv'
<1>1. TypeInv /\ \A g \in File : FileInv(g)
  BY DEF Inv
<1>2. SafeInv(f) /\ OnceInv(f) /\ <<f, h>> \in commits
  BY <1>1 DEF FileInv, SendCommit
<1>3. /\ committed' = [committed EXCEPT ![h] = @ \cup {f}]
      /\ commitSent' = commitSent \cup {<<f, h>>}
      /\ UNCHANGED <<pooled, senderVars, commits, faults>>
      /\ UNCHANGED <<uploaded, handling, held, processed, history>>
  BY DEF SendCommit
<1>4. TypeInv'
  BY <1>1, <1>3 DEF TypeInv, senderVars, history
<1>5. ASSUME NEW g \in File, g # f PROVE FileInv(g)'
  <2>1. SameFile(g)
    BY <1>1, <1>3, <1>5 DEF SameFile, SameStored, senderVars, history, TypeInv
  <2> QED  BY <1>1, <1>4, <2>1, FileKept
<1>6. FileInv(f)'
  <2>1. PlaceInv(f)' /\ LateInv(f)'
    BY <1>1, <1>3, <1>4, SenderRests DEF TypeInv
  <2>2. /\ committed'[h] = committed[h] \cup {f}
        /\ \A k \in Host : k # h => committed'[k] = committed[k]
    BY <1>1, <1>3 DEF TypeInv
  <2>3. /\ Arrived(f)' = Arrived(f) /\ Holders(f)' = Holders(f)
        /\ \A k \in Host : Committed(f, k)' = Committed(f, k)
    BY <1>2, <1>3, <2>2 DEF Arrived, Holders, Committed
  <2>4. Safe(f) => Safe(f)'
    BY <1>3, <2>2, <2>3 DEF Safe
  <2>5. SafeInv(f)'
    BY <1>2, <1>3, <2>2, <2>3, <2>4 DEF SafeInv, senderVars, history
  <2>6. Waiting(f)' = Waiting(f)
    BY <1>3, <2>3 DEF Waiting, senderVars, history
  <2>7. processed' = processed /\ late' = late /\ touched' = touched
    BY <1>3 DEF history
  <2>8. OnceInv(f)'
    BY <1>2, <2>3, <2>6, <2>7 DEF OnceInv
  <2> QED  BY <2>1, <2>5, <2>8 DEF FileInv
<1> QED  BY <1>4, <1>5, <1>6 DEF Inv

LEMMA UnlinkCommitKeeps ==
    ASSUME Inv, NEW f \in File, NEW h \in Host, UnlinkCommit(f, h) PROVE Inv'
<1>1. TypeInv /\ \A g \in File : FileInv(g)
  BY DEF Inv
<1>2. SafeInv(f) /\ OnceInv(f) /\ <<f, h>> \in commitSent
  BY <1>1 DEF FileInv, UnlinkCommit
<1>3. /\ commitSent' = commitSent \ {<<f, h>>}
      /\ commits' = commits \ {<<f, h>>} \/ commits' = commits
      /\ faults' = faults \/ faults' = faults + 1
      /\ UNCHANGED <<pooled, senderVars, receiverVars, history>>
  BY DEF UnlinkCommit, Fault
<1>4. TypeInv'
  BY <1>1, <1>3 DEF TypeInv, senderVars, receiverVars, history
<1>5. faults' >= faults
  BY <1>1, <1>3 DEF TypeInv
<1>6. ASSUME NEW g \in File, g # f PROVE FileInv(g)'
  <2>1. SameFile(g)
    BY <1>1, <1>3, <1>5, <1>6 DEF SameFile, SameStored, senderVars, receiverVars, history
  <2> QED  BY <1>1, <1>4, <2>1, FileKept
<1>7. FileInv(f)'
  <2>1. PlaceInv(f)' /\ LateInv(f)'
    BY <1>3, <1>4, <1>5, SenderRests DEF receiverVars
  <2>2. f \in committed[h] \/ Arrived(f)
    BY <1>2 DEF SafeInv
  <2>3. /\ Arrived(f)' = Arrived(f) /\ Holders(f)' = Holders(f)
        /\ \A k \in Host : Committed(f, k)' => Committed(f, k)
    BY <1>3 DEF Arrived, Holders, Committed, receiverVars
  <2>4. Safe(f) => Safe(f)'
    BY <1>3, <2>2, <2>3 DEF Safe, receiverVars
  <2>5. SafeInv(f)'
    BY <1>2, <1>3, <2>3, <2>4 DEF SafeInv, senderVars, receiverVars, history
  <2>6. Waiting(f)' \subseteq Waiting(f)
    BY <1>3, <2>3 DEF Waiting, senderVars, receiverVars, history
  <2>7. UNCHANGED <<processed, late, touched>>
    BY <1>3 DEF history, receiverVars
  <2>8. OnceInv(f)'
    BY <1>1, <1>2, <1>4, <2>3, <2>6, <2>7, OnceLessens
  <2> QED  BY <2>1, <2>5, <2>8 DEF FileInv
<1> QED  BY <1>4, <1>6, <1>7 DEF Inv

(* A receiver drops the commit file of a copy that it has taken.           *)
LEMMA DropCommitKeeps == ASSUME Inv, NEW h \in Host, DropCommit(h) PROVE Inv'
<1>1. TypeInv /\ \A g \in File : FileInv(g)
  BY DEF Inv
<1>2. PICK f \in File : f = handling[h]
  BY <1>1 DEF DropCommit, TypeInv
<1>3. SafeInv(f) /\ OnceInv(f) /\ Arrived(f)
  BY <1>1, <1>2 DEF FileInv, SafeInv
<1>4. /\ handling' = [handling EXCEPT ![h] = None]
      /\ committed' = [committed EXCEPT ![h] = @ \ {f}] \/ committed' = committed
      /\ faults' = faults \/ faults' = faults + 1
      /\ UNCHANGED <<pooled, senderVars, commitVars, uploaded, held, processed, history>>
  BY <1>2 DEF DropCommit, Fault
<1>5. TypeInv'
  BY <1>1, <1>4 DEF TypeInv, senderVars, commitVars, history
<1>6. faults' >= faults
  BY <1>1, <1>4 DEF TypeInv
<1>7. /\ \A k \in Host : committed'[k] \subseteq committed[k]
      /\ \A k \in Host, g \in File : g # f /\ g \in committed[k] => g \in committed'[k]
      /\ \A k \in Host, g \in File : handling'[k] = g => handling[k] = g
  <2>1. \A k \in Host, g \in File : handling'[k] = g => handling[k] = g
    <3>1. \A g \in File : g # None
      BY FileTransferAssumption
    <3> QED  BY <1>1, <1>4, <3>1 DEF TypeInv
  <2> QED  BY <1>1, <1>4, <2>1 DEF TypeInv
<1>8. ASSUME NEW g \in File, g # f PROVE FileInv(g)'
  <2>1. SameFile(g)
    BY <1>1, <1>4, <1>6, <1>7, <1>8 DEF SameFile, SameStored, senderVars, commitVars, history
  <2> QED  BY <1>1, <1>5, <2>1, FileKept
<1>9. FileInv(f)'
  <2>1. PlaceInv(f)' /\ LateInv(f)'
    BY <1>4, <1>5, <1>6, SenderRests
  <2>2. /\ Arrived(f)' = Arrived(f) /\ Holders(f)' = Holders(f)
        /\ \A k \in Host : Committed(f, k)' => Committed(f, k)
    BY <1>4, <1>7 DEF Arrived, Holders, Committed, commitVars
  <2>3. Safe(f)'
    BY <1>3, <2>2 DEF Safe
  <2>4. SafeInv(f)'
    BY <1>3, <1>4, <2>2, <2>3 DEF SafeInv, senderVars, history
  <2>5. Waiting(f)' \subseteq Waiting(f)
    BY <1>4, <2>2 DEF Waiting, senderVars, history
  <2>6. UNCHANGED <<processed, late, touched>>
    BY <1>4 DEF history
  <2>7. OnceInv(f)'
    BY <1>1, <1>3, <1>5, <2>2, <2>5, <2>6, OnceLessens
  <2> QED  BY <2>1, <2>4, <2>7 DEF FileInv
<1> QED  BY <1>5, <1>8, <1>9 DEF Inv

(* A receiver takes the copy that waits for it, if there is one: the host  *)
(* holds it then and waits no more.                                        *)
LEMMA HandleCommitKeeps ==
    ASSUME Inv, NEW h \in Host, NEW f \in File, HandleCommit(h, f) PROVE Inv'
<1>1. TypeInv /\ \A g \in File : FileInv(g)
  BY DEF Inv
<1>2. SafeInv(f) /\ OnceInv(f) /\ f \in committed[h] /\ (f \in uploaded[h] => f \notin held[h])
  BY <1>1 DEF FileInv, HandleCommit
<1>3. f \in touched /\ Committed(f, h) /\ (f \in uploaded[h] \/ Arrived(f))
  BY <1>2 DEF OnceInv, Committed, SafeInv
<1>4. /\ handling' = [handling EXCEPT ![h] = f]
      /\ held' = [held EXCEPT ![h] = @ \cup ({f} \cap uploaded[h])]
      /\ uploaded' = [uploaded EXCEPT ![h] = @ \ {f}]
      /\ UNCHANGED <<pooled, senderVars, commitVars, committed, processed, history, faults>>
  BY DEF HandleCommit, Renamed
<1>5. TypeInv'
  BY <1>1, <1>4 DEF TypeInv, senderVars, commitVars, history
<1>6. /\ \A k \in Host : k # h => held'[k] = held[k] /\ uploaded'[k] = uploaded[k]
                                  /\ handling'[k] = handling[k]
      /\ handling'[h] = f
      /\ held'[h] = held[h] \cup ({f} \cap uploaded[h])
      /\ uploaded'[h] = uploaded[h] \ {f}
  BY <1>1, <1>4 DEF TypeInv
<1>7. ASSUME NEW g \in File, g # f PROVE FileInv(g)'
  <2>1. SameStored(g)
    BY <1>4, <1>6, <1>7 DEF SameStored, commitVars, history
  <2>2. SameFile(g)
    BY <1>1, <1>4, <2>1 DEF SameFile, senderVars, TypeInv
  <2> QED  BY <1>1, <1>5, <2>2, FileKept
<1>8. FileInv(f)'
  <2>1. PlaceInv(f)' /\ LateInv(f)'
    BY <1>1, <1>4, <1>5, <1>6, SenderRests DEF TypeInv
  <2>2. Arrived(f)'
    BY <1>3, <1>4, <1>6 DEF Arrived
  <2>3. Safe(f)'
    BY <2>2 DEF Safe
  <2>4. \A k \in Host : Committed(f, k)' = Committed(f, k)
    BY <1>4 DEF Committed, commitVars
  <2>5. SafeInv(f)'
    BY <1>2, <1>4, <2>2, <2>3 DEF SafeInv, senderVars, history
  <2>6. UNCHANGED <<processed, late, touched>>
    BY <1>4 DEF history
  <2>7. PICK W, V, H, K : /\ W = Waiting(f)' /\ V = Waiting(f)
                          /\ H = Holders(f)' /\ K = Holders(f)
    OBVIOUS
  <2>8. V \in SUBSET Host /\ K \in SUBSET Host
    BY <2>7 DEF Waiting, Holders
  <2>9. W = V \ {h}
    BY <1>4, <1>6, <2>4, <2>7 DEF Waiting, senderVars, history
  <2>10. processed[f] + Cardinality(H) + Cardinality(W) <= 1 + late[f]
    <3>1. processed[f] + Cardinality(K) + Cardinality(V) <= 1 + late[f]
      BY <1>2, <2>7 DEF OnceInv
    <3>2. processed[f] \in Nat /\ late[f] \in Nat
      BY <1>1 DEF TypeInv
    <3>3. /\ Cardinality(K) \in Nat /\ Cardinality(V) \in Nat /\ Cardinality(W) \in Nat
          /\ K \cup {h} \in SUBSET Host /\ Cardinality(K \cup {h}) \in Nat
      BY <2>8, <2>9, HostSets
    <3>4. CASE f \in uploaded[h]
      <4>1. h \in V
        BY <1>3, <2>7, <3>4 DEF Waiting
      <4>2. Cardinality(W) = Cardinality(V) - 1
        BY <2>8, <2>9, <4>1, HostSets
      <4>3. H = K \cup {h}
        BY <1>6, <2>7, <3>4 DEF Holders
      <4>4. Cardinality(H) <= Cardinality(K) + 1 /\ Cardinality(H) \in Nat
        BY <2>8, <3>3, <4>3, HostSets
      <4> QED  BY <3>1, <3>2, <3>3, <4>2, <4>4
    <3>5. CASE f \notin uploaded[h]
      <4>1. H = K
        BY <1>6, <2>7, <3>5 DEF Holders
      <4>2. Cardinality(W) <= Cardinality(V)
        BY <2>8, <2>9, HostSets
      <4> QED  BY <3>1, <3>2, <3>3, <4>1, <4>2
    <3> QED  BY <3>4, <3>5
  <2>11. (processed[f] + Cardinality(Holders(f)) + Cardinality(Waiting(f)) <= 1 + late[f])'
    BY <2>6, <2>7, <2>10
  <2>12. OnceInv(f)'
    BY <1>3, <2>6, <2>11 DEF OnceInv
  <2> QED  BY <2>1, <2>5, <2>12 DEF FileInv
<1> QED  BY <1>5, <1>7, <1>8 DEF Inv

LEMMA ProcessFileKeeps ==
    ASSUME Inv, NEW h \in Host, NEW f \in File, ProcessFile(h, f) PROVE Inv'
<1>1. TypeInv /\ \A g \in File : FileInv(g)
  BY DEF Inv
<1>2. SafeInv(f) /\ OnceInv(f) /\ f \in held[h]
  BY <1>1 DEF FileInv, ProcessFile
<1>3. f \in touched
  BY <1>2 DEF OnceInv, Arrived
<1>4. /\ held' = [held EXCEPT ![h] = @ \ {f}]
      /\ processed' = [processed EXCEPT ![f] = @ + 1]
      /\ UNCHANGED <<pooled, senderVars, commitVars, faults>>
      /\ UNCHANGED <<uploaded, committed, handling, history>>
  BY DEF ProcessFile
<1>5. TypeInv'
  BY <1>1, <1>4 DEF TypeInv, senderVars, commitVars, history
<1>6. /\ \A k \in Host : k # h => held'[k] = held[k]
      /\ held'[h] = held[h] \ {f}
      /\ processed'[f] = processed[f] + 1
      /\ \A g \in File : g # f => processed'[g] = processed[g]
      /\ processed[f] \in Nat /\ late[f] \in Nat
  BY <1>1, <1>4 DEF TypeInv
<1>7. ASSUME NEW g \in File, g # f PROVE FileInv(g)'
  <2>1. SameStored(g)
    BY <1>4, <1>6, <1>7 DEF SameStored, commitVars, history
  <2>2. SameFile(g)
    BY <1>1, <1>4, <2>1 DEF SameFile, senderVars, TypeInv
  <2> QED  BY <1>1, <1>5, <2>2, FileKept
<1>8. FileInv(f)'
  <2>1. PlaceInv(f)' /\ LateInv(f)'
    BY <1>1, <1>4, <1>5, SenderRests DEF TypeInv
  <2>2. Arrived(f)'
    BY <1>6 DEF Arrived
  <2>3. Safe(f)'
    BY <2>2 DEF Safe
  <2>4. \A k \in Host : Committed(f, k)' = Committed(f, k)
    BY <1>4 DEF Committed, commitVars
  <2>5. SafeInv(f)'
    BY <1>2, <1>4, <2>2, <2>3 DEF SafeInv, senderVars, history
  <2>6. UNCHANGED <<late, touched>>
    BY <1>4 DEF history
  <2>7. Waiting(f)' = Waiting(f)
    BY <1>4, <2>4 DEF Waiting, senderVars, history
  <2>8. PICK V, H, K : V = Waiting(f) /\ H = Holders(f)' /\ K = Holders(f)
    OBVIOUS
  <2>9. V \in SUBSET Host /\ K \in SUBSET Host /\ H = K \ {h} /\ h \in K
    BY <1>2, <1>6, <2>8 DEF Waiting, Holders
  <2>10. /\ Cardinality(K) \in Nat /\ Cardinality(V) \in Nat
         /\ Cardinality(H) = Cardinality(K) - 1
    BY <2>9, HostSets
  <2>11. processed[f] + Cardinality(K) + Cardinality(V) <= 1 + late[f]
    BY <1>2, <2>8 DEF OnceInv
  <2>12. processed'[f] + Cardinality(H) + Cardinality(V) <= 1 + late[f]
    BY <1>6, <2>10, <2>11
  <2>13. (processed[f] + Cardinality(Holders(f)) + Cardinality(Waiting(f)) <= 1 + late[f])'
    BY <2>6, <2>7, <2>8, <2>12
  <2>14. OnceInv(f)'
    BY <1>3, <2>6, <2>13 DEF OnceInv
  <2> QED  BY <2>1, <2>5, <2>14 DEF FileInv
<1> QED  BY <1>5, <1>7, <1>8 DEF Inv

-----------------------------------------------------------------------------
LEMMA InitInv == Init => Inv
<1> SUFFICES ASSUME Init PROVE Inv
  OBVIOUS
<1>1. TypeInv
  BY RestingMover, FileTransferAssumption DEF Init, TypeInv, Host
<1>2. ASSUME NEW f \in File PROVE FileInv(f)
  <2>1. mover[f] = Resting /\ f # None
    BY FileTransferAssumption DEF Init
  <2>2. PlaceInv(f)
    BY <2>1 DEF Init, PlaceInv, Resting
  <2>3. ~Arrived(f) /\ \A h \in Host : ~Committed(f, h)
    BY DEF Init, Arrived, Committed
  <2>4. SafeInv(f)
    BY <2>1, <2>3 DEF Init, SafeInv, Resting
  <2>5. Holders(f) = {} /\ Waiting(f) = {}
    BY DEF Init, Holders, Waiting
  <2>6. OnceInv(f)
    BY <2>3, <2>5, HostSets DEF Init, OnceInv
  <2>7. LateInv(f)
    BY <2>1 DEF Init, LateInv, Resting
  <2> QED  BY <2>2, <2>4, <2>6, <2>7 DEF FileInv
<1> QED  BY <1>1, <1>2 DEF Inv

LEMMA NextKeeps == Inv /\ [Next]_vars => Inv'
<1> SUFFICES ASSUME Inv, [Next]_vars PROVE Inv'
  OBVIOUS
<1>1. CASE UNCHANGED vars
  <2>1. TypeInv' /\ \A g \in File : SameFile(g)
    BY <1>1 DEF Inv, TypeInv, vars, senderVars, commitVars, receiverVars, history,
                SameFile, SameStored
  <2> QED  BY <2>1, FileKept DEF Inv
<1>2. CASE Process
  BY <1>2, ProcessKeeps
<1>3. CASE Crash
  BY <1>3, CrashKeeps
<1>4. ASSUME NEW f \in File, Create(f) \/ Move(f) PROVE Inv'
  BY <1>4, CreateKeeps, BeginKeeps, GetDestHostKeeps, SendKeeps, SendFailsKeeps, TouchKeeps,
     TouchFailsKeeps, UnlinkKeeps, UnlinkFailsKeeps DEF Move
<1>5. ASSUME NEW h \in Host, PeriodEnds(h) \/ CommitRoute(h) \/ Receive(h) PROVE Inv'
  BY <1>5, PeriodEndsKeeps, SendCommitKeeps, UnlinkCommitKeeps, DropCommitKeeps,
     HandleCommitKeeps, ProcessFileKeeps DEF CommitRoute, Receive
<1> QED  BY <1>1, <1>2, <1>3, <1>4, <1>5 DEF Next

THEOREM InvariantHolds == Spec => []Inv
BY InitInv, NextKeeps, PTL DEF Spec

(* A file that left its source has a copy that a receiver took, or one     *)
(* that waits at a host with its commit file there or on its way: no       *)
(* failing call of the routes and no crash of the sender loses it          *)
(* (NothingLost).                                                          *)
THEOREM NothingLostHolds == Spec => []NothingLost
<1>1. Inv => NothingLost
  BY DEF Inv, TypeInv, FileInv, SafeInv, Safe, Arrived, NothingLost
<1> QED  BY <1>1, InvariantHolds, PTL

(* Receivers take a file once, but for the copies made after it had a      *)
(* commit file, and a failure leads to two of these at most                *)
(* (ProcessedOnce).                                                        *)
THEOREM ProcessedOnceHolds == Spec => []ProcessedOnce
<1>1. Inv => ProcessedOnce
  <2> SUFFICES ASSUME Inv, NEW f \in File
               PROVE  /\ processed[f] + Cardinality({h \in Host : f \in held[h]}) <= 1 + late[f]
                      /\ late[f] <= 2 * faults
    BY DEF ProcessedOnce
  <2>1. TypeInv /\ OnceInv(f) /\ LateInv(f)
    BY DEF Inv, FileInv
  <2>2. processed[f] \in Nat /\ late[f] \in Nat /\ faults \in Nat
    BY <2>1 DEF TypeInv
  <2>3. PICK k, n : k = Cardinality(Holders(f)) /\ n = Cardinality(Waiting(f))
    OBVIOUS
  <2>4. k \in Nat /\ n \in Nat
    BY <2>3, HostSets DEF Holders, Waiting
  <2>5. processed[f] + k <= 1 + late[f]
    <3>1. processed[f] + k + n <= 1 + late[f]
      BY <2>1, <2>3 DEF OnceInv
    <3> QED  BY <2>2, <2>4, <3>1
  <2>6. late[f] <= 2 * faults
    <3>1. CASE f \in touched
      <4>1. PICK c \in 0 .. 2 : c = ToCome(f)
        BY <2>1, ToComeType
      <4>2. late[f] + c <= 2 * faults
        BY <2>1, <3>1, <4>1 DEF LateInv
      <4> QED  BY <2>2, <4>2
    <3>2. CASE f \notin touched
      BY <2>1, <2>2, <3>2 DEF OnceInv
    <3> QED  BY <3>1, <3>2
  <2> QED  BY <2>3, <2>5, <2>6 DEF Holders
<1> QED  BY <1>1, InvariantHolds, PTL
=============================================================================
