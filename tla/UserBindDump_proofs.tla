------------------------ MODULE UserBindDump_proofs ------------------------
(***************************************************************************)
(* Proofs about UserBindServer and UserBindDump, for any ids, users and    *)
(* threads: an id has one home, a client is told what its id is bound to,  *)
(* and the server implements UserDirectory; about its dumps: the start     *)
(* after the first crash loads what was known, wherever dumps failed or    *)
(* were cut off; and, last, about the table of a holder: a fetch that ends *)
(* has found every key that was there all the time.                        *)
(***************************************************************************)
EXTENDS UserBindDump, FetchableHashTable, Sums_proofs, FiniteSetTheorems,
        WellFoundedInduction, TLAPS

-----------------------------------------------------------------------------
(* The invariant.                                                          *)

User(k) == IF k = "seen" THEN SeenUser ELSE BoundUser
Holder(k) == [period : Nat, users : [Id -> User(k) \cup {None}]]

RequestSet ==
    [id : Id, call : Calls, now : Nat, new : Uid \cup {NoUid}, resave : BOOLEAN]
ReplySet == [uid : Uid \cup {NoUid}, found : BOOLEAN, invalid : BOOLEAN]

CallerState ==
    {Idle} \cup [pc : {"seen", "again"}, request : RequestSet]
           \cup [pc : {"reply"}, request : RequestSet, reply : ReplySet]
           \cup [pc : {"holder", "put"}, request : RequestSet, reply : ReplySet,
                 kind : Kind, read : SUBSET Nat, then : {"store", "touch", "see"},
                 info : SeenUser \cup BoundUser \cup {None}]

TypeInv ==
    /\ clock \in Nat
    /\ holders = [k \in Kind |-> holders[k]]
    /\ \A k \in Kind : holders[k] \in Seq(Holder(k))
    /\ container \in [Kind -> SUBSET Nat]
    /\ caller \in [Caller -> CallerState]

(* The holders in use were created, none for a time that has not come.     *)
ContainerInv ==
    \A k \in Kind :
        /\ container[k] \subseteq 1 .. Len(holders[k])
        /\ \A h \in container[k] : holders[k][h].period <= clock

(* Who works on an id has locked it.                                       *)
LockInv ==
    \A c, d \in Caller :
        InChunk(c) /\ InChunk(d) /\ caller[c].request.id = caller[d].request.id
        => c = d

(* Users lie in one holder in use at most.                                 *)
In(k, h, i) == h \in container[k] /\ holders[k][h].users[i] # None
HomeInv ==
    \A i \in Id, k, l \in Kind : \A g \in container[k], h \in container[l] :
        In(k, g, i) /\ In(l, h, i) => k = l /\ g = h

Expired(t) == t + 1 <= clock - Expire

(* What a call holds is what it will answer.                               *)
Settled(c, uid) ==
    ~caller[c].reply.invalid /\ Answer(c) # NoUid => uid = Answer(c)

SeenCall(c) ==
    caller[c].pc = "seen" =>
        /\ caller[c].request.new = NoUid /\ caller[c].request.call.op = "get"
        /\ \A h \in container["bound"] : ~In("bound", h, caller[c].request.id)

(* A user that is moved is nowhere else, and the holder it goes to is in   *)
(* use as long as it has not expired.                                      *)
MovingCall(c) ==
    caller[c].pc \in {"holder", "put"} =>
        /\ \A k \in Kind : \A h \in container[k] : ~In(k, h, caller[c].request.id)
        /\ \A h \in caller[c].read :
            /\ h \in 1 .. Len(holders[caller[c].kind])
            /\ \/ h \in container[caller[c].kind]
               \/ Expired(holders[caller[c].kind][h].period)
        /\ caller[c].pc = "put" =>
            \E h \in Nat : /\ caller[c].read = {h}
                           /\ holders[caller[c].kind][h].period = caller[c].request.now
        /\ caller[c].kind = "seen" => /\ caller[c].then = "see"
                                      /\ caller[c].info \in SeenUser \cup {None}
        /\ caller[c].kind = "bound" => /\ caller[c].then # "see"
                                       /\ caller[c].info \in BoundUser
        /\ caller[c].then # "store" => /\ caller[c].request.new = NoUid
                                       /\ caller[c].request.call.op = "get"
        /\ caller[c].then = "store" => Settled(c, caller[c].info.uid)

(* The user of an id that is answered lies in a holder of the present.     *)
Answered(c) ==
    \/ caller[c].reply.invalid
    \/ Answer(c) = NoUid
    \/ caller[c].request.new = NoUid /\ caller[c].request.call.silent
    \/ Expired(caller[c].request.now)
    \/ \E h \in container["bound"] :
        /\ In("bound", h, caller[c].request.id)
        /\ holders["bound"][h].users[caller[c].request.id].uid = Answer(c)
        /\ holders["bound"][h].period >= caller[c].request.now

CallInv(c) ==
    /\ caller[c] # Idle => caller[c].request.now <= clock
    /\ SeenCall(c)
    /\ MovingCall(c)
    /\ caller[c].pc = "reply" => Answered(c)

Inv ==
    /\ TypeInv
    /\ ContainerInv
    /\ LockInv
    /\ HomeInv
    /\ \A c \in Caller : CallInv(c)

DumpInv == crashes \in Nat /\ (crashes = 0 => Inv)

-----------------------------------------------------------------------------
(* Types.                                                                  *)

HoldersType(hs) ==
    /\ hs = [k \in Kind |-> hs[k]]
    /\ \A k \in Kind : hs[k] \in Seq(Holder(k))

(* The user of one id in one holder is replaced, and nothing else.         *)
Replaced(hs, new, k, h, i, info) ==
    /\ HoldersType(new)
    /\ \A l \in Kind :
        /\ Len(new[l]) = Len(hs[l])
        /\ \A g \in 1 .. Len(hs[l]) :
            /\ new[l][g].period = hs[l][g].period
            /\ \A j \in Id :
                new[l][g].users[j] = IF l = k /\ g = h /\ j = i THEN info
                                     ELSE hs[l][g].users[j]

LEMMA StoredEffect ==
    ASSUME NEW hs, HoldersType(hs), NEW k \in Kind, NEW h \in 1 .. Len(hs[k]),
           NEW i \in Id, NEW info \in User(k) \cup {None},
           NEW new, new = [hs EXCEPT ![k][h].users[i] = info]
    PROVE  Replaced(hs, new, k, h, i, info)
<1> DEFINE one == [hs[k][h] EXCEPT !.users[i] = info]
<1>1. hs[k] \in Seq(Holder(k)) /\ hs[k][h] \in Holder(k)
  BY DEF HoldersType
<1>2. /\ one \in Holder(k) /\ one.period = hs[k][h].period
      /\ \A j \in Id : one.users[j] = IF j = i THEN info ELSE hs[k][h].users[j]
  BY <1>1 DEF Holder
<1> HIDE DEF one
<1> DEFINE changed == [hs[k] EXCEPT ![h] = one]
<1>3. /\ changed \in Seq(Holder(k))
      /\ Len(changed) = Len(hs[k])
      /\ changed[h] = one
      /\ \A g \in 1 .. Len(hs[k]) : g # h => changed[g] = hs[k][g]
  BY <1>1, <1>2
<1>4. new = [hs EXCEPT ![k] = [hs[k] EXCEPT ![h] = one]]
  BY DEF one
<1> HIDE DEF changed
<1>5. new[k] = changed /\ \A l \in Kind \ {k} : new[l] = hs[l]
  BY <1>4 DEF HoldersType, changed
<1>6. HoldersType(new)
  <2>1. new = [l \in Kind |-> new[l]]
    BY <1>4 DEF HoldersType
  <2> QED  BY <1>3, <1>5, <2>1 DEF HoldersType
<1>7. ASSUME NEW l \in Kind
      PROVE  /\ Len(new[l]) = Len(hs[l])
             /\ \A g \in 1 .. Len(hs[l]) :
                /\ new[l][g].period = hs[l][g].period
                /\ \A j \in Id :
                    new[l][g].users[j] = IF l = k /\ g = h /\ j = i THEN info
                                         ELSE hs[l][g].users[j]
  <2>1. CASE l # k
    BY <1>5, <2>1
  <2>2. CASE l = k
    <3>1. Len(new[l]) = Len(hs[l])
      BY <1>3, <1>5, <2>2
    <3>2. ASSUME NEW g \in 1 .. Len(hs[l])
          PROVE  /\ new[l][g].period = hs[l][g].period
                 /\ \A j \in Id :
                      new[l][g].users[j] = IF l = k /\ g = h /\ j = i THEN info
                                           ELSE hs[l][g].users[j]
      <4>1. CASE g = h
        BY <1>2, <1>3, <1>5, <2>2, <4>1
      <4>2. CASE g # h
        BY <1>3, <1>5, <2>2, <4>2
      <4> QED  BY <4>1, <4>2
    <3> QED  BY <3>1, <3>2
  <2> QED  BY <2>1, <2>2
<1> QED
  BY <1>6, <1>7 DEF Replaced

LEMMA CallerType ==
    ASSUME TypeInv, NEW c \in Caller
    PROVE  /\ caller[c].pc \in {"idle", "seen", "again", "reply", "holder", "put"}
           /\ caller[c].pc = "idle" <=> caller[c] = Idle
           /\ caller[c].pc # "idle" => caller[c].request \in RequestSet
           /\ caller[c].pc \in {"reply", "holder", "put"} => caller[c].reply \in ReplySet
           /\ caller[c].pc \in {"holder", "put"} =>
                /\ caller[c] \in [pc : {"holder", "put"}, request : RequestSet,
                                  reply : ReplySet, kind : Kind, read : SUBSET Nat,
                                  then : {"store", "touch", "see"},
                                  info : SeenUser \cup BoundUser \cup {None}]
BY DEF TypeInv, CallerState, Idle

LEMMA StateType ==
    ASSUME NEW request \in RequestSet, NEW reply \in ReplySet, NEW kind \in Kind,
           NEW read \in SUBSET Nat, NEW then \in {"store", "touch", "see"},
           NEW info \in SeenUser \cup BoundUser \cup {None}
    PROVE  /\ Moves(request, kind, read, then, info, reply) \in CallerState
           /\ Replies(request, reply) \in CallerState
           /\ [pc |-> "seen", request |-> request] \in CallerState
           /\ [pc |-> "again", request |-> request] \in CallerState
BY DEF Moves, Replies, CallerState

LEMMA GetTypes ==
    ASSUME NEW call \in Calls, NEW now \in Nat, NEW info \in BoundUser
    PROVE  /\ AtGet(info, call, now) \in BoundUser
           /\ AtGet(info, call, now).uid = info.uid
           /\ call.op = "get" => GetReply(info, call) \in ReplySet
<1>0. 0 \in 0 .. CountSize - 1 /\ 0 \in Nat
  BY BindAssumption
<1>1. Rotated(info, now) \in BoundUser /\ Rotated(info, now).uid = info.uid
  BY <1>0 DEF Rotated, BoundUser
<1>2. ASSUME NEW b \in BoundUser PROVE Counted(b) \in BoundUser /\ Counted(b).uid = b.uid
  BY BindAssumption DEF Counted, BoundUser
<1>3. AtGet(info, call, now) \in BoundUser /\ AtGet(info, call, now).uid = info.uid
  BY <1>1, <1>2 DEF AtGet, BoundUser
<1>4. call.op = "get" => GetReply(info, call) \in ReplySet
  BY BindAssumption DEF GetReply, ReplySet, BoundUser, GetCall, AddCall
<1> QED  BY <1>3, <1>4

LEMMA SaveTypes ==
    ASSUME NEW now \in Nat, NEW u \in Uid, NEW info \in BoundUser \cup {NoUser}
    PROVE  /\ Saved(info, u, now) \in BoundUser
           /\ ~Refused(info, u, now) => Saved(info, u, now).uid = u
           /\ Refused(info, u, now) \in BOOLEAN
           /\ info = NoUser => ~Refused(info, u, now)
           /\ info.uid \in Uid \cup {NoUid}
<1>0. 0 \in 0 .. CountSize - 1 /\ 0 \in Nat
  BY BindAssumption
<1>1. CASE info \in BoundUser
  <2>1. Rotated(info, now) \in BoundUser /\ Rotated(info, now).uid = info.uid
    BY <1>0, <1>1 DEF Rotated, BoundUser
  <2>2. ASSUME NEW b \in BoundUser PROVE Counted(b) \in BoundUser /\ Counted(b).uid = b.uid
    BY BindAssumption DEF Counted, BoundUser
  <2>3. Saved(info, u, now) \in BoundUser
    BY <1>1, <2>1, <2>2 DEF Saved, BoundUser
  <2>4. ~Refused(info, u, now) => Saved(info, u, now).uid = u
    BY <1>1, <2>1, <2>2 DEF Saved, BoundUser
  <2>5. info # NoUser /\ info.uid \in Uid
    BY <1>1, BindAssumption DEF BoundUser, NoUser
  <2> QED  BY <2>3, <2>4, <2>5 DEF Refused
<1>2. CASE info = NoUser
  BY <1>0, <1>2 DEF Saved, NoUser, BoundUser, Refused
<1> QED  BY <1>1, <1>2

-----------------------------------------------------------------------------
(* A step of one thread.                                                   *)

(* What a step that works on i leaves alone: users of other ids, the       *)
(* periods of the holders, and which of them are in use; a new one is      *)
(* empty.                                                                  *)
Frame(i) ==
    /\ clock' = clock
    /\ \A k \in Kind :
        /\ Len(holders[k]) <= Len(holders'[k])
        /\ container[k] \subseteq container'[k]
        /\ container'[k] \subseteq 1 .. Len(holders'[k])
        /\ \A h \in container'[k] \ container[k] :
            /\ holders'[k][h].period <= clock
            /\ \A j \in Id : holders'[k][h].users[j] = None
        /\ \A h \in 1 .. Len(holders[k]) :
            /\ holders'[k][h].period = holders[k][h].period
            /\ \A j \in Id : j # i => holders'[k][h].users[j] = holders[k][h].users[j]

LEMMA FrameOthers ==
    ASSUME Inv, NEW i \in Id, Frame(i), NEW j \in Id, j # i, NEW k \in Kind
    PROVE  /\ \A h \in container'[k] : In(k, h, j)' =>
                h \in container[k] /\ In(k, h, j)
           /\ \A h \in container[k] : In(k, h, j) => h \in container'[k] /\ In(k, h, j)'
           /\ \A h \in container[k] :
                /\ holders'[k][h].users[j] = holders[k][h].users[j]
                /\ holders'[k][h].period = holders[k][h].period
<1>1. ASSUME NEW h \in container[k]
      PROVE  /\ holders'[k][h].users[j] = holders[k][h].users[j]
             /\ holders'[k][h].period = holders[k][h].period
             /\ h \in container'[k]
  BY DEF Inv, ContainerInv, Frame
<1>2. ASSUME NEW h \in container'[k], h \notin container[k]
      PROVE  holders'[k][h].users[j] = None
  BY <1>2 DEF Frame
<1> QED
  BY <1>1, <1>2 DEF In

(* The other threads work on other ids, and notice nothing.                *)
LEMMA OtherCalls ==
    ASSUME Inv, TypeInv', NEW c \in Caller, NEW i \in Id, Frame(i),
           NEW d \in Caller, d # c, caller'[d] = caller[d],
           InChunk(c) => caller[c].request.id = i,
           InChunk(c) \/ Unlocked(i)
    PROVE  CallInv(d)'
<1>1. CallInv(d)
  BY DEF Inv
<1>2. InChunk(d) => caller[d].request.id \in Id /\ caller[d].request.id # i
  <2>1. InChunk(d) => caller[d].request.id # i
    BY DEF Unlocked, Inv, LockInv
  <2>2. InChunk(d) => caller[d].request \in RequestSet
    BY CallerType DEF Inv, InChunk
  <2> QED  BY <2>1, <2>2 DEF RequestSet
<1>3. clock' = clock /\ \A t : Expired(t)' = Expired(t)
  BY DEF Frame, Expired
<1>4. Idle' = Idle
  BY DEF Idle
<1>5. (caller[d] # Idle => caller[d].request.now <= clock)'
  BY <1>1, <1>3 DEF CallInv, Idle
<1>6. SeenCall(d)'
  <2>1. CASE caller[d].pc = "seen"
    <3>1. InChunk(d)
      BY <2>1 DEF InChunk
    <3>2. "bound" \in Kind
      BY DEF Kind
    <3>3. SeenCall(d)
      BY <1>1 DEF CallInv
    <3> QED
      BY <1>2, <2>1, <3>1, <3>2, <3>3, FrameOthers DEF SeenCall
  <2> QED  BY <2>1 DEF SeenCall
<1>7. MovingCall(d)'
  <2>1. CASE caller[d].pc \in {"holder", "put"}
    <3>1. InChunk(d)
      BY <2>1 DEF InChunk
    <3>2. MovingCall(d) /\ caller[d].kind \in Kind
      BY <1>1, <2>1, CallerType DEF CallInv, Inv
    <3>3. \A k \in Kind : \A h \in container'[k] : ~In(k, h, caller[d].request.id)'
      BY <1>2, <2>1, <3>1, <3>2, FrameOthers DEF MovingCall
    <3>4. \A h \in caller[d].read :
            /\ h \in 1 .. Len(holders'[caller[d].kind])
            /\ holders'[caller[d].kind][h].period = holders[caller[d].kind][h].period
            /\ h \in container[caller[d].kind] => h \in container'[caller[d].kind]
      <4> DEFINE k == caller[d].kind
      <4>1. \A h \in caller[d].read : h \in 1 .. Len(holders[k])
        BY <2>1, <3>2 DEF MovingCall
      <4>2. Len(holders[k]) \in Nat /\ Len(holders'[k]) \in Nat /\ k \in Kind
        BY <3>2 DEF Inv, TypeInv
      <4> HIDE DEF k
      <4>3. \A h \in caller[d].read :
                /\ h \in 1 .. Len(holders'[k])
                /\ holders'[k][h].period = holders[k][h].period
                /\ h \in container[k] => h \in container'[k]
        BY <4>1, <4>2 DEF Frame
      <4> QED  BY <4>3 DEF k
    <3>5. Settled(d, caller[d].info.uid)' = Settled(d, caller[d].info.uid)
      BY DEF Settled, Answer
    <3> QED
      BY <1>3, <2>1, <3>2, <3>3, <3>4, <3>5 DEF MovingCall
  <2> QED  BY <2>1 DEF MovingCall
<1>8. (caller[d].pc = "reply" => Answered(d))'
  <2>1. CASE caller[d].pc = "reply"
    <3>1. InChunk(d) /\ "bound" \in Kind
      BY <2>1 DEF InChunk, Kind
    <3>2. Answered(d) /\ Answer(d)' = Answer(d)
      BY <1>1, <2>1 DEF CallInv, Answer
    <3>3. \A h \in container["bound"] : In("bound", h, caller[d].request.id) =>
            /\ h \in container'["bound"] /\ In("bound", h, caller[d].request.id)'
            /\ holders'["bound"][h].users[caller[d].request.id]
                    = holders["bound"][h].users[caller[d].request.id]
            /\ holders'["bound"][h].period = holders["bound"][h].period
      BY <1>2, <3>1, FrameOthers
    <3> QED
      BY <1>3, <3>2, <3>3 DEF Answered
  <2> QED  BY <2>1
<1> QED
  BY <1>5, <1>6, <1>7, <1>8 DEF CallInv

LEMMA OneCallerSteps ==
    ASSUME Inv, TypeInv', NEW c \in Caller, NEW i \in Id, Frame(i),
           \A d \in Caller : d # c => caller'[d] = caller[d],
           InChunk(c) => caller[c].request.id = i,
           InChunk(c) \/ Unlocked(i),
           InChunk(c)' => caller'[c].request.id = i,
           \A k, l \in Kind : \A g \in container'[k], h \in container'[l] :
                In(k, g, i)' /\ In(l, h, i)' => k = l /\ g = h,
           CallInv(c)'
    PROVE  Inv'
<1>1. ContainerInv'
  BY DEF ContainerInv, Frame, Inv
<1>2. LockInv'
  BY DEF LockInv, InChunk, Inv, Unlocked
<1>3. HomeInv'
  <2>1. ASSUME NEW j \in Id, NEW k \in Kind, NEW l \in Kind,
               NEW g \in container'[k], NEW h \in container'[l],
               In(k, g, j)', In(l, h, j)', j # i
        PROVE  k = l /\ g = h
    BY <2>1, FrameOthers DEF Inv, HomeInv
  <2> QED  BY <2>1 DEF HomeInv
<1>4. \A d \in Caller : d # c => CallInv(d)'
  BY OtherCalls
<1> QED
  BY <1>1, <1>2, <1>3, <1>4 DEF Inv

-----------------------------------------------------------------------------
(* Where a user is.                                                        *)

LEMMA Kinds == "seen" \in Kind /\ "bound" \in Kind /\ User("seen") = SeenUser
               /\ User("bound") = BoundUser
BY DEF Kind, User

LEMMA HomeOfUser ==
    ASSUME Inv, NEW k \in Kind, NEW i \in Id
    PROVE  /\ Found(k, i) =>
                /\ Home(k, i) \in container[k] /\ Home(k, i) \in 1 .. Len(holders[k])
                /\ In(k, Home(k, i), i)
                /\ \A h \in container[k] : In(k, h, i) => h = Home(k, i)
                /\ holders[k][Home(k, i)].users[i] \in User(k)
                /\ holders[k][Home(k, i)].period \in 0 .. clock
                /\ \A l \in Kind : l # k => ~Found(l, i)
           /\ ~Found(k, i) => \A h \in container[k] : ~In(k, h, i)
           /\ \A h \in container[k] : In(k, h, i) => Found(k, i)
<1>1. \A l \in Kind : \A h \in container[l] : In(l, h, i) <=> h \in With(l, container[l], i)
  BY DEF In, With
<1>2. \A l \in Kind : Found(l, i) <=> \E h \in container[l] : In(l, h, i)
  BY <1>1 DEF Found, With
<1>3. ASSUME NEW h \in container[k], In(k, h, i) PROVE Home(k, i) = h
  <2>1. With(k, container[k], i) = {h}
    BY <1>1, <1>3 DEF Inv, HomeInv, With
  <2>2. holders[k][h].period \in Nat
    <3>1. h \in 1 .. Len(holders[k])
      BY DEF Inv, ContainerInv
    <3>2. holders[k][h] \in Holder(k)
      BY <3>1 DEF Inv, TypeInv
    <3> QED  BY <3>2 DEF Holder
  <2>3. \A g \in {h} : holders[k][g].period <= holders[k][h].period
    BY <2>2
  <2> QED
    BY <2>1, <2>3 DEF Home, Newest
<1>4. ASSUME NEW h \in container[k], In(k, h, i)
      PROVE  /\ h \in 1 .. Len(holders[k])
             /\ holders[k][h].users[i] \in User(k)
             /\ holders[k][h].period \in 0 .. clock
             /\ \A l \in Kind : l # k => ~Found(l, i)
  <2>1. h \in 1 .. Len(holders[k]) /\ holders[k][h].period <= clock /\ clock \in Nat
    BY DEF Inv, TypeInv, ContainerInv
  <2>2. holders[k][h] \in Holder(k)
    BY <2>1 DEF Inv, TypeInv
  <2>3. \A l \in Kind : l # k => ~Found(l, i)
    BY <1>2, <1>4 DEF Inv, HomeInv
  <2> QED
    BY <1>4, <2>1, <2>2, <2>3 DEF Holder, In
<1> QED
  BY <1>2, <1>3, <1>4

(* A holder in which the user of one id is replaced.                       *)
Lies(k, h, i, info) ==
    /\ Frame(i)
    /\ HoldersType(holders')
    /\ \A l \in Kind : \A g \in container[l] :
        In(l, g, i)' => IF l = k /\ g = h THEN info # None ELSE In(l, g, i)
    /\ h \in container[k] /\ info # None => In(k, h, i)'
    /\ holders'[k][h].users[i] = info
    /\ holders'[k][h].period = holders[k][h].period

LEMMA StoredFrame ==
    ASSUME Inv, NEW k \in Kind, NEW h \in 1 .. Len(holders[k]), NEW i \in Id,
           NEW info \in User(k) \cup {None}, holders' = Stored(k, h, i, info),
           UNCHANGED <<clock, container>>
    PROVE  Lies(k, h, i, info)
<1>1. HoldersType(holders)
  BY DEF Inv, TypeInv, HoldersType
<1>2. Replaced(holders, holders', k, h, i, info)
  <2>1. holders' = [holders EXCEPT ![k][h].users[i] = info]
    BY DEF Stored
  <2> QED
    BY <1>1, <2>1, StoredEffect, Zenon
<1>3. \A l \in Kind : container[l] \subseteq 1 .. Len(holders[l]) /\ Len(holders[l]) \in Nat
  BY DEF Inv, ContainerInv, TypeInv
<1>4. Frame(i)
  BY <1>2, <1>3 DEF Frame, Replaced
<1>5. \A l \in Kind : \A g \in container[l] :
        In(l, g, i)' => IF l = k /\ g = h THEN info # None ELSE In(l, g, i)
  BY <1>2, <1>3 DEF In, Replaced
<1> QED
  BY <1>2, <1>4, <1>5 DEF In, Replaced, Lies

LEMMA SameFrame ==
    ASSUME Inv, NEW i \in Id, UNCHANGED <<clock, container, holders>>
    PROVE  /\ Frame(i) /\ HoldersType(holders')
           /\ \A k \in Kind : \A h \in container[k] : In(k, h, i)' = In(k, h, i)
<1>1. \A k \in Kind : container[k] \subseteq 1 .. Len(holders[k]) /\ Len(holders[k]) \in Nat
  BY DEF Inv, ContainerInv, TypeInv
<1> QED
  BY <1>1 DEF Frame, In, Inv, TypeInv, HoldersType

LEMMA CallerGoes ==
    ASSUME Inv, NEW c \in Caller, NEW state \in CallerState, Goes(c, state),
           HoldersType(holders'), UNCHANGED <<clock, container>>
    PROVE  /\ TypeInv'
           /\ caller'[c] = state
           /\ \A d \in Caller : d # c => caller'[d] = caller[d]
BY DEF Goes, Inv, TypeInv, HoldersType

-----------------------------------------------------------------------------
(* What the directory shows of an id.                                      *)

Carries(c, i) ==
    /\ caller[c].pc \in {"holder", "put"} /\ caller[c].kind = "bound"
    /\ caller[c].request.id = i

(* The id is in no call: the directory shows the user in the holders.      *)
Rests(i) ==
    /\ \A h \in container["bound"] : In("bound", h, i) =>
            /\ Binding(i) = holders["bound"][h].users[i].uid
            /\ LastUse(i) = holders["bound"][h].period
    /\ (\A h \in container["bound"] : ~In("bound", h, i)) =>
            Binding(i) = NoUid /\ LastUse(i) = 0

Shown(i) ==
    /\ \A c \in Caller : Carries(c, i) =>
            Binding(i) = caller[c].info.uid /\ LastUse(i) = caller[c].request.now
    /\ (\A c \in Caller : ~Carries(c, i)) => Rests(i)

LEMMA ShownIsBinding == Inv => \A i \in Id : Shown(i)
<1> SUFFICES ASSUME Inv, NEW i \in Id PROVE Shown(i)
  OBVIOUS
<1>1. \A c \in Caller : c \in Underway(i) <=> Carries(c, i)
  BY DEF Underway, Carries
<1>2. ASSUME NEW c \in Caller, Carries(c, i)
      PROVE  Binding(i) = caller[c].info.uid /\ LastUse(i) = caller[c].request.now
  <2>1. \A d \in Underway(i) : d = c
    BY <1>1, <1>2 DEF Inv, LockInv, InChunk, Carries, Underway
  <2>2. c \in Underway(i) /\ Underway(i) # {}
    BY <1>1, <1>2
  <2>3. (CHOOSE d \in Caller : d \in Underway(i)) = c
    BY <2>1, <2>2
  <2> QED  BY <2>2, <2>3 DEF Binding, LastUse
<1>3. ASSUME \A c \in Caller : ~Carries(c, i) PROVE Rests(i)
  <2>1. Underway(i) = {}
    BY <1>1, <1>3 DEF Underway
  <2>2. ASSUME NEW h \in container["bound"], In("bound", h, i)
        PROVE  /\ Binding(i) = holders["bound"][h].users[i].uid
               /\ LastUse(i) = holders["bound"][h].period
    <3>1. Found("bound", i) /\ Home("bound", i) = h
      BY <2>2, Kinds, HomeOfUser
    <3> QED  BY <2>1, <3>1 DEF Binding, LastUse, Info
  <2>3. (\A h \in container["bound"] : ~In("bound", h, i)) => ~Found("bound", i)
    BY Kinds, HomeOfUser
  <2> QED
    BY <2>1, <2>2, <2>3 DEF Rests, Binding, LastUse
<1> QED  BY <1>2, <1>3 DEF Shown

LEMMA ShownIsBindingNext == Inv' => (\A i \in Id : Shown(i))'
BY ShownIsBinding, PTL

(* A step that works on i shows of the other ids what it was.              *)
Others(i) ==
    /\ clock' = clock
    /\ \A j \in Id : j # i => Binding(j)' = Binding(j) /\ LastUse(j)' = LastUse(j)

LEMMA OthersShown ==
    ASSUME Inv, Inv', NEW c \in Caller, NEW i \in Id, Frame(i),
           InChunk(c) => caller[c].request.id = i,
           InChunk(c)' => caller'[c].request.id = i,
           \A d \in Caller : d # c => caller'[d] = caller[d]
    PROVE  Others(i)
<1> SUFFICES ASSUME NEW j \in Id, j # i
             PROVE  Binding(j)' = Binding(j) /\ LastUse(j)' = LastUse(j)
  BY DEF Others, Frame
<1>1. Shown(j) /\ Shown(j)'
  BY ShownIsBinding, ShownIsBindingNext
<1>2. ~Carries(c, j) /\ ~Carries(c, j)'
  BY DEF Carries, InChunk
<1>3. \A d \in Caller : d # c => (Carries(d, j)' <=> Carries(d, j))
  BY DEF Carries
<1>4. CASE \E d \in Caller : Carries(d, j)
  <2>1. PICK d \in Caller : Carries(d, j) /\ Carries(d, j)' /\ caller'[d] = caller[d]
    BY <1>2, <1>3, <1>4
  <2> QED  BY <1>1, <2>1 DEF Shown
<1>5. CASE \A d \in Caller : ~Carries(d, j)
  <2>1. \A d \in Caller : ~Carries(d, j)'
    BY <1>2, <1>3, <1>5
  <2>2. Rests(j) /\ Rests(j)'
    BY <1>1, <1>5, <2>1 DEF Shown
  <2>3. /\ \A h \in container'["bound"] : In("bound", h, j)' =>
                h \in container["bound"] /\ In("bound", h, j)
        /\ \A h \in container["bound"] : In("bound", h, j) =>
                h \in container'["bound"] /\ In("bound", h, j)'
        /\ \A h \in container["bound"] :
                /\ holders'["bound"][h].users[j] = holders["bound"][h].users[j]
                /\ holders'["bound"][h].period = holders["bound"][h].period
    BY Kinds, FrameOthers
  <2>4. CASE \E h \in container["bound"] : In("bound", h, j)
    BY <2>2, <2>3, <2>4 DEF Rests
  <2>5. CASE \A h \in container["bound"] : ~In("bound", h, j)
    BY <2>2, <2>3, <2>5 DEF Rests
  <2> QED  BY <2>4, <2>5
<1> QED  BY <1>4, <1>5

(* Nobody else carries the id a step works on.                             *)
LEMMA NobodyElse ==
    ASSUME Inv, NEW c \in Caller, NEW i \in Id, InChunk(c) \/ Unlocked(i),
           InChunk(c) => caller[c].request.id = i
    PROVE  \A d \in Caller : d # c => ~Carries(d, i)
BY DEF Inv, LockInv, Unlocked, Carries, InChunk

LEMMA RestsBefore ==
    ASSUME Inv, NEW c \in Caller, NEW i \in Id, InChunk(c) \/ Unlocked(i),
           InChunk(c) => caller[c].request.id = i, ~Carries(c, i)
    PROVE  Rests(i)
<1>1. \A d \in Caller : ~Carries(d, i)
  BY NobodyElse
<1> QED  BY <1>1, ShownIsBinding DEF Shown

LEMMA RestsAfter ==
    ASSUME Inv, Inv', NEW c \in Caller, NEW i \in Id, InChunk(c) \/ Unlocked(i),
           InChunk(c) => caller[c].request.id = i, ~Carries(c, i)',
           \A d \in Caller : d # c => caller'[d] = caller[d]
    PROVE  Rests(i)'
<1>1. \A d \in Caller : ~Carries(d, i)'
  BY NobodyElse DEF Carries
<1> QED  BY <1>1, ShownIsBindingNext DEF Shown

-----------------------------------------------------------------------------
(* The steps of the directory.                                             *)

LEMMA DirectoryKeeps ==
    ASSUME NEW i \in Id, Others(i), Binding(i)' = Binding(i), LastUse(i)' = LastUse(i)
    PROVE  Directory!Step
<1>1. \A j \in Id : Binding(j)' = Binding(j) /\ LastUse(j)' = LastUse(j)
  BY DEF Others
<1>2. clock' = clock
  BY DEF Others
<1> QED  BY <1>1, <1>2 DEF Directory!Step

LEMMA DirectoryUses ==
    ASSUME NEW i \in Id, NEW t \in Nat, t <= clock, clock \in Nat, Others(i),
           Binding(i) # NoUid, NEW u, Binding(i)' = u, u = Binding(i) \/ u \in Uid,
           LastUse(i)' = IF t > LastUse(i) THEN t ELSE LastUse(i)
    PROVE  Directory!Step
<1> DEFINE user == [j \in Id |-> Binding(j)]
           used == [j \in Id |-> LastUse(j)]
<1>1. clock' = clock /\ t \in 0 .. clock
  BY DEF Others
<1>2. used' = [used EXCEPT ![i] = IF t > @ THEN t ELSE @]
  BY DEF Others
<1>3. user' = [user EXCEPT ![i] = u] /\ (u = Binding(i) => user' = user)
  BY DEF Others
<1>4. user[i] # NoUid
  OBVIOUS
<1>5. Directory!Use(i, t)
  BY <1>1, <1>2 DEF Directory!Use
<1>6. CASE u = Binding(i)
  <2>1. Directory!Keep(i, t)
    BY <1>3, <1>4, <1>5, <1>6 DEF Directory!Keep
  <2> QED  BY <1>1, <2>1 DEF Directory!Step, Directory!Next
<1>7. CASE u \in Uid
  <2>1. Directory!Rewrite(i, u, t)
    BY <1>3, <1>4, <1>5 DEF Directory!Rewrite
  <2> QED  BY <1>1, <1>7, <2>1 DEF Directory!Step, Directory!Next
<1> QED  BY <1>6, <1>7

LEMMA DirectoryBinds ==
    ASSUME NEW i \in Id, NEW t \in Nat, t <= clock, clock \in Nat, Others(i),
           Binding(i) = NoUid, NEW u \in Uid, Binding(i)' = u, LastUse(i)' = t
    PROVE  Directory!Step
<1> DEFINE user == [j \in Id |-> Binding(j)]
           used == [j \in Id |-> LastUse(j)]
<1>1. clock' = clock /\ t \in 0 .. clock
  BY DEF Others
<1>2. used' = [used EXCEPT ![i] = t] /\ user' = [user EXCEPT ![i] = u]
  BY DEF Others
<1>3. user[i] = NoUid
  OBVIOUS
<1>4. Directory!Bind(i, u, t)
  BY <1>1, <1>2, <1>3 DEF Directory!Bind
<1> QED  BY <1>1, <1>4 DEF Directory!Step, Directory!Next

LEMMA DirectoryForgets ==
    ASSUME NEW forgotten \in SUBSET Id, clock' = clock,
           \A j \in forgotten : /\ Binding(j) # NoUid /\ LastUse(j) + 1 <= clock - Expire
                                /\ Binding(j)' = NoUid /\ LastUse(j)' = 0,
           \A j \in Id \ forgotten : Binding(j)' = Binding(j) /\ LastUse(j)' = LastUse(j)
    PROVE  Directory!Step
<1> DEFINE user == [j \in Id |-> Binding(j)]
           used == [j \in Id |-> LastUse(j)]
<1>1. /\ user' = [j \in Id |-> IF j \in forgotten THEN NoUid ELSE user[j]]
      /\ used' = [j \in Id |-> IF j \in forgotten THEN 0 ELSE used[j]]
  OBVIOUS
<1>2. \A j \in forgotten : user[j] # NoUid /\ used[j] + 1 <= clock - Expire
  OBVIOUS
<1>3. Directory!Forget(forgotten)
  BY <1>1, <1>2 DEF Directory!Forget
<1> QED  BY <1>3 DEF Directory!Step, Directory!Next

-----------------------------------------------------------------------------
(* A call that answers, and one that goes on to put a user into a holder.  *)

(* What a request will be told with a reply (Answer).                      *)
Told(request, reply) ==
    IF request.new # NoUid /\ (request.resave \/ ~reply.found)
    THEN request.new ELSE reply.uid

Held(request, uid) ==
    \E h \in container["bound"] :
        /\ In("bound", h, request.id)
        /\ holders["bound"][h].users[request.id].uid = uid
        /\ holders["bound"][h].period >= request.now

(* No user of i lies in two holders, or in one.                            *)
OneHolder(i) ==
    \A k, l \in Kind : \A g \in container[k], h \in container[l] :
        In(k, g, i) /\ In(l, h, i) => k = l /\ g = h
NoHolder(i) == \A k \in Kind : \A h \in container[k] : ~In(k, h, i)

(* The thread c works on i, and may.                                       *)
Works(c, i) ==
    /\ InChunk(c) => caller[c].request.id = i
    /\ InChunk(c) \/ Unlocked(i)

LEMMA CallReplies ==
    ASSUME Inv, NEW c \in Caller, NEW i \in Id, Works(c, i), Frame(i),
           HoldersType(holders'), UNCHANGED container,
           NEW request \in RequestSet, request.id = i, request.now <= clock,
           NEW reply \in ReplySet, Goes(c, Replies(request, reply)),
           OneHolder(i)',
           \/ reply.invalid \/ Told(request, reply) = NoUid
           \/ request.new = NoUid /\ request.call.silent
           \/ Expired(request.now)
           \/ Held(request, Told(request, reply))'
    PROVE  Inv' /\ Others(i) /\ Rests(i)'
<1>1. clock' = clock
  BY DEF Frame
<1>2. Replies(request, reply) \in CallerState
  BY DEF CallerState, Replies
<1>3. /\ TypeInv' /\ caller'[c] = Replies(request, reply)
      /\ \A d \in Caller : d # c => caller'[d] = caller[d]
  BY <1>1, <1>2, CallerGoes
<1>4. /\ caller'[c].pc = "reply" /\ caller'[c].request = request
      /\ caller'[c].reply = reply
  BY <1>3 DEF Replies
<1>5. Answer(c)' = Told(request, reply)
  BY <1>4 DEF Answer, Told
<1>6. Answered(c)'
  BY <1>1, <1>4, <1>5 DEF Answered, Held, Expired
<1>7. CallInv(c)'
  BY <1>1, <1>4, <1>6 DEF CallInv, SeenCall, MovingCall
<1>8. Inv'
  BY <1>3, <1>4, <1>7, OneCallerSteps DEF Works, OneHolder
<1>9. Others(i)
  BY <1>3, <1>4, <1>8, OthersShown DEF Works
<1>10. ~Carries(c, i)'
  BY <1>4 DEF Carries
<1>11. Rests(i)'
  BY <1>3, <1>8, <1>10, RestsAfter DEF Works
<1> QED
  BY <1>8, <1>9, <1>11

(* What a call that moves a user has established.                          *)
MayMove(request, kind, read, then, info, reply) ==
    /\ read = container[kind] \/ read = {}
    /\ then \in {"store", "touch", "see"}
    /\ kind = "seen" => then = "see" /\ info \in SeenUser \cup {None}
    /\ kind = "bound" => then # "see" /\ info \in BoundUser
    /\ then # "store" => request.new = NoUid /\ request.call.op = "get"
    /\ then = "store" => reply.invalid \/ Told(request, reply) \in {NoUid, info.uid}

LEMMA CallMoves ==
    ASSUME Inv, NEW c \in Caller, NEW i \in Id, Works(c, i), Frame(i),
           HoldersType(holders'), UNCHANGED container,
           NEW request \in RequestSet, request.id = i, request.now <= clock,
           NEW kind \in Kind, NEW read, NEW then, NEW info, NEW reply \in ReplySet,
           MayMove(request, kind, read, then, info, reply),
           Goes(c, Moves(request, kind, read, then, info, reply)), NoHolder(i)'
    PROVE  /\ Inv' /\ Others(i)
           /\ kind = "bound" => Binding(i)' = info.uid /\ LastUse(i)' = request.now
           /\ kind = "seen" => Rests(i)'
<1>1. clock' = clock
  BY DEF Frame
<1>2. Moves(request, kind, read, then, info, reply) \in CallerState
  <2>1. read \in SUBSET Nat
    BY DEF Inv, TypeInv, MayMove
  <2>2. info \in SeenUser \cup BoundUser \cup {None}
    BY DEF Kind, MayMove
  <2>3. then \in {"store", "touch", "see"}
    BY DEF MayMove
  <2> QED  BY <2>1, <2>2, <2>3 DEF CallerState, Moves
<1>3. /\ TypeInv' /\ caller'[c] = Moves(request, kind, read, then, info, reply)
      /\ \A d \in Caller : d # c => caller'[d] = caller[d]
  BY <1>1, <1>2, CallerGoes
<1>4. /\ caller'[c].pc = "holder" /\ caller'[c].request = request
      /\ caller'[c].reply = reply /\ caller'[c].kind = kind
      /\ caller'[c].read = read /\ caller'[c].then = then /\ caller'[c].info = info
  BY <1>3 DEF Moves
<1>5. Answer(c)' = Told(request, reply)
  BY <1>4 DEF Answer, Told
<1>6. then = "store" => Settled(c, info.uid)'
  BY <1>4, <1>5 DEF Settled, MayMove
<1>7. \A h \in read : h \in 1 .. Len(holders'[kind]) /\ h \in container'[kind]
  BY DEF Frame, MayMove
<1>8. MovingCall(c)'
  BY <1>4, <1>6, <1>7 DEF MovingCall, NoHolder, MayMove
<1>9. CallInv(c)'
  BY <1>1, <1>4, <1>8 DEF CallInv, SeenCall
<1>10. OneHolder(i)'
  BY DEF NoHolder, OneHolder
<1>11. Inv'
  BY <1>3, <1>4, <1>9, <1>10, OneCallerSteps DEF Works, OneHolder
<1>12. Others(i)
  BY <1>3, <1>4, <1>11, OthersShown DEF Works
<1>13. ASSUME kind = "bound"
       PROVE  Binding(i)' = info.uid /\ LastUse(i)' = request.now
  <2>1. Carries(c, i)' /\ Shown(i)'
    BY <1>4, <1>11, <1>13, ShownIsBindingNext DEF Carries
  <2> QED  BY <1>4, <2>1 DEF Shown
<1>14. ASSUME kind = "seen" PROVE Rests(i)'
  <2>1. ~Carries(c, i)'
    BY <1>4, <1>14 DEF Carries
  <2> QED  BY <1>3, <1>11, <2>1, RestsAfter DEF Works
<1> QED
  BY <1>11, <1>12, <1>13, <1>14

LEMMA BoundMoves ==
    ASSUME Inv, NEW c \in Caller, NEW i \in Id, Works(c, i), Frame(i),
           HoldersType(holders'), UNCHANGED container,
           NEW request \in RequestSet, request.id = i, request.now <= clock,
           NEW read, read = container["bound"] \/ read = {},
           NEW then \in {"store", "touch"}, NEW info \in BoundUser, NEW reply \in ReplySet,
           Goes(c, Moves(request, "bound", read, then, info, reply)),
           NoHolder(i)',
           then # "store" => request.new = NoUid /\ request.call.op = "get",
           then = "store" => reply.invalid \/ Told(request, reply) \in {NoUid, info.uid}
    PROVE  /\ Inv' /\ Others(i)
           /\ Binding(i)' = info.uid /\ LastUse(i)' = request.now
<1>1. PICK kind \in Kind : kind = "bound"
  BY Kinds
<1>2. MayMove(request, kind, read, then, info, reply)
  BY <1>1 DEF MayMove
<1>3. Goes(c, Moves(request, kind, read, then, info, reply))
  BY <1>1
<1>4. /\ Inv' /\ Others(i)
      /\ kind = "bound" => Binding(i)' = info.uid /\ LastUse(i)' = request.now
  BY <1>2, <1>3, CallMoves
<1> QED  BY <1>1, <1>4

LEMMA SeenMoves ==
    ASSUME Inv, NEW c \in Caller, NEW i \in Id, Works(c, i), Frame(i),
           HoldersType(holders'), UNCHANGED container,
           NEW request \in RequestSet, request.id = i, request.now <= clock,
           NEW info \in SeenUser \cup {None}, NEW reply \in ReplySet,
           Goes(c, Moves(request, "seen", container["seen"], "see", info, reply)),
           NoHolder(i)', request.new = NoUid /\ request.call.op = "get"
    PROVE  Inv' /\ Others(i) /\ Rests(i)'
<1>1. PICK kind \in Kind : kind = "seen"
  BY Kinds
<1>2. PICK read : read = container[kind]
  OBVIOUS
<1>3. MayMove(request, kind, read, "see", info, reply)
  BY <1>1, <1>2 DEF MayMove
<1>4. Goes(c, Moves(request, kind, read, "see", info, reply))
  BY <1>1, <1>2
<1>5. /\ Inv' /\ Others(i)
      /\ kind = "seen" => Rests(i)'
  BY <1>3, <1>4, CallMoves
<1> QED  BY <1>1, <1>5

-----------------------------------------------------------------------------
(* The steps of a call.                                                    *)

LEMMA GetBoundKeeps ==
    ASSUME Inv, NEW c \in Caller, NEW i \in Id, NEW call \in Calls,
           NEW now \in RequestTime, GetBound(c, i, call, now)
    PROVE  Inv' /\ Directory!Step
<1>0. PICK request : request = Request(i, call, now, NoUid, FALSE)
  OBVIOUS
<1>1. /\ request \in RequestSet /\ request.id = i /\ request.call = call
      /\ request.now = now /\ request.new = NoUid /\ now \in Nat /\ now <= clock
      /\ NotBound \in ReplySet
  BY <1>0 DEF Request, RequestSet, RequestTime, Inv, TypeInv, NotBound, ReplySet
<1>2. /\ call.op = "get" /\ Works(c, i) /\ UNCHANGED <<clock, container>>
  BY DEF GetBound, InChunk, Idle, Works
<1>3. /\ Rests(i) /\ clock \in Nat
      /\ InChunk(c) => caller[c].request.id = i
      /\ InChunk(c) \/ Unlocked(i)
  <2>1. ~Carries(c, i)
    BY DEF GetBound, Carries, Idle
  <2> QED  BY <1>2, <2>1, RestsBefore DEF Works, Inv, TypeInv
<1>4. CASE ~Found("bound", i)
  <2> DEFINE state == [pc |-> "seen", request |-> request]
  <2>1. Goes(c, state) /\ UNCHANGED holders
    BY <1>0, <1>4 DEF GetBound
  <2>2. Frame(i) /\ HoldersType(holders')
        /\ \A k \in Kind : \A h \in container[k] : In(k, h, i)' = In(k, h, i)
    BY <1>2, <2>1, SameFrame
  <2>3. state \in CallerState
    BY <1>1 DEF CallerState
  <2>4. /\ TypeInv' /\ caller'[c] = state
        /\ \A d \in Caller : d # c => caller'[d] = caller[d]
    BY <1>2, <2>1, <2>2, <2>3, CallerGoes
  <2>5. \A h \in container'["bound"] : ~In("bound", h, i)'
    BY <1>2, <1>4, <2>2, Kinds, HomeOfUser
  <2>6. caller'[c].pc = "seen" /\ caller'[c].request = request
    BY <2>4
  <2>7. CallInv(c)'
    BY <1>1, <1>2, <2>5, <2>6 DEF CallInv, SeenCall, MovingCall
  <2>8. \A k, l \in Kind : \A g \in container'[k], h \in container'[l] :
            In(k, g, i)' /\ In(l, h, i)' => k = l /\ g = h
    BY <1>2, <2>2 DEF Inv, HomeInv
  <2>9. Inv'
    BY <1>1, <1>2, <2>2, <2>4, <2>6, <2>7, <2>8, OneCallerSteps DEF Works
  <2>10. Others(i)
    BY <1>1, <1>3, <2>2, <2>4, <2>6, <2>9, OthersShown
  <2>11. ~Carries(c, i)'
    BY <2>6 DEF Carries
  <2>12. Rests(i)'
    BY <1>3, <2>4, <2>9, <2>11, RestsAfter
  <2>13. Binding(i)' = Binding(i) /\ LastUse(i)' = LastUse(i)
    BY <1>2, <1>3, <2>2, <2>5, <2>12, Kinds DEF Rests
  <2> QED  BY <2>9, <2>10, <2>13, DirectoryKeeps
<1>5. CASE Found("bound", i)
  <2>1. PICK home \in container["bound"], old \in BoundUser :
            /\ home = Home("bound", i) /\ home \in 1 .. Len(holders["bound"])
            /\ old = holders["bound"][home].users[i] /\ In("bound", home, i)
            /\ holders["bound"][home].period \in 0 .. clock
            /\ \A k \in Kind : \A h \in container[k] :
                    In(k, h, i) => k = "bound" /\ h = home
    BY <1>5, Kinds, HomeOfUser
  <2>2. PICK info \in BoundUser, reply \in ReplySet :
            info = AtGet(old, call, now) /\ reply = GetReply(info, call)
    BY <1>1, <1>2, <2>1, GetTypes
  <2>3. info # None /\ info \in User("bound") \cup {None}
    BY <2>2, Kinds, BindAssumption
  <2>4. /\ info.uid = old.uid /\ Binding(i) = old.uid /\ old.uid \in Uid
        /\ LastUse(i) = holders["bound"][home].period
    <3>1. info.uid = old.uid
      BY <1>1, <2>2, GetTypes
    <3>2. /\ Binding(i) = old.uid /\ old.uid \in Uid
          /\ LastUse(i) = holders["bound"][home].period
      BY <1>3, <2>1 DEF Rests, BoundUser
    <3> QED  BY <3>1, <3>2
  <2>5. CASE call.silent \/ holders["bound"][home].period >= now
    <3>1. holders' = Stored("bound", home, i, info) /\ Goes(c, Replies(request, reply))
      BY <1>0, <1>5, <2>1, <2>2, <2>5 DEF GetBound
    <3>2. Lies("bound", home, i, info)
      BY <1>2, <2>1, <2>3, <3>1, Kinds, StoredFrame
    <3>3. Frame(i) /\ HoldersType(holders')
      BY <3>2 DEF Lies
    <3>4. OneHolder(i)'
      BY <1>2, <2>1, <3>2 DEF Lies, OneHolder
    <3>5. Told(request, reply) = info.uid
      BY <1>1, <2>2 DEF Told, GetReply
    <3>6. (request.new = NoUid /\ request.call.silent) \/ Held(request, info.uid)'
      <4>1. /\ home \in container'["bound"] /\ In("bound", home, request.id)'
            /\ holders'["bound"][home].users[request.id].uid = info.uid
            /\ holders'["bound"][home].period = holders["bound"][home].period
        BY <1>1, <1>2, <2>1, <2>3, <3>2 DEF Lies
      <4> QED  BY <1>1, <2>5, <4>1 DEF Held
    <3>7. Inv' /\ Others(i) /\ Rests(i)'
      BY <1>1, <1>2, <3>1, <3>3, <3>4, <3>5, <3>6, CallReplies
    <3>8. /\ home \in container'["bound"] /\ In("bound", home, i)'
          /\ holders'["bound"][home].users[i].uid = info.uid
          /\ holders'["bound"][home].period = holders["bound"][home].period
      BY <1>2, <2>1, <2>3, <3>2 DEF Lies
    <3>9. Binding(i)' = Binding(i) /\ LastUse(i)' = LastUse(i)
      BY <2>4, <3>7, <3>8 DEF Rests
    <3> QED  BY <3>7, <3>9, DirectoryKeeps
  <2>6. CASE ~(call.silent \/ holders["bound"][home].period >= now)
    <3>1. /\ holders' = Stored("bound", home, i, None)
          /\ Goes(c, Moves(request, "bound", container["bound"], "touch", info, NotBound))
      BY <1>0, <1>5, <2>1, <2>2, <2>6 DEF GetBound
    <3>2. Lies("bound", home, i, None)
      BY <1>2, <2>1, <3>1, Kinds, StoredFrame
    <3>3. Frame(i) /\ HoldersType(holders')
      BY <3>2 DEF Lies
    <3>4. NoHolder(i)'
      BY <1>2, <2>1, <3>2 DEF Lies, NoHolder
    <3>5. PICK read : read = container["bound"]
      OBVIOUS
    <3>6. Inv' /\ Others(i) /\ Binding(i)' = info.uid /\ LastUse(i)' = now
      BY <1>1, <1>2, <3>1, <3>3, <3>4, <3>5, BoundMoves
    <3>7. LastUse(i)' = IF now > LastUse(i) THEN now ELSE LastUse(i)
      BY <1>1, <2>1, <2>4, <2>6, <3>6
    <3>8. Binding(i) # NoUid
      BY <2>4, BindAssumption
    <3>9. PICK v : v = Binding(i)
      OBVIOUS
    <3>10. Binding(i)' = v
      BY <2>4, <3>6, <3>9
    <3> QED  BY <1>1, <1>3, <3>6, <3>7, <3>8, <3>9, <3>10, DirectoryUses
  <2> QED  BY <2>5, <2>6
<1> QED  BY <1>4, <1>5

(* A user id of its own for an id that has been seen before.               *)
LEMMA GeneratesKeeps ==
    ASSUME Inv, NEW c \in Caller, caller[c].pc \in {"seen", "put"},
           caller[c].request.new = NoUid, caller[c].request.call.op = "get",
           NEW u \in Uid, Generates(c, u), NEW i, i = caller[c].request.id,
           Frame(i), HoldersType(holders'), UNCHANGED container, NoHolder(i)',
           Binding(i) = NoUid
    PROVE  Inv' /\ Directory!Step
<1>1. PICK request \in RequestSet : request = caller[c].request
  BY CallerType DEF Inv
<1>2. /\ i \in Id /\ request.id = i /\ request.now <= clock /\ request.call \in Calls
      /\ request.call \in GetCall /\ request.call.cookie \in BOOLEAN
  <2>1. CallInv(c) /\ caller[c] # Idle
    BY DEF Inv, Idle
  <2>2. i \in Id /\ request.id = i /\ request.now <= clock /\ request.call \in Calls
    BY <1>1, <2>1 DEF RequestSet, CallInv
  <2>3. request.call \in GetCall
    BY <1>1, <2>2, BindAssumption DEF GetCall, AddCall
  <2> QED  BY <2>2, <2>3 DEF GetCall
<1>3. PICK info, reply : /\ info = [NoUser EXCEPT !.uid = u, !.cookie = request.call.cookie]
                         /\ reply = [NotBound EXCEPT !.uid = u]
  OBVIOUS
<1>4. info \in BoundUser /\ info.uid = u
  <2>1. 0 \in 0 .. CountSize - 1 /\ 0 \in Nat
    BY BindAssumption
  <2> QED  BY <1>2, <1>3, <2>1 DEF NoUser, BoundUser
<1>5. reply \in ReplySet /\ reply.uid = u
  BY <1>3 DEF NotBound, ReplySet
<1>6. Goes(c, Moves(request, "bound", {}, "store", info, reply))
  BY <1>1, <1>3 DEF Generates
<1>7. Works(c, i)
  BY DEF Works, InChunk
<1>8. Told(request, reply) = u
  BY <1>1, <1>5 DEF Told
<1>9. /\ Inv' /\ Others(i)
      /\ Binding(i)' = info.uid /\ LastUse(i)' = request.now
  BY <1>2, <1>4, <1>5, <1>6, <1>7, <1>8, BoundMoves
<1>10. request.now \in Nat /\ clock \in Nat
  BY DEF RequestSet, Inv, TypeInv
<1> QED
  BY <1>2, <1>4, <1>9, <1>10, DirectoryBinds

LEMMA GetSeenKeeps ==
    ASSUME Inv, NEW c \in Caller, GetSeen(c)
    PROVE  Inv' /\ Directory!Step
<1>1. caller[c].pc = "seen" /\ UNCHANGED <<clock, container>>
  BY Zenon DEF GetSeen
<1>2. PICK request \in RequestSet : request = caller[c].request
  BY <1>1, CallerType DEF Inv
<1>3. PICK i \in Id, call \in Calls, now \in Nat :
            i = request.id /\ call = request.call /\ now = request.now
  BY DEF RequestSet
<1>4. /\ request.new = NoUid /\ call.op = "get" /\ request.now <= clock
      /\ \A h \in container["bound"] : ~In("bound", h, i)
      /\ Works(c, i) /\ NotBound \in ReplySet /\ NotBound.uid = NoUid
  BY <1>1, <1>2, <1>3 DEF Inv, CallInv, SeenCall, Idle, Works, InChunk, NotBound, ReplySet
<1>5. Told(request, NotBound) = NoUid
  BY <1>4 DEF Told, NotBound
<1>6. Rests(i) /\ Binding(i) = NoUid /\ LastUse(i) = 0
  <2>1. ~Carries(c, i)
    BY <1>1 DEF Carries
  <2>2. Rests(i)
    BY <1>4, <2>1, RestsBefore DEF Works
  <2> QED  BY <1>4, <2>2 DEF Rests
<1>7. ASSUME Inv' /\ Others(i) /\ Rests(i)',
              \A h \in container'["bound"] : ~In("bound", h, i)'
       PROVE  Inv' /\ Directory!Step
  <2>1. Binding(i)' = Binding(i) /\ LastUse(i)' = LastUse(i)
    BY <1>6, <1>7 DEF Rests
  <2> QED  BY <1>7, <2>1, DirectoryKeeps
<1>8. CASE call.silent
  <2>1. Goes(c, Replies(request, NotBound)) /\ UNCHANGED holders
    BY <1>2, <1>3, <1>8 DEF GetSeen
  <2>2. Frame(i) /\ HoldersType(holders')
        /\ \A k \in Kind : \A h \in container[k] : In(k, h, i)' = In(k, h, i)
    BY <1>1, <2>1, SameFrame
  <2>3. OneHolder(i)'
    BY <1>1, <2>2 DEF Inv, HomeInv, OneHolder
  <2>4. Inv' /\ Others(i) /\ Rests(i)'
    BY <1>1, <1>3, <1>4, <1>5, <2>1, <2>2, <2>3, CallReplies
  <2>5. \A h \in container'["bound"] : ~In("bound", h, i)'
    BY <1>1, <1>4, <2>2, Kinds
  <2> QED  BY <1>7, <2>4, <2>5
<1>9. CASE ~call.silent /\ ~Found("seen", i)
  <2>1. /\ Goes(c, Moves(request, "seen", container["seen"], "see", None, NotBound))
        /\ UNCHANGED holders
    BY <1>2, <1>3, <1>9 DEF GetSeen
  <2>2. Frame(i) /\ HoldersType(holders')
        /\ \A k \in Kind : \A h \in container[k] : In(k, h, i)' = In(k, h, i)
    BY <1>1, <2>1, SameFrame
  <2>3. NoHolder(i)'
    BY <1>1, <1>4, <1>9, <2>2, Kinds, HomeOfUser DEF NoHolder, Kind
  <2>4. Inv' /\ Others(i) /\ Rests(i)'
    BY <1>1, <1>3, <1>4, <2>1, <2>2, <2>3, SeenMoves
  <2>5. \A h \in container'["bound"] : ~In("bound", h, i)'
    BY <2>3, Kinds DEF NoHolder
  <2> QED  BY <1>7, <2>4, <2>5
<1>10. CASE ~call.silent /\ Found("seen", i)
  <2>1. PICK home \in container["seen"], old \in SeenUser :
            /\ home = Home("seen", i) /\ home \in 1 .. Len(holders["seen"])
            /\ old = holders["seen"][home].users[i]
            /\ \A k \in Kind : \A h \in container[k] :
                    In(k, h, i) => k = "seen" /\ h = home
    BY <1>10, Kinds, HomeOfUser
  <2>2. PICK first \in Int : first = IF now < old.first THEN now ELSE old.first
    BY <2>1 DEF SeenUser
  <2>3. [first |-> first] \in SeenUser /\ [first |-> first] \in User("seen") \cup {None}
    BY <2>2, Kinds DEF SeenUser
  <2>4. ASSUME holders' = Stored("seen", home, i, None)
        PROVE  Frame(i) /\ HoldersType(holders') /\ NoHolder(i)'
    <3>1. Lies("seen", home, i, None)
      BY <1>1, <2>1, <2>4, Kinds, StoredFrame
    <3> QED
      BY <1>1, <2>1, <3>1 DEF Lies, NoHolder
  <2>5. CASE OldEnough(first, now)
    <3>1. /\ holders' = Stored("seen", home, i, None)
          /\ \E u \in Uid : Generates(c, u)
      BY <1>2, <1>3, <1>10, <2>1, <2>2, <2>5 DEF GetSeen
    <3> QED
      BY <1>1, <1>2, <1>3, <1>4, <1>6, <2>4, <3>1, GeneratesKeeps
  <2>6. CASE ~OldEnough(first, now) /\ holders["seen"][home].period >= now
    <3>1. /\ holders' = Stored("seen", home, i, [first |-> first])
          /\ Goes(c, Replies(request, NotBound))
      BY <1>2, <1>3, <1>10, <2>1, <2>2, <2>6 DEF GetSeen
    <3>2. Lies("seen", home, i, [first |-> first])
      BY <1>1, <2>1, <2>3, <3>1, Kinds, StoredFrame
    <3>3. Frame(i) /\ HoldersType(holders') /\ OneHolder(i)'
      BY <1>1, <2>1, <3>2 DEF Lies, OneHolder
    <3>4. Inv' /\ Others(i) /\ Rests(i)'
      BY <1>1, <1>3, <1>4, <1>5, <3>1, <3>3, CallReplies
    <3>5. \A h \in container'["bound"] : ~In("bound", h, i)'
      BY <1>1, <1>4, <3>2, Kinds DEF Lies
    <3> QED  BY <1>7, <3>4, <3>5
  <2>7. CASE ~OldEnough(first, now) /\ ~(holders["seen"][home].period >= now)
    <3>1. /\ holders' = Stored("seen", home, i, None)
          /\ Goes(c, Moves(request, "seen", container["seen"], "see",
                           [first |-> first], NotBound))
      BY <1>2, <1>3, <1>10, <2>1, <2>2, <2>7 DEF GetSeen
    <3>2. Inv' /\ Others(i) /\ Rests(i)'
      BY <1>1, <1>3, <1>4, <2>3, <2>4, <3>1, SeenMoves
    <3>3. \A h \in container'["bound"] : ~In("bound", h, i)'
      BY <2>4, <3>1, Kinds DEF NoHolder
    <3> QED  BY <1>7, <3>2, <3>3
  <2> QED  BY <2>5, <2>6, <2>7
<1> QED  BY <1>8, <1>9, <1>10

(* An id leaves the seen users.                                            *)
LEMMA UnseenEffect ==
    ASSUME Inv, NEW i \in Id, NEW new, new = Unseen(i)
    PROVE  /\ HoldersType(new)
           /\ \A l \in Kind :
                /\ Len(new[l]) = Len(holders[l])
                /\ \A g \in 1 .. Len(holders[l]) :
                    /\ new[l][g].period = holders[l][g].period
                    /\ \A j \in Id : l = "bound" \/ j # i =>
                            new[l][g].users[j] = holders[l][g].users[j]
           /\ \A g \in container["seen"] : new["seen"][g].users[i] = None
<1>1. HoldersType(holders)
  BY DEF Inv, TypeInv, HoldersType
<1>2. container["seen"] \subseteq 1 .. Len(holders["seen"])
  BY Kinds DEF Inv, ContainerInv
<1>3. CASE Found("seen", i)
  <2>1. PICK home \in container["seen"] :
            /\ home = Home("seen", i) /\ home \in 1 .. Len(holders["seen"])
            /\ \A h \in container["seen"] : In("seen", h, i) => h = home
    BY <1>3, Kinds, HomeOfUser
  <2>2. new = [holders EXCEPT !["seen"][home].users[i] = None]
    BY <1>3, <2>1 DEF Unseen, Stored
  <2>3. Replaced(holders, new, "seen", home, i, None)
    BY <1>1, <2>1, <2>2, Kinds, StoredEffect
  <2> QED
    <3>1. ASSUME NEW g \in container["seen"] PROVE new["seen"][g].users[i] = None
      <4>1. CASE g = home
        BY <1>2, <2>3, <4>1, Kinds DEF Replaced
      <4>2. CASE g # home
        BY <1>2, <2>1, <2>3, <4>2, Kinds DEF Replaced, In
      <4> QED  BY <4>1, <4>2
    <3>2. ASSUME NEW l \in Kind, NEW g \in 1 .. Len(holders[l]), NEW j \in Id,
                 l = "bound" \/ j # i
          PROVE  new[l][g].users[j] = holders[l][g].users[j]
      BY <2>3, <3>2 DEF Replaced
    <3> QED  BY <2>3, <3>1, <3>2 DEF Replaced
<1>4. CASE ~Found("seen", i)
  <2>1. new = holders
    BY <1>4 DEF Unseen
  <2>2. \A h \in container["seen"] : ~In("seen", h, i)
    BY <1>4, Kinds, HomeOfUser
  <2> QED
    BY <1>1, <1>2, <2>1, <2>2 DEF In
<1> QED  BY <1>3, <1>4

LEMMA AddBoundKeeps ==
    ASSUME Inv, NEW c \in Caller, NEW request \in RequestSet, request.now <= clock,
           request.new \in Uid, ~InChunk(c), AddBound(c, request)
    PROVE  Inv' /\ Directory!Step
<1>1. PICK i \in Id, now \in Nat, u \in Uid :
            i = request.id /\ now = request.now /\ u = request.new
  BY DEF RequestSet
<1>2. Works(c, i) /\ UNCHANGED <<clock, container>> /\ request.resave \in BOOLEAN
  BY <1>1 DEF AddBound, Works, RequestSet
<1>3. PICK unseen : unseen = Unseen(i)
  OBVIOUS
<1>4. /\ HoldersType(unseen)
      /\ \A l \in Kind :
            /\ Len(unseen[l]) = Len(holders[l])
            /\ \A g \in 1 .. Len(holders[l]) :
                /\ unseen[l][g].period = holders[l][g].period
                /\ \A j \in Id : l = "bound" \/ j # i =>
                        unseen[l][g].users[j] = holders[l][g].users[j]
      /\ \A g \in container["seen"] : unseen["seen"][g].users[i] = None
  BY <1>3, UnseenEffect
<1>5. /\ \A k \in Kind : Len(holders[k]) \in Nat /\ container[k] \subseteq 1 .. Len(holders[k])
      /\ clock \in Nat
  BY DEF Inv, ContainerInv, TypeInv
<1>8. Rests(i)
  <2>1. ~Carries(c, i)
    BY DEF Carries, InChunk
  <2> QED  BY <1>2, <2>1, RestsBefore DEF Works
<1>6. CASE Found("bound", i)
  <2>1. PICK home \in container["bound"], old \in BoundUser :
            /\ home = Home("bound", i) /\ home \in 1 .. Len(holders["bound"])
            /\ old = holders["bound"][home].users[i] /\ In("bound", home, i)
            /\ holders["bound"][home].period \in 0 .. clock
            /\ \A k \in Kind : \A h \in container[k] :
                    In(k, h, i) => k = "bound" /\ h = home
    BY <1>6, Kinds, HomeOfUser
  <2>2. PICK info \in BoundUser, reply \in ReplySet :
            /\ info = IF request.resave THEN Saved(old, u, now) ELSE old
            /\ reply = [uid |-> old.uid, found |-> TRUE,
                        invalid |-> request.resave /\ Refused(old, u, now)]
    <3>1. Saved(old, u, now) \in BoundUser /\ Refused(old, u, now) \in BOOLEAN
      BY SaveTypes
    <3>2. old.uid \in Uid \cup {NoUid}
      BY DEF BoundUser
    <3>3. [uid |-> old.uid, found |-> TRUE,
           invalid |-> request.resave /\ Refused(old, u, now)] \in ReplySet
      BY <1>2, <3>1, <3>2 DEF ReplySet
    <3> QED  BY <3>1, <3>3
  <2>3. reply.invalid \/ Told(request, reply) = info.uid
    BY <1>1, <1>2, <2>2, SaveTypes, BindAssumption DEF Told
  <2>4. ASSUME NEW v \in BoundUser \cup {None},
               holders' = [unseen EXCEPT !["bound"][home].users[i] = v]
        PROVE  /\ Frame(i) /\ HoldersType(holders')
               /\ \A k \in Kind : \A h \in container'[k] :
                    In(k, h, i)' => k = "bound" /\ h = home /\ v # None
               /\ holders'["bound"][home].users[i] = v
               /\ holders'["bound"][home].period = holders["bound"][home].period
    <3>1. Replaced(unseen, holders', "bound", home, i, v)
      BY <1>4, <2>1, <2>4, Kinds, StoredEffect
    <3>2. Frame(i)
      BY <1>2, <1>4, <1>5, <3>1 DEF Replaced, Frame
    <3>3. ASSUME NEW k \in Kind, NEW h \in container'[k], In(k, h, i)'
          PROVE  k = "bound" /\ h = home /\ v # None
      <4>1. h \in container[k] /\ h \in 1 .. Len(holders[k])
        BY <1>2, <1>5
      <4>2. k # "seen"
        BY <1>4, <3>1, <3>3, <4>1 DEF Replaced, In
      <4>3. k = "bound"
        BY <4>2 DEF Kind
      <4>4. h # home => In("bound", h, i)
        BY <1>4, <3>1, <3>3, <4>1, <4>3 DEF Replaced, In
      <4>5. h = home => v # None
        BY <1>4, <3>1, <3>3, <4>1, <4>3 DEF Replaced, In
      <4> QED  BY <2>1, <4>1, <4>3, <4>4, <4>5, Kinds
    <3> QED
      BY <1>4, <2>1, <3>1, <3>2, <3>3, Kinds DEF Replaced
  <2>7. /\ Binding(i) = old.uid /\ Binding(i) # NoUid
        /\ LastUse(i) = holders["bound"][home].period
    <3>1. Binding(i) = old.uid /\ LastUse(i) = holders["bound"][home].period
      BY <1>8, <2>1 DEF Rests
    <3> QED  BY <3>1, BindAssumption DEF BoundUser
  <2>8. ASSUME Inv' /\ Others(i), Binding(i)' = info.uid,
               LastUse(i)' = IF now > LastUse(i) THEN now ELSE LastUse(i)
        PROVE  Inv' /\ Directory!Step
    <3>1. PICK v \in Uid : v = info.uid
      BY DEF BoundUser
    <3>2. Binding(i)' = v
      BY <2>8, <3>1
    <3> QED  BY <1>1, <1>5, <2>7, <2>8, <3>2, DirectoryUses
  <2>5. CASE holders["bound"][home].period >= now
    <3>1. /\ holders' = [unseen EXCEPT !["bound"][home].users[i] = info]
          /\ Goes(c, Replies(request, reply))
      BY <1>1, <1>3, <1>6, <2>1, <2>2, <2>5 DEF AddBound
    <3>2. /\ Frame(i) /\ HoldersType(holders')
          /\ \A k \in Kind : \A h \in container'[k] :
                In(k, h, i)' => k = "bound" /\ h = home
          /\ holders'["bound"][home].users[i] = info
          /\ holders'["bound"][home].period = holders["bound"][home].period
      BY <2>4, <3>1
    <3>3. OneHolder(i)'
      BY <3>2 DEF OneHolder
    <3>4. home \in container'["bound"] /\ In("bound", home, i)'
      BY <1>2, <2>1, <3>2, BindAssumption DEF In
    <3>5. Held(request, info.uid)'
      BY <1>1, <2>5, <3>2, <3>4 DEF Held
    <3>6. Inv' /\ Others(i) /\ Rests(i)'
      BY <1>1, <1>2, <2>3, <3>1, <3>2, <3>3, <3>5, CallReplies
    <3>7. /\ Binding(i)' = info.uid
          /\ LastUse(i)' = holders["bound"][home].period
      BY <3>2, <3>4, <3>6 DEF Rests
    <3>8. LastUse(i)' = IF now > LastUse(i) THEN now ELSE LastUse(i)
      BY <2>1, <2>5, <2>7, <3>7
    <3> QED  BY <2>8, <3>6, <3>7, <3>8
  <2>6. CASE ~(holders["bound"][home].period >= now)
    <3>1. /\ holders' = [unseen EXCEPT !["bound"][home].users[i] = None]
          /\ Goes(c, Moves(request, "bound", container["bound"], "store", info, reply))
      BY <1>1, <1>3, <1>6, <2>1, <2>2, <2>6 DEF AddBound
    <3>2. /\ Frame(i) /\ HoldersType(holders')
          /\ \A k \in Kind : \A h \in container'[k] :
                In(k, h, i)' => k = "bound" /\ h = home /\ None # None
      BY <2>4, <3>1
    <3>3. NoHolder(i)'
      BY <3>2 DEF NoHolder
    <3>4. PICK read : read = container["bound"]
      OBVIOUS
    <3>5. Inv' /\ Others(i) /\ Binding(i)' = info.uid /\ LastUse(i)' = request.now
      BY <1>1, <1>2, <2>3, <3>1, <3>2, <3>3, <3>4, BoundMoves
    <3>6. LastUse(i)' = IF now > LastUse(i) THEN now ELSE LastUse(i)
      BY <1>1, <2>1, <2>6, <2>7, <3>5
    <3> QED  BY <2>8, <3>5, <3>6
  <2> QED  BY <2>5, <2>6
<1>7. CASE ~Found("bound", i)
  <2>1. PICK info \in BoundUser, reply \in ReplySet :
            /\ info = Saved(NoUser, u, now) /\ info.uid = u
            /\ reply = [uid |-> NoUser.uid, found |-> Found("bound", i),
                        invalid |-> (request.resave \/ ~Found("bound", i))
                                    /\ Refused(NoUser, u, now)]
    <3>1. /\ Saved(NoUser, u, now) \in BoundUser /\ Saved(NoUser, u, now).uid = u
          /\ NoUser.uid = NoUid
      BY SaveTypes DEF NoUser
    <3>2. Found("bound", i) \in BOOLEAN
      BY DEF Found
    <3>3. ((request.resave \/ ~Found("bound", i)) /\ Refused(NoUser, u, now)) \in BOOLEAN
      BY SaveTypes
    <3> QED  BY <3>1, <3>2, <3>3 DEF ReplySet
  <2>2. Told(request, reply) = info.uid
    BY <1>1, <1>7, <2>1, BindAssumption DEF Told
  <2>3. /\ holders' = unseen
        /\ Goes(c, Moves(request, "bound", container["bound"], "store", info, reply))
    BY <1>1, <1>3, <1>7, <2>1 DEF AddBound
  <2>4. Frame(i)
    BY <1>2, <1>4, <1>5, <2>3 DEF Frame
  <2>7. HoldersType(holders')
    BY <1>4, <2>3
  <2>5. NoHolder(i)'
    <3>1. ASSUME NEW k \in Kind, NEW h \in container[k] PROVE ~In(k, h, i)'
      <4>1. CASE k = "seen"
        BY <1>4, <2>3, <3>1, <4>1 DEF In
      <4>2. CASE k = "bound"
        <5>1. ~In("bound", h, i) /\ h \in 1 .. Len(holders["bound"])
          BY <1>5, <1>7, <4>2, Kinds, HomeOfUser
        <5> QED  BY <1>4, <2>3, <3>1, <4>2, <5>1, Kinds DEF In
      <4> QED  BY <4>1, <4>2 DEF Kind
    <3> QED  BY <1>2, <3>1 DEF NoHolder
  <2>6. PICK read : read = container["bound"]
    OBVIOUS
  <2>8. Inv' /\ Others(i) /\ Binding(i)' = u /\ LastUse(i)' = now
    <3>1. reply.invalid \/ Told(request, reply) \in {NoUid, info.uid}
      BY <2>2
    <3>2. Inv' /\ Others(i) /\ Binding(i)' = info.uid /\ LastUse(i)' = request.now
      BY <1>1, <1>2, <2>3, <2>4, <2>5, <2>6, <2>7, <3>1, BoundMoves
    <3> QED  BY <1>1, <2>1, <3>2
  <2>9. Binding(i) = NoUid
    BY <1>7, <1>8, Kinds, HomeOfUser DEF Rests
  <2> QED  BY <1>1, <1>5, <2>8, <2>9, DirectoryBinds
<1> QED  BY <1>6, <1>7

(* The holder of the present is found or made.                             *)
LEMMA TakesKeeps ==
    ASSUME Inv, NEW c \in Caller, caller[c].pc = "holder",
           NEW i \in Id, i = caller[c].request.id, NEW k \in Kind, k = caller[c].kind,
           NEW h \in 1 .. Len(holders'[k]),
           Goes(c, [caller[c] EXCEPT !.pc = "put", !.read = {h}]),
           Frame(i), HoldersType(holders'), container' \in [Kind -> SUBSET Nat],
           NoHolder(i)', h \in container'[k] \/ Expired(holders'[k][h].period),
           holders'[k][h].period = caller[c].request.now
    PROVE  Inv' /\ Directory!Step
<1>1. /\ MovingCall(c) /\ caller[c] # Idle /\ caller[c].request.now <= clock
      /\ caller[c] \in [pc : {"holder", "put"}, request : RequestSet, reply : ReplySet,
                        kind : Kind, read : SUBSET Nat, then : {"store", "touch", "see"},
                        info : SeenUser \cup BoundUser \cup {None}]
  BY CallerType DEF Inv, CallInv, Idle
<1>2. PICK state : state = [caller[c] EXCEPT !.pc = "put", !.read = {h}]
  OBVIOUS
<1>3. /\ state.pc = "put" /\ state.read = {h} /\ state.request = caller[c].request
      /\ state.reply = caller[c].reply /\ state.kind = k
      /\ state.then = caller[c].then /\ state.info = caller[c].info
  BY <1>1, <1>2
<1>4. h \in Nat
  BY DEF HoldersType
<1>5. state \in CallerState
  BY <1>1, <1>2, <1>4 DEF CallerState
<1>6. /\ TypeInv' /\ caller'[c] = state
      /\ \A d \in Caller : d # c => caller'[d] = caller[d]
  BY <1>2, <1>5 DEF Goes, Inv, TypeInv, HoldersType, Frame
<1>7. /\ caller'[c].pc = "put" /\ caller'[c].read = {h}
      /\ caller'[c].request = caller[c].request /\ caller'[c].reply = caller[c].reply
      /\ caller'[c].kind = k /\ caller'[c].then = caller[c].then
      /\ caller'[c].info = caller[c].info
  BY <1>3, <1>6
<1>8. Settled(c, caller[c].info.uid) => Settled(c, caller[c].info.uid)'
  BY <1>7 DEF Settled, Answer
<1>9. clock' = clock
  BY DEF Frame
<1>10. MovingCall(c)'
  <2>1. (\A l \in Kind : \A g \in container[l] : ~In(l, g, caller[c].request.id))'
    <3>1. caller'[c].request.id = i
      BY <1>7
    <3> QED  BY <3>1 DEF NoHolder, In
  <2>2. (\A g \in caller[c].read :
            /\ g \in 1 .. Len(holders[caller[c].kind])
            /\ g \in container[caller[c].kind] \/ Expired(holders[caller[c].kind][g].period))'
    BY <1>7, <1>9 DEF Expired
  <2>3. /\ caller'[c].read = {h}
        /\ holders'[caller'[c].kind][h].period = caller'[c].request.now
    BY <1>7
  <2> QED
    BY <1>1, <1>4, <1>7, <1>8, <2>1, <2>2, <2>3 DEF MovingCall
<1>11. CallInv(c)'
  BY <1>1, <1>7, <1>9, <1>10 DEF CallInv, SeenCall
<1>12. OneHolder(i)'
  BY DEF NoHolder, OneHolder
<1>13. InChunk(c)
  BY DEF InChunk
<1>14. Inv'
  BY <1>6, <1>7, <1>11, <1>12, <1>13, OneCallerSteps DEF OneHolder
<1>15. Others(i)
  BY <1>6, <1>7, <1>13, <1>14, OthersShown
<1>16. Binding(i)' = Binding(i) /\ LastUse(i)' = LastUse(i)
  <2>1. Shown(i) /\ Shown(i)'
    BY <1>14, ShownIsBinding, ShownIsBindingNext
  <2>2. CASE k = "bound"
    <3>1. Carries(c, i) /\ Carries(c, i)'
      BY <1>7, <2>2 DEF Carries
    <3> QED  BY <1>7, <2>1, <3>1 DEF Shown
  <2>3. CASE k # "bound"
    <3>1. ~Carries(c, i) /\ ~Carries(c, i)'
      BY <1>7, <2>3 DEF Carries
    <3>2. Rests(i) /\ Rests(i)'
      BY <1>6, <1>13, <1>14, <3>1, RestsBefore, RestsAfter
    <3>3. /\ \A g \in container["bound"] : ~In("bound", g, i)
          /\ \A g \in container'["bound"] : ~In("bound", g, i)'
      BY <1>1, Kinds DEF MovingCall, NoHolder
    <3> QED  BY <3>2, <3>3 DEF Rests
  <2> QED  BY <2>2, <2>3
<1> QED
  BY <1>14, <1>15, <1>16, DirectoryKeeps

LEMMA GetHolderKeeps ==
    ASSUME Inv, NEW c \in Caller, GetHolder(c)
    PROVE  Inv' /\ Directory!Step
<1>1. caller[c].pc = "holder" /\ clock' = clock
  BY Zenon DEF GetHolder
<1>2. PICK i \in Id, k \in Kind, now \in Nat, read \in SUBSET Nat :
            /\ i = caller[c].request.id /\ k = caller[c].kind
            /\ now = caller[c].request.now /\ read = caller[c].read /\ now <= clock
  BY <1>1, CallerType DEF RequestSet, Inv, CallInv, Idle
<1>3. /\ NoHolder(i)
      /\ \A h \in read : /\ h \in 1 .. Len(holders[k])
                         /\ h \in container[k] \/ Expired(holders[k][h].period)
  BY <1>1, <1>2 DEF Inv, CallInv, MovingCall, NoHolder
<1>4. /\ \A l \in Kind : Len(holders[l]) \in Nat /\ container[l] \subseteq 1 .. Len(holders[l])
      /\ container \in [Kind -> SUBSET Nat] /\ HoldersType(holders)
  BY DEF Inv, TypeInv, ContainerInv, HoldersType
<1>5. ASSUME NEW h \in 1 .. Len(holders[k]), holders[k][h].period = now,
             h \in container[k] \/ Expired(holders[k][h].period),
             Goes(c, [caller[c] EXCEPT !.pc = "put", !.read = {h}]),
             UNCHANGED <<holders, container>>
      PROVE  Inv' /\ Directory!Step
  <2>1. Frame(i) /\ HoldersType(holders')
        /\ \A l \in Kind : \A g \in container[l] : In(l, g, i)' = In(l, g, i)
    BY <1>1, <1>5, SameFrame
  <2>2. NoHolder(i)'
    BY <1>3, <1>5, <2>1 DEF NoHolder
  <2> QED
    BY <1>1, <1>2, <1>4, <1>5, <2>1, <2>2, TakesKeeps
<1>6. CASE Of(k, read, now) # {}
  <2>1. PICK h \in Of(k, read, now) : /\ Goes(c, [caller[c] EXCEPT !.pc = "put", !.read = {h}])
                                    /\ UNCHANGED <<holders, container>>
    BY <1>2, <1>6 DEF GetHolder
  <2> QED
    BY <1>3, <1>5, <2>1 DEF Of
<1>7. CASE Of(k, read, now) = {} /\ Of(k, container[k], now) # {}
  <2>1. PICK h \in Of(k, container[k], now) :
            /\ Goes(c, [caller[c] EXCEPT !.pc = "put", !.read = {h}])
            /\ UNCHANGED <<holders, container>>
    BY <1>2, <1>7 DEF GetHolder
  <2> QED
    BY <1>4, <1>5, <2>1 DEF Of
<1>8. CASE Of(k, read, now) = {} /\ Of(k, container[k], now) = {}
  <2>0. PICK h \in Nat : h = Len(holders[k]) + 1
    BY <1>4
  <2>1. PICK empty : empty = [period |-> now, users |-> [j \in Id |-> None]]
    OBVIOUS
  <2>2. /\ holders' = [holders EXCEPT ![k] = Append(@, empty)]
        /\ container' = [container EXCEPT ![k] = container[k] \cup {h}]
        /\ Goes(c, [caller[c] EXCEPT !.pc = "put", !.read = {h}])
    BY <1>2, <1>8, <2>0, <2>1 DEF GetHolder, Extended
  <2>3. empty \in Holder(k) /\ empty.period = now /\ \A j \in Id : empty.users[j] = None
    BY <2>1 DEF Holder
  <2>4. PICK longer : longer = Append(holders[k], empty)
    OBVIOUS
  <2>5. /\ longer \in Seq(Holder(k)) /\ Len(longer) = Len(holders[k]) + 1
        /\ longer[h] = empty
        /\ \A g \in 1 .. Len(holders[k]) : longer[g] = holders[k][g]
    <3>1. holders[k] \in Seq(Holder(k))
      BY <1>4 DEF HoldersType
    <3> QED  BY <2>0, <2>3, <2>4, <3>1
  <2>6. holders'[k] = longer /\ \A l \in Kind : l # k => holders'[l] = holders[l]
    BY <1>4, <2>2, <2>4 DEF HoldersType
  <2>7. HoldersType(holders')
    <3>1. holders' = [l \in Kind |-> holders'[l]]
      BY <1>4, <2>2 DEF HoldersType
    <3> QED  BY <1>4, <2>5, <2>6, <3>1 DEF HoldersType
  <2>8. /\ container' \in [Kind -> SUBSET Nat] /\ container'[k] = container[k] \cup {h}
        /\ \A l \in Kind : l # k => container'[l] = container[l]
    BY <1>4, <2>0, <2>2
  <2>9. Frame(i)
    <3>1. ASSUME NEW l \in Kind
          PROVE  /\ Len(holders[l]) <= Len(holders'[l])
                 /\ container[l] \subseteq container'[l]
                 /\ container'[l] \subseteq 1 .. Len(holders'[l])
                 /\ \A g \in container'[l] \ container[l] :
                        /\ holders'[l][g].period <= clock
                        /\ \A j \in Id : holders'[l][g].users[j] = None
                 /\ \A g \in 1 .. Len(holders[l]) : holders'[l][g] = holders[l][g]
      <4>1. CASE l = k
        <5>1. /\ Len(holders[l]) \in Nat /\ container[l] \subseteq 1 .. Len(holders[l])
              /\ Len(holders'[l]) = Len(holders[l]) + 1 /\ h = Len(holders[l]) + 1
              /\ container'[l] = container[l] \cup {h}
          BY <1>4, <2>0, <2>5, <2>6, <2>8, <4>1
        <5>2. holders'[l][h].period <= clock /\ \A j \in Id : holders'[l][h].users[j] = None
          BY <1>2, <2>3, <2>5, <2>6, <4>1
        <5>3. \A g \in 1 .. Len(holders[l]) : holders'[l][g] = holders[l][g]
          BY <2>5, <2>6, <4>1
        <5>4. \A g \in container'[l] \ container[l] : g = h
          BY <5>1
        <5>5. container'[l] \subseteq 1 .. Len(holders'[l])
          BY <5>1
        <5> QED  BY <5>1, <5>2, <5>3, <5>4, <5>5
      <4>2. CASE l # k
        BY <1>4, <2>6, <2>8, <4>2
      <4> QED  BY <4>1, <4>2
    <3> QED  BY <1>1, <3>1 DEF Frame
  <2>10. NoHolder(i)'
    <3>1. ASSUME NEW l \in Kind, NEW g \in container'[l] PROVE ~In(l, g, i)'
      <4>1. CASE g \in container[l]
        <5>1. ~In(l, g, i) /\ g \in 1 .. Len(holders[l])
          BY <1>3, <1>4, <4>1 DEF NoHolder
        <5>2. holders'[l][g] = holders[l][g]
          BY <2>5, <2>6, <5>1
        <5> QED  BY <4>1, <5>1, <5>2 DEF In
      <4>2. CASE g \notin container[l]
        BY <2>9, <4>2 DEF Frame, In
      <4> QED  BY <4>1, <4>2
    <3> QED  BY <3>1 DEF NoHolder
  <2>11. /\ h \in 1 .. Len(holders'[k]) /\ h \in container'[k]
         /\ holders'[k][h].period = now
    BY <1>4, <2>0, <2>3, <2>5, <2>6, <2>8
  <2> QED
    <3>1. Goes(c, [caller[c] EXCEPT !.pc = "put", !.read = {h}])
      BY <2>2
    <3>2. container' \in [Kind -> SUBSET Nat]
      BY <2>8
    <3> QED
      BY <1>1, <1>2, <2>7, <2>9, <2>10, <2>11, <3>1, <3>2, TakesKeeps
<1> QED  BY <1>6, <1>7, <1>8

LEMMA PutKeeps ==
    ASSUME Inv, NEW c \in Caller, Put(c)
    PROVE  Inv' /\ Directory!Step
<1>1. caller[c].pc = "put" /\ UNCHANGED <<clock, container>>
  BY DEF Put
<1>2. PICK request \in RequestSet, reply \in ReplySet, k \in Kind :
            request = caller[c].request /\ reply = caller[c].reply /\ k = caller[c].kind
  BY <1>1, CallerType DEF Inv
<1>3. PICK i \in Id, call \in Calls, now \in Nat, info \in SeenUser \cup BoundUser \cup {None} :
            /\ i = request.id /\ call = request.call /\ now = request.now
            /\ info = caller[c].info
  BY <1>1, CallerType DEF RequestSet, Inv
<1>4. /\ MovingCall(c) /\ now <= clock /\ NoHolder(i) /\ Works(c, i)
      /\ NotBound \in ReplySet
  BY <1>1, <1>2, <1>3 DEF Inv, CallInv, MovingCall, NoHolder, Idle, Works, InChunk,
                          NotBound, ReplySet
<1>5. PICK h \in Nat : caller[c].read = {h} /\ holders[k][h].period = now
  BY <1>1, <1>2, <1>3, <1>4 DEF MovingCall
<1>6. h \in 1 .. Len(holders[k]) /\ (h \in container[k] \/ Expired(now))
  BY <1>1, <1>2, <1>4, <1>5 DEF MovingCall
<1>7. /\ k = "seen" => caller[c].then = "see" /\ info \in SeenUser \cup {None}
      /\ k = "bound" => caller[c].then # "see" /\ info \in BoundUser
      /\ caller[c].then # "store" => request.new = NoUid /\ call.op = "get"
      /\ caller[c].then = "store" =>
            reply.invalid \/ Told(request, reply) \in {NoUid, info.uid}
  BY <1>1, <1>2, <1>3, <1>4 DEF MovingCall, Settled, Answer, Told
<1>8. ASSUME NEW new \in User(k), holders' = Stored(k, h, i, new)
      PROVE  /\ Frame(i) /\ HoldersType(holders') /\ OneHolder(i)'
             /\ k = "bound" => Held(request, new.uid)' \/ Expired(now)
             /\ \A l \in Kind : \A g \in container'[l] : In(l, g, i)' => l = k /\ g = h
             /\ h \in container[k] => In(k, h, i)'
             /\ holders'[k][h].users[i] = new
             /\ holders'[k][h].period = now
  <2>1. new # None
    BY BindAssumption DEF User
  <2>2. Lies(k, h, i, new)
    BY <1>1, <1>6, <1>8, StoredFrame
  <2>3. \A l \in Kind : \A g \in container'[l] : In(l, g, i)' => l = k /\ g = h
    BY <1>1, <1>4, <2>2 DEF Lies, NoHolder
  <2>4. ASSUME k = "bound", h \in container[k] PROVE Held(request, new.uid)'
    <3>1. /\ h \in container'["bound"] /\ In("bound", h, request.id)'
          /\ holders'["bound"][h].users[request.id].uid = new.uid
          /\ holders'["bound"][h].period >= request.now
      BY <1>1, <1>3, <1>5, <2>1, <2>2, <2>4 DEF Lies
    <3> QED  BY <3>1 DEF Held
  <2> QED
    BY <1>5, <1>6, <2>1, <2>2, <2>3, <2>4 DEF Lies, OneHolder
<1>9. ASSUME k = "bound", NEW new \in User(k), new.uid = info.uid,
              holders' = Stored(k, h, i, new), Inv' /\ Others(i) /\ Rests(i)'
       PROVE  Inv' /\ Directory!Step
  <2>1. Binding(i) = info.uid /\ LastUse(i) = now
    <3>1. Carries(c, i) /\ Shown(i)
      BY <1>1, <1>2, <1>3, <1>9, ShownIsBinding DEF Carries
    <3> QED  BY <1>2, <1>3, <3>1 DEF Shown
  <2>2. /\ \A g \in container'["bound"] : In("bound", g, i)' => g = h
        /\ h \in container["bound"] => In("bound", h, i)'
        /\ holders'["bound"][h].users[i].uid = info.uid
        /\ holders'["bound"][h].period = now
    BY <1>8, <1>9
  <2>3. CASE h \in container["bound"]
    <3>1. Binding(i)' = info.uid /\ LastUse(i)' = now
      BY <1>1, <1>9, <2>2, <2>3 DEF Rests
    <3> QED  BY <1>9, <2>1, <3>1, DirectoryKeeps
  <2>4. CASE h \notin container["bound"]
    <3>1. Binding(i)' = NoUid /\ LastUse(i)' = 0
      BY <1>1, <1>9, <2>2, <2>4 DEF Rests
    <3>2. info.uid # NoUid /\ now + 1 <= clock - Expire
      BY <1>6, <1>7, <1>9, <2>4, BindAssumption DEF BoundUser, Expired
    <3>3. PICK forgotten \in SUBSET Id : forgotten = {i}
      OBVIOUS
    <3>4. \A j \in forgotten : /\ Binding(j) # NoUid /\ LastUse(j) + 1 <= clock - Expire
                                /\ Binding(j)' = NoUid /\ LastUse(j)' = 0
      BY <2>1, <3>1, <3>2, <3>3
    <3>5. \A j \in Id \ forgotten : Binding(j)' = Binding(j) /\ LastUse(j)' = LastUse(j)
      BY <1>9, <3>3 DEF Others
    <3> QED  BY <1>1, <1>9, <3>4, <3>5, DirectoryForgets
  <2> QED  BY <2>3, <2>4
<1>10. ASSUME k = "seen" PROVE Rests(i) /\ Binding(i) = NoUid /\ LastUse(i) = 0
  <2>1. ~Carries(c, i)
    BY <1>2, <1>10 DEF Carries
  <2>2. Rests(i)
    BY <1>4, <2>1, RestsBefore DEF Works
  <2> QED  BY <1>4, <2>2, Kinds DEF Rests, NoHolder
<1>11. CASE caller[c].then = "store"
  <2>1. k = "bound" /\ info \in BoundUser /\ info \in User(k)
    BY <1>7, <1>11, Kinds DEF Kind
  <2>2. holders' = Stored(k, h, i, info) /\ Goes(c, Replies(request, reply))
    BY <1>2, <1>3, <1>5, <1>11 DEF Put
  <2>3. Frame(i) /\ HoldersType(holders') /\ OneHolder(i)'
        /\ (Held(request, info.uid)' \/ Expired(now))
    BY <1>8, <2>1, <2>2
  <2>4. \/ reply.invalid \/ Told(request, reply) = NoUid \/ Expired(request.now)
        \/ Held(request, Told(request, reply))'
    BY <1>3, <1>7, <1>11, <2>3
  <2>5. Inv' /\ Others(i) /\ Rests(i)'
    BY <1>1, <1>3, <1>4, <2>2, <2>3, <2>4, CallReplies
  <2> QED  BY <1>9, <2>1, <2>2, <2>5
<1>12. CASE caller[c].then = "touch"
  <2>1. k = "bound" /\ info \in BoundUser
    BY <1>7, <1>12, Kinds DEF Kind
  <2>2. PICK new \in BoundUser, told \in ReplySet :
            new = AtGet(info, call, now) /\ told = GetReply(new, call)
    BY <1>7, <1>12, <2>1, GetTypes
  <2>3. holders' = Stored(k, h, i, new) /\ Goes(c, Replies(request, told))
    BY <1>2, <1>3, <1>5, <1>12, <2>2 DEF Put
  <2>4. Frame(i) /\ HoldersType(holders') /\ OneHolder(i)'
        /\ (Held(request, new.uid)' \/ Expired(now))
    BY <1>8, <2>1, <2>3, Kinds
  <2>5. Told(request, told) = new.uid
    BY <1>7, <1>12, <2>2 DEF Told, GetReply
  <2>6. Inv' /\ Others(i) /\ Rests(i)'
    BY <1>1, <1>3, <1>4, <2>3, <2>4, <2>5, CallReplies
  <2>7. new.uid = info.uid /\ new \in User(k)
    BY <1>7, <1>12, <2>1, <2>2, GetTypes, Kinds
  <2> QED  BY <1>9, <2>1, <2>3, <2>6, <2>7
<1>13. CASE caller[c].then = "see"
  <2>1. k = "seen" /\ info \in SeenUser \cup {None}
    BY <1>7, <1>13 DEF Kind
  <2>2. PICK first : first = IF info # None THEN info.first
                             ELSE IF call.old THEN now - 1 ELSE now
    OBVIOUS
  <2>3. first \in Int
    BY <2>1, <2>2 DEF SeenUser
  <2>4. CASE ~OldEnough(first, now)
    <3>1. PICK new \in SeenUser : new = [first |-> first]
      BY <2>3 DEF SeenUser
    <3>2. holders' = Stored(k, h, i, new) /\ Goes(c, Replies(request, NotBound))
      BY <1>2, <1>3, <1>5, <1>13, <2>2, <2>4, <3>1 DEF Put
    <3>3. Frame(i) /\ HoldersType(holders') /\ OneHolder(i)'
      BY <1>8, <2>1, <3>2, Kinds
    <3>4. Told(request, NotBound) = NoUid
      BY <1>7, <1>13 DEF Told, NotBound
    <3>5. Inv' /\ Others(i) /\ Rests(i)'
      BY <1>1, <1>3, <1>4, <3>2, <3>3, <3>4, CallReplies
    <3>6. \A g \in container'["bound"] : ~In("bound", g, i)'
      BY <1>8, <2>1, <3>2, Kinds
    <3>7. Binding(i)' = Binding(i) /\ LastUse(i)' = LastUse(i)
      BY <1>10, <2>1, <3>5, <3>6 DEF Rests
    <3> QED  BY <3>5, <3>7, DirectoryKeeps
  <2>5. CASE OldEnough(first, now)
    <3>1. UNCHANGED holders /\ \E u \in Uid : Generates(c, u)
      BY <1>2, <1>3, <1>5, <1>13, <2>2, <2>5 DEF Put
    <3>2. Frame(i) /\ HoldersType(holders')
          /\ \A l \in Kind : \A g \in container[l] : In(l, g, i)' = In(l, g, i)
      BY <1>1, <3>1, SameFrame
    <3>3. NoHolder(i)'
      BY <1>1, <1>4, <3>2 DEF NoHolder
    <3> QED
      BY <1>1, <1>2, <1>3, <1>7, <1>13, <1>10, <2>1, <3>1, <3>2, <3>3, GeneratesKeeps
  <2> QED  BY <2>4, <2>5
<1>14. caller[c].then \in {"store", "touch", "see"}
  BY <1>1, CallerType DEF Inv
<1> QED  BY <1>11, <1>12, <1>13, <1>14

LEMMA ReturnKeeps ==
    ASSUME Inv, NEW c \in Caller, Return(c)
    PROVE  Inv' /\ Directory!Step
<1>1. caller[c].pc = "reply" /\ UNCHANGED <<clock, holders, container>>
  BY DEF Return
<1>2. PICK request \in RequestSet : request = caller[c].request
  BY <1>1, CallerType DEF Inv
<1>3. PICK i \in Id : i = request.id
  BY DEF RequestSet
<1>4. request.now <= clock /\ Works(c, i)
  BY <1>1, <1>2, <1>3 DEF Inv, CallInv, Idle, Works, InChunk
<1>0. PICK again : again = [request EXCEPT !.resave = caller[c].reply.uid # NoUid]
  OBVIOUS
<1>5. again \in RequestSet /\ again.id = i /\ again.now = request.now
  BY <1>0, <1>3 DEF RequestSet
<1>6. PICK state \in CallerState : /\ Goes(c, state)
                                 /\ \/ state = [pc |-> "again", request |-> again]
                                    \/ state = Idle
  <2>1. Goes(c, IF AddsAfterGet(c) THEN [pc |-> "again", request |-> again] ELSE Idle)
    BY <1>0, <1>2 DEF Return
  <2>2. [pc |-> "again", request |-> again] \in CallerState /\ Idle \in CallerState
    BY <1>5 DEF CallerState
  <2> QED  BY <2>1, <2>2
<1>7. Frame(i) /\ HoldersType(holders')
      /\ \A k \in Kind : \A h \in container[k] : In(k, h, i)' = In(k, h, i)
  BY <1>1, SameFrame
<1>8. /\ TypeInv' /\ caller'[c] = state
      /\ \A d \in Caller : d # c => caller'[d] = caller[d]
  BY <1>1, <1>6, <1>7, CallerGoes
<1>9. \/ caller'[c] = Idle
      \/ caller'[c].pc = "again" /\ caller'[c].request = again
  <2>1. CASE state = Idle
    BY <1>8, <2>1
  <2>2. CASE state = [pc |-> "again", request |-> again]
    BY <1>8, <2>2
  <2> QED  BY <1>6, <2>1, <2>2
<1>10. CallInv(c)' /\ ~InChunk(c)'
  BY <1>1, <1>4, <1>5, <1>9 DEF CallInv, SeenCall, MovingCall, Idle, InChunk
<1>11. \A k, l \in Kind : \A g \in container'[k], h \in container'[l] :
            In(k, g, i)' /\ In(l, h, i)' => k = l /\ g = h
  BY <1>1, <1>7 DEF Inv, HomeInv
<1>12. Inv'
  BY <1>4, <1>7, <1>8, <1>10, <1>11, OneCallerSteps DEF Works
<1>13. Others(i)
  BY <1>4, <1>7, <1>8, <1>10, <1>12, OthersShown DEF Works
<1>14. ~Carries(c, i) /\ ~Carries(c, i)'
  BY <1>1, <1>10 DEF Carries, InChunk
<1>15. Rests(i) /\ Rests(i)'
  BY <1>4, <1>8, <1>12, <1>14, RestsBefore, RestsAfter DEF Works
<1>16. Binding(i)' = Binding(i) /\ LastUse(i)' = LastUse(i)
  BY <1>1, <1>7, <1>15, Kinds DEF Rests
<1> QED
  BY <1>12, <1>13, <1>16, DirectoryKeeps

LEMMA AddKeeps ==
    ASSUME Inv, NEW c \in Caller, NEW i \in Id, NEW call \in Calls,
           NEW now \in RequestTime, NEW u \in Uid, Add(c, i, call, now, u)
    PROVE  Inv' /\ Directory!Step
<1>1. PICK request : request = Request(i, call, now, u, TRUE)
  OBVIOUS
<1>2. request \in RequestSet /\ request.now <= clock /\ request.new = u
  BY <1>1 DEF Request, RequestSet, RequestTime, Inv, TypeInv
<1>3. ~InChunk(c) /\ AddBound(c, request)
  <2>1. caller[c] = Idle /\ AddBound(c, Request(i, call, now, u, TRUE))
    BY DEF Add
  <2>2. AddBound(c, request)
    BY <1>1, <2>1, Zenon
  <2> QED  BY <2>1, <2>2 DEF InChunk, Idle
<1> QED  BY <1>2, <1>3, AddBoundKeeps

LEMMA AddAgainKeeps ==
    ASSUME Inv, NEW c \in Caller, NEW u \in Uid, AddAgain(c, u)
    PROVE  Inv' /\ Directory!Step
<1>1. caller[c].pc = "again"
  BY DEF AddAgain
<1>2. caller[c].request \in RequestSet /\ caller[c].request.now <= clock
  BY <1>1, CallerType DEF Inv, CallInv, Idle
<1>3. PICK request : request = [caller[c].request EXCEPT !.new = u]
  OBVIOUS
<1>4. request \in RequestSet /\ request.now <= clock /\ request.new = u
  BY <1>2, <1>3 DEF RequestSet
<1>5. ~InChunk(c) /\ AddBound(c, request)
  BY <1>1, <1>3 DEF AddAgain, InChunk
<1> QED  BY <1>4, <1>5, AddBoundKeeps

-----------------------------------------------------------------------------
(* Time passes, and holders are dropped.                                   *)

LEMMA TimePasses ==
    ASSUME Inv, clock' \in Nat, clock <= clock', UNCHANGED <<holders, caller>>,
           container' \in [Kind -> SUBSET Nat],
           \A k \in Kind : container'[k] \subseteq container[k],
           \A k \in Kind : \A h \in container[k] \ container'[k] :
                Expired(holders[k][h].period)'
    PROVE  Inv'
<1>1. TypeInv'
  BY DEF Inv, TypeInv
<1>2. \A k \in Kind : \A h \in container[k] : holders[k][h].period \in Nat
  <2>1. ASSUME NEW k \in Kind, NEW h \in container[k] PROVE holders[k][h] \in Holder(k)
    <3>1. h \in 1 .. Len(holders[k])
      BY DEF Inv, ContainerInv
    <3> QED  BY <3>1 DEF Inv, TypeInv
  <2> QED  BY <2>1 DEF Holder
<1>3. ContainerInv'
  BY <1>2 DEF Inv, TypeInv, ContainerInv
<1>4. LockInv'
  BY DEF Inv, LockInv, InChunk
<1>5. \A k \in Kind : \A h \in container'[k] : \A i :
          In(k, h, i)' => h \in container[k] /\ In(k, h, i)
  BY DEF In
<1>6. HomeInv'
  BY <1>5 DEF Inv, HomeInv
<1>7. \A t \in Int : Expired(t) => Expired(t)'
  BY BindAssumption DEF Expired, Inv, TypeInv
<1>8. ASSUME NEW c \in Caller PROVE CallInv(c)'
  <2>1. CallInv(c)
    BY DEF Inv
  <2>2. (caller[c] # Idle => caller[c].request.now <= clock)'
    <3>1. Idle' = Idle
      BY DEF Idle
    <3>2. CASE caller[c] # Idle
      <4>1. caller[c].request.now \in Nat
        BY <3>2, CallerType DEF Inv, RequestSet
      <4> QED  BY <2>1, <4>1 DEF CallInv, Inv, TypeInv
    <3> QED  BY <3>1, <3>2
  <2>3. SeenCall(c)'
    BY <1>5, <2>1, Kinds DEF CallInv, SeenCall
  <2>4. MovingCall(c)'
    <3>1. CASE caller[c].pc \in {"holder", "put"}
      <4>1. MovingCall(c) /\ caller[c].kind \in Kind
        BY <2>1, <3>1, CallerType DEF CallInv, Inv
      <4>2. \A k \in Kind : \A h \in container'[k] : ~In(k, h, caller[c].request.id)'
        BY <1>5, <3>1, <4>1 DEF MovingCall
      <4>3. ASSUME NEW h \in caller[c].read
            PROVE  /\ h \in 1 .. Len(holders[caller[c].kind])
                   /\ \/ h \in container'[caller[c].kind]
                      \/ Expired(holders[caller[c].kind][h].period)'
        <5>1. /\ h \in 1 .. Len(holders[caller[c].kind])
              /\ \/ h \in container[caller[c].kind]
                 \/ Expired(holders[caller[c].kind][h].period)
          BY <3>1, <4>1 DEF MovingCall
        <5>2. holders[caller[c].kind][h] \in Holder(caller[c].kind)
          BY <4>1, <5>1 DEF Inv, TypeInv
        <5>3. holders[caller[c].kind][h].period \in Int
          BY <5>2 DEF Holder
        <5>4. h \in container[caller[c].kind] /\ h \notin container'[caller[c].kind]
                => Expired(holders[caller[c].kind][h].period)'
          BY <4>1
        <5>5. Expired(holders[caller[c].kind][h].period)
                => Expired(holders[caller[c].kind][h].period)'
          BY <1>7, <5>3 DEF Expired
        <5> QED  BY <5>1, <5>4, <5>5
      <4>4. Settled(c, caller[c].info.uid)' = Settled(c, caller[c].info.uid)
        BY DEF Settled, Answer
      <4> QED
        BY <3>1, <4>1, <4>2, <4>3, <4>4 DEF MovingCall
    <3> QED  BY <3>1 DEF MovingCall
  <2>5. (caller[c].pc = "reply" => Answered(c))'
    <3>1. CASE caller[c].pc = "reply"
      <4>1. Answered(c) /\ Answer(c)' = Answer(c)
        BY <2>1, <3>1 DEF CallInv, Answer
      <4>2. caller[c].request.now \in Nat /\ clock \in Nat /\ Expire \in Nat
        BY <3>1, CallerType, BindAssumption DEF Inv, TypeInv, RequestSet
      <4>3. Expired(caller[c].request.now) => Expired(caller[c].request.now)'
        BY <4>2 DEF Expired
      <4>4. ASSUME NEW h \in container["bound"], h \notin container'["bound"],
                   holders["bound"][h].period >= caller[c].request.now
            PROVE  Expired(caller[c].request.now)'
        <5>1. Expired(holders["bound"][h].period)' /\ holders["bound"][h].period \in Nat
          BY <1>2, <4>4, Kinds
        <5> QED  BY <4>2, <4>4, <5>1 DEF Expired
      <4>5. ASSUME NEW h \in container["bound"],
                   In("bound", h, caller[c].request.id),
                   holders["bound"][h].users[caller[c].request.id].uid = Answer(c),
                   holders["bound"][h].period >= caller[c].request.now
            PROVE  Answered(c)'
        <5>1. CASE h \in container'["bound"]
          BY <4>1, <4>5, <5>1 DEF Answered, In
        <5>2. CASE h \notin container'["bound"]
          BY <4>4, <4>5, <5>2 DEF Answered
        <5> QED  BY <5>1, <5>2
      <4> QED
        BY <4>1, <4>3, <4>5 DEF Answered
    <3> QED  BY <3>1
  <2> QED  BY <2>2, <2>3, <2>4, <2>5 DEF CallInv
<1> QED
  BY <1>1, <1>3, <1>4, <1>6, <1>8 DEF Inv

(* What the directory shows of an id stays, unless its holder is dropped.  *)
Dropped(i) ==
    \E h \in container["bound"] :
        /\ h \notin container'["bound"] /\ In("bound", h, i)
        /\ Binding(i) = holders["bound"][h].users[i].uid
        /\ LastUse(i) = holders["bound"][h].period

LEMMA TimeShown ==
    ASSUME Inv, Inv', UNCHANGED <<holders, caller>>,
           container'["bound"] \subseteq container["bound"], NEW i \in Id
    PROVE  \/ Binding(i)' = Binding(i) /\ LastUse(i)' = LastUse(i)
           \/ Dropped(i) /\ Binding(i)' = NoUid /\ LastUse(i)' = 0
<1>1. Shown(i) /\ Shown(i)'
  BY ShownIsBinding, ShownIsBindingNext
<1>2. \A c \in Caller : Carries(c, i)' <=> Carries(c, i)
  BY DEF Carries
<1>3. CASE \E c \in Caller : Carries(c, i)
  <2>1. PICK c \in Caller : Carries(c, i) /\ Carries(c, i)'
    BY <1>2, <1>3
  <2> QED  BY <1>1, <2>1 DEF Shown
<1>4. CASE \A c \in Caller : ~Carries(c, i)
  <2>1. Rests(i) /\ Rests(i)'
    BY <1>1, <1>2, <1>4 DEF Shown
  <2>2. \A h : In("bound", h, i)'
                <=> h \in container'["bound"] /\ holders["bound"][h].users[i] # None
    BY DEF In
  <2>3. CASE \A h \in container["bound"] : ~In("bound", h, i)
    <3>1. \A h \in container'["bound"] : ~In("bound", h, i)'
      BY <2>2, <2>3 DEF In
    <3> QED  BY <2>1, <2>3, <3>1 DEF Rests
  <2>4. CASE \E h \in container["bound"] : In("bound", h, i)
    <3>1. PICK h \in container["bound"] : In("bound", h, i)
      BY <2>4
    <3>2. \A g \in container["bound"] : In("bound", g, i) => g = h
      BY <3>1, Kinds DEF Inv, HomeInv
    <3>3. /\ Binding(i) = holders["bound"][h].users[i].uid
          /\ LastUse(i) = holders["bound"][h].period
      BY <2>1, <3>1 DEF Rests
    <3>4. CASE h \in container'["bound"]
      <4>1. In("bound", h, i)'
        BY <2>2, <3>1, <3>4 DEF In
      <4> QED  BY <2>1, <3>3, <3>4, <4>1 DEF Rests
    <3>5. CASE h \notin container'["bound"]
      <4>1. Dropped(i)
        BY <3>1, <3>3, <3>5 DEF Dropped
      <4>2. \A g \in container'["bound"] : ~In("bound", g, i)'
        BY <2>2, <3>2, <3>5 DEF In
      <4> QED  BY <2>1, <4>1, <4>2 DEF Rests
    <3> QED  BY <3>4, <3>5
  <2> QED  BY <2>3, <2>4
<1> QED  BY <1>3, <1>4

LEMMA ClearExpiredKeeps ==
    ASSUME Inv, NEW k \in Kind, ClearExpired(k)
    PROVE  Inv' /\ Directory!Step
<1>1. /\ UNCHANGED <<clock, holders, caller>> /\ clock \in Nat
      /\ container' = [container EXCEPT ![k] = Kept(k)]
      /\ container \in [Kind -> SUBSET Nat]
  BY DEF ClearExpired, Inv, TypeInv
<1>2. Kept(k) \subseteq container[k]
  BY DEF Kept
<1>3. container' \in [Kind -> SUBSET Nat]
      /\ \A l \in Kind : container'[l] \subseteq container[l]
  BY <1>1, <1>2
<1>4. ASSUME NEW l \in Kind, NEW h \in container[l], h \notin container'[l]
      PROVE  Expired(holders[l][h].period)'
  <2>1. l = k /\ h \notin Kept(k)
    BY <1>1, <1>4
  <2>2. h \in 1 .. Len(holders[l])
    BY DEF Inv, ContainerInv
  <2>3. holders[l][h] \in Holder(l)
    BY <2>2 DEF Inv, TypeInv
  <2> QED
    BY <1>1, <2>1, <2>3, BindAssumption DEF Kept, Expired, Holder
<1>5. Inv'
  BY <1>1, <1>3, <1>4, TimePasses
<1>6. PICK forgotten \in SUBSET Id :
            forgotten = {i \in Id : Binding(i)' # Binding(i) \/ LastUse(i)' # LastUse(i)}
  OBVIOUS
<1>7. ASSUME NEW i \in forgotten
      PROVE  /\ Binding(i) # NoUid /\ LastUse(i) + 1 <= clock - Expire
             /\ Binding(i)' = NoUid /\ LastUse(i)' = 0
  <2>1. Dropped(i) /\ Binding(i)' = NoUid /\ LastUse(i)' = 0 /\ i \in Id
    BY <1>1, <1>3, <1>5, <1>6, TimeShown, Kinds
  <2>2. PICK h \in container["bound"] :
            /\ h \notin container'["bound"] /\ In("bound", h, i)
            /\ Binding(i) = holders["bound"][h].users[i].uid
            /\ LastUse(i) = holders["bound"][h].period
    BY <2>1 DEF Dropped
  <2>3. holders["bound"][h].users[i].uid # NoUid
    <3>1. h \in 1 .. Len(holders["bound"])
      BY Kinds DEF Inv, ContainerInv
    <3>2. holders["bound"][h] \in Holder("bound")
      BY <3>1, Kinds DEF Inv, TypeInv
    <3>3. holders["bound"][h].users[i] \in BoundUser
      BY <2>1, <2>2, <3>2, Kinds DEF Holder, In
    <3> QED  BY <3>3, BindAssumption DEF BoundUser
  <2>4. LastUse(i) + 1 <= clock - Expire
    BY <1>1, <1>4, <2>2, Kinds DEF Expired
  <2> QED  BY <2>1, <2>2, <2>3, <2>4
<1>8. \A i \in Id \ forgotten : Binding(i)' = Binding(i) /\ LastUse(i)' = LastUse(i)
  BY <1>6
<1> QED
  BY <1>1, <1>5, <1>7, <1>8, DirectoryForgets

LEMMA TickKeeps ==
    ASSUME Inv, Tick PROVE Inv' /\ Directory!Step
<1>1. /\ clock' = clock + 1 /\ clock \in Nat /\ container \in [Kind -> SUBSET Nat]
      /\ UNCHANGED <<holders, caller, container>>
  BY DEF Tick, Inv, TypeInv
<1>2. Inv'
  BY <1>1, TimePasses
<1>3. ASSUME NEW i \in Id PROVE Binding(i)' = Binding(i) /\ LastUse(i)' = LastUse(i)
  <2>1. ~Dropped(i)
    BY <1>1 DEF Dropped
  <2> QED  BY <1>1, <1>2, <2>1, TimeShown
<1>4. Directory!DayPasses
  BY <1>1, <1>3 DEF Directory!DayPasses
<1> QED  BY <1>2, <1>4 DEF Directory!Step, Directory!Next

-----------------------------------------------------------------------------
(* The invariant holds.                                                    *)

LEMMA InitInv == Init => Inv
<1> SUFFICES ASSUME Init PROVE Inv
  OBVIOUS
<1>1. TypeInv
  <2>1. \A k \in Kind : holders[k] = <<>> /\ <<>> \in Seq(Holder(k))
    BY DEF Init
  <2>2. caller \in [Caller -> CallerState]
    BY DEF Init, CallerState
  <2> QED  BY <2>1, <2>2 DEF Init, TypeInv
<1>2. ContainerInv /\ LockInv /\ HomeInv
  BY DEF Init, ContainerInv, LockInv, HomeInv, InChunk, Idle
<1>3. \A c \in Caller : CallInv(c)
  BY DEF Init, CallInv, SeenCall, MovingCall, Idle
<1> QED  BY <1>1, <1>2, <1>3 DEF Inv

LEMMA StutterKeeps == Inv /\ UNCHANGED vars => Inv' /\ Directory!Step
<1> SUFFICES ASSUME Inv, UNCHANGED vars PROVE Inv' /\ Directory!Step
  OBVIOUS
<1>1. /\ UNCHANGED <<clock, holders, container, caller>>
      /\ clock \in Nat /\ container \in [Kind -> SUBSET Nat]
  BY DEF vars, Inv, TypeInv
<1>2. Inv'
  BY <1>1, TimePasses
<1>3. ASSUME NEW i \in Id PROVE Binding(i)' = Binding(i) /\ LastUse(i)' = LastUse(i)
  <2>1. ~Dropped(i)
    BY <1>1 DEF Dropped
  <2> QED  BY <1>1, <1>2, <2>1, TimeShown
<1> QED  BY <1>1, <1>2, <1>3 DEF Directory!Step

LEMMA NextKeeps == Inv /\ [Next]_vars => Inv' /\ Directory!Step
<1> SUFFICES ASSUME Inv, [Next]_vars PROVE Inv' /\ Directory!Step
  OBVIOUS
<1>1. ASSUME NEW c \in Caller, NEW i \in Id, NEW call \in Calls, NEW now \in RequestTime,
             Asks(c, i, call, now, Uid)
      PROVE  Inv' /\ Directory!Step
  BY <1>1, GetBoundKeeps, AddKeeps DEF Asks
<1>2. ASSUME NEW c \in Caller, GoesOn(c) PROVE Inv' /\ Directory!Step
  <2>1. CASE GetSeen(c)
    BY <2>1, GetSeenKeeps
  <2>2. CASE GetHolder(c)
    BY <2>2, GetHolderKeeps
  <2>3. CASE Put(c)
    BY <2>3, PutKeeps
  <2>4. CASE Return(c)
    BY <2>4, ReturnKeeps
  <2>5. CASE \E u \in Uid : AddAgain(c, u)
    BY <2>5, AddAgainKeeps
  <2> QED  BY <1>2, <2>1, <2>2, <2>3, <2>4, <2>5 DEF GoesOn
<1>3. ASSUME NEW k \in Kind, ClearExpired(k) PROVE Inv' /\ Directory!Step
  BY <1>3, ClearExpiredKeeps
<1>4. CASE Tick
  BY <1>4, TickKeeps
<1>5. CASE UNCHANGED vars
  BY <1>5, StutterKeeps
<1> QED
  BY <1>1, <1>2, <1>3, <1>4, <1>5 DEF Next

LEMMA CrashCounts == ASSUME Crash PROVE crashes' = crashes + 1
  BY Zenon DEF Crash

LEMMA DumpNextKeeps == DumpInv /\ [DumpNext]_allVars => DumpInv'
<1> SUFFICES ASSUME DumpInv, [DumpNext]_allVars PROVE DumpInv'
  OBVIOUS
<1>1. CASE Crash
  BY <1>1 DEF Crash, DumpInv
<1>2. CASE [Next]_vars /\ crashes' = crashes
  BY <1>2, NextKeeps DEF DumpInv
<1>3. ([Next]_vars /\ crashes' = crashes) \/ Crash
  <2>1. DumpStep => crashes' = crashes
    BY Zenon DEF DumpStep, DumpBegins, DumpReads, DumpGoesOn, DumpRenames, DumpDeletes,
           DumpEnds, DumpFails
  <2> QED
    BY <2>1 DEF DumpNext, allVars, dumpVars
<1> QED  BY <1>1, <1>2, <1>3

THEOREM InvariantHolds == DumpSpec => []DumpInv
<1>1. DumpInit => DumpInv
  BY InitInv DEF DumpInit, DumpInv
<1>2. DumpInv /\ [DumpNext]_allVars => DumpInv'
  BY DumpNextKeeps
<1> QED
  BY <1>1, <1>2, PTL DEF DumpSpec

(* Until the process crashes, an id that no call is busy with lies in one  *)
(* holder at most, whatever calls, dumps and clearings interleave.         *)
THEOREM OneHomeHolds == DumpSpec => []OneHome
<1>1. DumpInv => OneHome
  <2> SUFFICES ASSUME DumpInv, crashes = 0, NEW i \in Id, NEW k \in Kind, NEW l \in Kind,
                      NEW g \in With(k, container[k], i), NEW h \in With(l, container[l], i)
               PROVE  k = l /\ g = h
    BY DEF OneHome
  <2>1. g \in container[k] /\ In(k, g, i) /\ h \in container[l] /\ In(l, h, i)
    BY DEF With, In
  <2> QED
    BY <2>1 DEF DumpInv, Inv, HomeInv
<1> QED
  BY <1>1, InvariantHolds, PTL

(* Until then, a client is told the user id that the id is bound to        *)
(* (AnswerIsBinding).                                                      *)
LEMMA AnswersAreRight == Inv => AnswerIsBinding
<1> SUFFICES ASSUME Inv, NEW c \in Caller,
                    caller[c].pc = "reply", ~caller[c].reply.invalid,
                    Answer(c) # NoUid, caller[c].request.now + 1 > clock - Expire,
                    caller[c].request.new = NoUid => ~caller[c].request.call.silent
             PROVE  /\ Found("bound", caller[c].request.id)
                    /\ Info("bound", caller[c].request.id).uid = Answer(c)
  BY DEF AnswerIsBinding
<1>1. PICK i \in Id : i = caller[c].request.id
  BY CallerType DEF Inv, RequestSet
<1>2. Answered(c)
  BY DEF Inv, CallInv
<1>3. ~Expired(caller[c].request.now)
  <2>1. caller[c].request.now \in Nat
    BY CallerType DEF Inv, RequestSet
  <2> QED  BY <2>1, BindAssumption DEF Expired, Inv, TypeInv
<1>4. PICK h \in container["bound"] :
            /\ In("bound", h, i)
            /\ holders["bound"][h].users[i].uid = Answer(c)
  BY <1>1, <1>2, <1>3 DEF Answered
<1>5. Found("bound", i) /\ Home("bound", i) = h
  BY <1>4, Kinds, HomeOfUser
<1> QED
  BY <1>1, <1>4, <1>5 DEF Info

THEOREM AnswersAreBindings == DumpSpec => [](crashes = 0 => AnswerIsBinding)
<1>1. DumpInv => (crashes = 0 => AnswerIsBinding)
  BY AnswersAreRight DEF DumpInv
<1> QED
  BY <1>1, InvariantHolds, PTL

(* Until the process crashes, what the clients see is a UserDirectory: each *)
(* step of a call, each clearing and each step of a dump shows a step of it, *)
(* or nothing (ImplementsDirectory).                                        *)
LEMMA InitShown == DumpInit => Directory!Init
<1> SUFFICES ASSUME DumpInit PROVE Directory!Init
  OBVIOUS
<1>1. Init
  BY DEF DumpInit
<1>2. ASSUME NEW i \in Id PROVE Binding(i) = NoUid /\ LastUse(i) = 0
  <2>1. Underway(i) = {}
    BY <1>1 DEF Init, Underway, Idle
  <2>2. ~Found("bound", i)
    BY <1>1, Kinds DEF Init, Found, With
  <2> QED  BY <2>1, <2>2 DEF Binding, LastUse
<1> QED  BY <1>1, <1>2 DEF Init, Directory!Init

LEMMA StepShown == DumpInv /\ [DumpNext]_allVars => [crashes' = 0 => Directory!Step]_allVars
<1> SUFFICES ASSUME DumpInv, DumpNext, crashes' = 0 PROVE Directory!Step
  OBVIOUS
<1>1. ~Crash
  BY CrashCounts DEF DumpInv
<1>2. [Next]_vars /\ crashes' = crashes
  <2>1. DumpStep => crashes' = crashes
    BY Zenon DEF DumpStep, DumpBegins, DumpReads, DumpGoesOn, DumpRenames, DumpDeletes,
           DumpEnds, DumpFails
  <2> QED  BY <1>1, <2>1 DEF DumpNext
<1> QED  BY <1>2, NextKeeps DEF DumpInv

THEOREM DirectoryImplemented == DumpSpec => ImplementsDirectory
<1>1. DumpInit => Directory!Init
  BY InitShown
<1>2. DumpInv /\ [DumpNext]_allVars => [crashes' = 0 => Directory!Step]_allVars
  BY StepShown
<1> QED
  BY <1>1, <1>2, InvariantHolds, PTL DEF DumpSpec, ImplementsDirectory

-----------------------------------------------------------------------------
(* The files of a dump.  What a step of a call does to the bound users: a  *)
(* user that is put into a holder has the user id the directory shows, and *)
(* one stays in its holder unless it is moved or forgotten.                *)

Bound(h, i) == holders["bound"][h].users[i]

Placed(i) ==
    /\ \A h \in 1 .. Len(holders["bound"]) :
        /\ h \in 1 .. Len(holders'["bound"])
        /\ \/ Bound(h, i)' = Bound(h, i)
           \/ Bound(h, i)' = None
           \/ Bound(h, i)'.uid \in {Binding(i), Binding(i)'}
    /\ \A h \in container["bound"] :
        Bound(h, i) # None /\ ~Moving(i)' /\ Binding(i)' # NoUid
        => h \in container'["bound"] /\ Bound(h, i)' # None

LEMMA OnePlaces ==
    ASSUME Inv, NEW h, NEW i \in Id,
           \A g \in 1 .. Len(holders["bound"]) :
                /\ g \in 1 .. Len(holders'["bound"])
                /\ \A j \in Id : g # h \/ j # i => Bound(g, j)' = Bound(g, j),
           container["bound"] \subseteq container'["bound"],
           \/ Bound(h, i)' = Bound(h, i)
           \/ Bound(h, i)' = None /\ Moving(i)'
           \/ Bound(h, i)' # None /\ Bound(h, i)'.uid \in {Binding(i), Binding(i)'},
           NEW j \in Id
    PROVE  Placed(j)
<1>1. container["bound"] \subseteq 1 .. Len(holders["bound"])
  BY Kinds DEF Inv, ContainerInv
<1>2. ASSUME NEW g \in 1 .. Len(holders["bound"])
      PROVE  /\ g \in 1 .. Len(holders'["bound"])
             /\ \/ Bound(g, j)' = Bound(g, j)
                \/ Bound(g, j)' = None
                \/ Bound(g, j)'.uid \in {Binding(j), Binding(j)'}
  BY <1>2
<1>3. ASSUME NEW g \in container["bound"], Bound(g, j) # None, ~Moving(j)'
      PROVE  g \in container'["bound"] /\ Bound(g, j)' # None
  BY <1>1, <1>3
<1> QED  BY <1>2, <1>3 DEF Placed

LEMMA NonePlaces ==
    ASSUME Inv, holders'["bound"] = holders["bound"],
           container["bound"] \subseteq container'["bound"], NEW j \in Id
    PROVE  Placed(j)
BY DEF Placed, Bound

LEMMA SeenPlaces ==
    ASSUME Inv, NEW h, NEW i, NEW info, holders' = Stored("seen", h, i, info),
           UNCHANGED container, NEW j \in Id
    PROVE  Placed(j)
<1>1. holders = [k \in Kind |-> holders[k]]
  BY DEF Inv, TypeInv
<1>2. holders'["bound"] = holders["bound"]
  BY <1>1, Kinds DEF Stored
<1> QED  BY <1>2, NonePlaces

LEMMA BoundPlaces ==
    ASSUME Inv, NEW hs, HoldersType(hs), Len(hs["bound"]) = Len(holders["bound"]),
           \A g \in 1 .. Len(holders["bound"]) : \A j \in Id :
                hs["bound"][g].users[j] = Bound(g, j),
           NEW h \in 1 .. Len(holders["bound"]), NEW i \in Id,
           NEW info \in BoundUser \cup {None},
           holders' = [hs EXCEPT !["bound"][h].users[i] = info],
           UNCHANGED container,
           IF info = None THEN Moving(i)' ELSE info.uid \in {Binding(i), Binding(i)'},
           NEW j \in Id
    PROVE  Placed(j)
<1>1. Replaced(hs, holders', "bound", h, i, info)
  BY Kinds, StoredEffect
<1>2. /\ Len(holders'["bound"]) = Len(holders["bound"])
      /\ \A g \in 1 .. Len(holders["bound"]) : \A l \in Id :
            Bound(g, l)' = IF g = h /\ l = i THEN info ELSE Bound(g, l)
  BY <1>1, Kinds DEF Replaced, Bound
<1> QED  BY <1>2, OnePlaces

LEMMA GoesAway ==
    ASSUME Inv, NEW c \in Caller, NEW i, NEW state, Goes(c, state), state.pc = "holder",
           state.kind = "bound", state.request.id = i
    PROVE  Moving(i)'
<1>1. caller'[c] = state
  BY DEF Goes, Inv, TypeInv
<1> QED  BY <1>1 DEF Moving, Underway

-----------------------------------------------------------------------------
(* The steps of the calls.                                                 *)

LEMMA GetBoundPlaces ==
    ASSUME Inv, NEW c \in Caller, NEW i \in Id, NEW call \in Calls,
           NEW now \in RequestTime, GetBound(c, i, call, now), NEW j \in Id
    PROVE  Placed(j)
<1>1. caller[c] = Idle /\ Unlocked(i) /\ call.op = "get" /\ UNCHANGED container
  BY DEF GetBound
<1>2. now \in Nat
  BY DEF RequestTime
<1>3. CASE ~Found("bound", i)
  BY <1>1, <1>3, NonePlaces DEF GetBound
<1>4. CASE Found("bound", i)
  <2>1. PICK home \in 1 .. Len(holders["bound"]), old \in BoundUser :
            /\ home = Home("bound", i) /\ old = holders["bound"][home].users[i]
            /\ In("bound", home, i) /\ home \in container["bound"]
    BY <1>4, Kinds, HomeOfUser
  <2>2. PICK info \in BoundUser : info = AtGet(old, call, now) /\ info.uid = old.uid
    BY <1>2, GetTypes
  <2>3. Binding(i) = old.uid
    <3>1. ~InChunk(c) /\ ~Carries(c, i)
      BY <1>1 DEF InChunk, Carries, Idle
    <3>2. Rests(i)
      BY <1>1, <3>1, RestsBefore
    <3> QED  BY <2>1, <3>2 DEF Rests
  <2>4. HoldersType(holders) /\ info # None
    BY BindAssumption DEF Inv, TypeInv, HoldersType
  <2>5. CASE call.silent \/ holders["bound"][home].period >= now
    <3>1. holders' = [holders EXCEPT !["bound"][home].users[i] = info]
      BY <1>4, <2>1, <2>2, <2>5 DEF GetBound, Stored
    <3> QED  BY <1>1, <2>2, <2>3, <2>4, <3>1, BoundPlaces DEF Bound
  <2>6. CASE ~(call.silent \/ holders["bound"][home].period >= now)
    <3>1. PICK request : request = Request(i, call, now, NoUid, FALSE)
      OBVIOUS
    <3>2. /\ holders' = [holders EXCEPT !["bound"][home].users[i] = None]
          /\ Goes(c, Moves(request, "bound", container["bound"], "touch", info, NotBound))
      BY <1>4, <2>1, <2>2, <2>6, <3>1 DEF GetBound, Stored
    <3>3. Moving(i)'
      BY <3>1, <3>2, GoesAway DEF Moves, Request
    <3> QED  BY <1>1, <2>4, <3>2, <3>3, BoundPlaces DEF Bound
  <2> QED  BY <2>5, <2>6
<1> QED  BY <1>3, <1>4

LEMMA GetSeenPlaces ==
    ASSUME Inv, NEW c \in Caller, GetSeen(c), NEW j \in Id
    PROVE  Placed(j)
<1>1. UNCHANGED container
  BY DEF GetSeen
<1>2. \/ UNCHANGED holders
      \/ \E h, i, info : holders' = Stored("seen", h, i, info)
  BY Zenon DEF GetSeen
<1> QED  BY <1>1, <1>2, NonePlaces, SeenPlaces

LEMMA AddBoundPlaces ==
    ASSUME Inv, Inv', NEW c \in Caller, NEW request \in RequestSet, ~InChunk(c),
           request.new \in Uid, AddBound(c, request), NEW j \in Id
    PROVE  Placed(j)
<1>1. PICK i \in Id, now \in Nat, u \in Uid :
            i = request.id /\ now = request.now /\ u = request.new
  BY DEF RequestSet
<1>2. UNCHANGED container /\ Unlocked(i)
  BY <1>1 DEF AddBound
<1>3. PICK unseen : unseen = Unseen(i)
  OBVIOUS
<1>4. /\ HoldersType(unseen) /\ Len(unseen["bound"]) = Len(holders["bound"])
      /\ \A g \in 1 .. Len(holders["bound"]) : \A l \in Id :
            unseen["bound"][g].users[l] = Bound(g, l)
  BY <1>3, Kinds, UnseenEffect DEF Bound
<1>5. CASE Found("bound", i)
  <2>1. PICK home \in 1 .. Len(holders["bound"]), old \in BoundUser :
            /\ home = Home("bound", i) /\ old = holders["bound"][home].users[i]
            /\ home \in container["bound"]
    BY <1>5, Kinds, HomeOfUser
  <2>2. PICK info \in BoundUser :
            info = IF request.resave \/ ~Found("bound", i) THEN Saved(old, u, now) ELSE old
    BY SaveTypes
  <2>3. info # None
    BY BindAssumption
  <2>4. CASE holders["bound"][home].period >= now
    <3>1. PICK reply : /\ holders' = [unseen EXCEPT !["bound"][home].users[i] = info]
                       /\ Goes(c, Replies(request, reply))
      BY <1>1, <1>3, <1>5, <2>1, <2>2, <2>4 DEF AddBound
    <3>2. Replaced(unseen, holders', "bound", home, i, info)
      BY <1>4, <2>1, <3>1, Kinds, StoredEffect
    <3>3. In("bound", home, i)' /\ Bound(home, i)' = info
      BY <1>2, <1>4, <2>1, <2>3, <3>2, Kinds DEF Replaced, In, Bound
    <3>4. /\ caller'[c].pc = "reply"
          /\ \A d \in Caller : d # c => caller'[d] = caller[d]
      BY <3>1 DEF Goes, Replies, Inv, TypeInv
    <3>5. Rests(i)'
      <4>1. ~Carries(c, i)'
        BY <3>4 DEF Carries
      <4> QED  BY <1>2, <3>4, <4>1, RestsAfter
    <3>6. Binding(i)' = info.uid
      BY <1>2, <2>1, <3>3, <3>5 DEF Rests, Bound
    <3> QED  BY <1>2, <1>4, <2>3, <3>1, <3>6, BoundPlaces
  <2>5. CASE ~(holders["bound"][home].period >= now)
    <3>1. PICK reply :
            /\ holders' = [unseen EXCEPT !["bound"][home].users[i] = None]
            /\ Goes(c, Moves(request, "bound", container["bound"], "store", info, reply))
      BY <1>1, <1>3, <1>5, <2>1, <2>2, <2>5 DEF AddBound
    <3>2. Moving(i)'
      BY <1>1, <3>1, GoesAway DEF Moves
    <3> QED  BY <1>2, <1>4, <3>1, <3>2, BoundPlaces
  <2> QED  BY <2>4, <2>5
<1>6. CASE ~Found("bound", i)
  <2>1. holders' = unseen
    BY <1>1, <1>3, <1>6 DEF AddBound
  <2>2. container["bound"] \subseteq 1 .. Len(holders["bound"])
    BY Kinds DEF Inv, ContainerInv
  <2>3. \A g \in 1 .. Len(holders["bound"]) :
            g \in 1 .. Len(holders'["bound"]) /\ Bound(g, j)' = Bound(g, j)
    BY <1>4, <2>1 DEF Bound
  <2> QED  BY <1>2, <2>2, <2>3 DEF Placed
<1> QED  BY <1>5, <1>6

LEMMA GetHolderPlaces ==
    ASSUME Inv, NEW c \in Caller, GetHolder(c), NEW j \in Id
    PROVE  Placed(j)
<1>1. caller[c].pc = "holder"
  BY Zenon DEF GetHolder
<1>2. PICK k \in Kind, read \in SUBSET Nat : k = caller[c].kind /\ read = caller[c].read
  BY <1>1, CallerType DEF Inv
<1>3. \/ UNCHANGED <<holders, container>>
      \/ \E empty : /\ holders' = [holders EXCEPT ![k] = Append(@, empty)]
                    /\ container' = [container EXCEPT ![k] = Extended(k, read)]
  BY <1>2, Zenon DEF GetHolder
<1>4. CASE UNCHANGED <<holders, container>>
  BY <1>4, NonePlaces
<1>5. ASSUME NEW empty, holders' = [holders EXCEPT ![k] = Append(@, empty)],
             container' = [container EXCEPT ![k] = Extended(k, read)]
      PROVE  Placed(j)
  <2>1. container["bound"] \subseteq container'["bound"]
    BY <1>5, Kinds DEF Extended, Inv, TypeInv
  <2>2. CASE k = "bound"
    <3>1. /\ holders'["bound"] = Append(holders["bound"], empty)
          /\ holders["bound"] \in Seq(Holder("bound"))
      BY <1>5, <2>2, Kinds DEF Inv, TypeInv
    <3>2. \A g \in 1 .. Len(holders["bound"]) :
            g \in 1 .. Len(holders'["bound"]) /\ holders'["bound"][g] = holders["bound"][g]
      BY <3>1
    <3>3. container["bound"] \subseteq 1 .. Len(holders["bound"])
      BY Kinds DEF Inv, ContainerInv
    <3> QED  BY <2>1, <3>2, <3>3 DEF Placed, Bound
  <2>3. CASE k # "bound"
    <3>1. holders'["bound"] = holders["bound"]
      BY <1>5, <2>3, Kinds DEF Inv, TypeInv
    <3> QED  BY <2>1, <3>1, NonePlaces
  <2> QED  BY <2>2, <2>3
<1> QED  BY <1>3, <1>4, <1>5

LEMMA PutPlaces ==
    ASSUME Inv, NEW c \in Caller, Put(c), NEW j \in Id
    PROVE  Placed(j)
<1>1. caller[c].pc = "put" /\ UNCHANGED container
  BY DEF Put
<1>2. PICK request \in RequestSet, k \in Kind :
            request = caller[c].request /\ k = caller[c].kind
  BY <1>1, CallerType DEF Inv
<1>3. PICK i \in Id, call \in Calls, now \in Nat,
            info \in SeenUser \cup BoundUser \cup {None} :
            /\ i = request.id /\ call = request.call /\ now = request.now
            /\ info = caller[c].info
  BY <1>1, <1>2, CallerType DEF Inv, RequestSet
<1>4. MovingCall(c)
  BY DEF Inv, CallInv
<1>5. \/ UNCHANGED holders
      \/ \E h, new : holders' = Stored(k, h, i, new)
  BY <1>2, <1>3, Zenon DEF Put
<1>6. CASE k = "seen"
  BY <1>1, <1>5, <1>6, NonePlaces, SeenPlaces
<1>7. CASE k = "bound"
  <2>1. info \in BoundUser /\ caller[c].then # "see"
    BY <1>1, <1>2, <1>3, <1>4, <1>7 DEF MovingCall
  <2>2. Binding(i) = info.uid
    <3>1. Carries(c, i)
      BY <1>1, <1>2, <1>3, <1>7 DEF Carries
    <3> QED  BY <1>3, <3>1, ShownIsBinding DEF Shown
  <2>3. PICK h \in 1 .. Len(holders["bound"]), new \in BoundUser :
            holders' = Stored("bound", h, i, new) /\ new.uid = info.uid
    <3>1. \A h \in caller[c].read : h \in 1 .. Len(holders["bound"])
      BY <1>1, <1>2, <1>4, <1>7 DEF MovingCall
    <3>2. AtGet(info, call, now) \in BoundUser /\ AtGet(info, call, now).uid = info.uid
      BY <2>1, GetTypes
    <3>3. \E h \in caller[c].read : \E new \in {info, AtGet(info, call, now)} :
                holders' = Stored("bound", h, i, new)
      BY <1>2, <1>3, <1>7, <2>1 DEF Put
    <3> QED  BY <2>1, <3>1, <3>2, <3>3
  <2>4. HoldersType(holders) /\ new # None
    BY BindAssumption DEF Inv, TypeInv, HoldersType
  <2>5. holders' = [holders EXCEPT !["bound"][h].users[i] = new]
    BY <2>3 DEF Stored
  <2> QED  BY <1>1, <2>2, <2>3, <2>4, <2>5, BoundPlaces DEF Bound
<1> QED  BY <1>6, <1>7 DEF Kind

LEMMA ClearExpiredPlaces ==
    ASSUME Inv, Inv', NEW k \in Kind, ClearExpired(k), NEW j \in Id
    PROVE  Placed(j)
<1>1. /\ UNCHANGED <<holders, caller>>
      /\ container'["bound"] \subseteq container["bound"]
  BY Kinds DEF ClearExpired, Kept, Inv, TypeInv
<1>2. ASSUME NEW h \in container["bound"], Bound(h, j) # None, Binding(j)' # NoUid
      PROVE  h \in container'["bound"]
  <2> SUFFICES ASSUME h \notin container'["bound"] PROVE FALSE
    OBVIOUS
  <2>1. In("bound", h, j)
    BY <1>2 DEF In, Bound
  <2>2. \A c \in Caller : ~Carries(c, j)'
    BY <1>1, <2>1, Kinds DEF Carries, Inv, CallInv, MovingCall
  <2>3. Rests(j)'
    BY <2>2, ShownIsBindingNext DEF Shown
  <2>4. \A g \in container'["bound"] : ~In("bound", g, j)'
    BY <1>1, <2>1, Kinds DEF In, Inv, HomeInv
  <2> QED  BY <1>2, <2>3, <2>4 DEF Rests
<1> QED  BY <1>1, <1>2 DEF Placed, Bound

LEMMA NextPlaces ==
    ASSUME Inv, [Next]_vars, NEW j \in Id
    PROVE  Placed(j)
<1>1. Inv'
  BY NextKeeps
<1>2. ASSUME NEW c \in Caller, NEW i \in Id, NEW call \in Calls, NEW now \in RequestTime,
             Asks(c, i, call, now, Uid)
      PROVE  Placed(j)
  <2>1. CASE GetBound(c, i, call, now)
    BY <2>1, GetBoundPlaces
  <2>2. ASSUME NEW u \in Uid, Add(c, i, call, now, u) PROVE Placed(j)
    <3>1. PICK request : request = Request(i, call, now, u, TRUE)
      OBVIOUS
    <3>2. request \in RequestSet /\ request.new = u
      BY <3>1 DEF Request, RequestSet, RequestTime
    <3>3. AddBound(c, request) /\ ~InChunk(c)
      <4>1. caller[c] = Idle /\ AddBound(c, Request(i, call, now, u, TRUE))
        BY <2>2 DEF Add
      <4>2. AddBound(c, request)
        BY <3>1, <4>1, Zenon
      <4> QED  BY <4>1, <4>2 DEF InChunk, Idle
    <3> QED  BY <1>1, <3>2, <3>3, AddBoundPlaces
  <2> QED  BY <1>2, <2>1, <2>2 DEF Asks
<1>3. ASSUME NEW c \in Caller, GoesOn(c) PROVE Placed(j)
  <2>1. CASE GetSeen(c)
    BY <2>1, GetSeenPlaces
  <2>2. CASE GetHolder(c)
    BY <2>2, GetHolderPlaces
  <2>3. CASE Put(c)
    BY <2>3, PutPlaces
  <2>4. CASE Return(c)
    BY <2>4, NonePlaces DEF Return
  <2>5. ASSUME NEW u \in Uid, AddAgain(c, u) PROVE Placed(j)
    <3>1. caller[c].pc = "again" /\ ~InChunk(c)
      BY <2>5 DEF AddAgain, InChunk
    <3>2. caller[c].request \in RequestSet
      BY <3>1, CallerType DEF Inv
    <3>3. PICK request : request = [caller[c].request EXCEPT !.new = u]
      OBVIOUS
    <3>5. request \in RequestSet /\ request.new = u
      BY <3>2, <3>3 DEF RequestSet
    <3>4. AddBound(c, request)
      BY <2>5, <3>3 DEF AddAgain
    <3> QED  BY <1>1, <3>1, <3>4, <3>5, AddBoundPlaces
  <2> QED  BY <1>3, <2>1, <2>2, <2>3, <2>4, <2>5 DEF GoesOn
<1>4. ASSUME NEW k \in Kind, ClearExpired(k) PROVE Placed(j)
  BY <1>1, <1>4, ClearExpiredPlaces
<1>5. CASE Tick
  BY <1>5, NonePlaces DEF Tick
<1>6. CASE UNCHANGED vars
  BY <1>6, NonePlaces DEF vars
<1> QED
  BY <1>2, <1>3, <1>4, <1>5, <1>6 DEF Next

-----------------------------------------------------------------------------
(* The invariant of the dump.  A file of bound users holds, of each id,    *)
(* what the id was bound to since the last complete dump began; one of the *)
(* dump that runs, what it was bound to since that one began.              *)

BoundFile == [kind : {"bound"}, period : Nat, number : Numbers, torn : BOOLEAN,
              users : [Id -> BoundUser \cup {None}]]

File(f) == f = [kind |-> f.kind, period |-> f.period, number |-> f.number,
                torn |-> f.torn, users |-> f.users]
Typed(files) == \A f \in files : File(f) /\ (f.kind = "bound" => f \in BoundFile)
Unique(files) ==
    \A f, g \in files : f.kind = g.kind /\ f.period = g.period => f = g

Has(files, i) == \E f \in files : f.kind = "bound" /\ f.users[i] # None
Only(files, i, known) ==
    \A f \in files : f.kind = "bound" /\ f.users[i] # None => f.users[i].uid \in known

Own == {f \in disk : f.number = dump.number}
Reading == dump # NoDump /\ dump.pc = "read" /\ dump.kind = "bound"

DumpTypes ==
    /\ Typed(disk) /\ IsFiniteSet(disk)
    /\ \/ dump = NoDump
       \/ /\ dump = [pc |-> dump.pc, kind |-> dump.kind, number |-> dump.number,
                     old |-> dump.old, todo |-> dump.todo, got |-> dump.got,
                     tmp |-> dump.tmp]
          /\ dump.pc \in {"read", "rename"} /\ dump.kind \in Kind
          /\ dump.number \in Numbers /\ Typed(dump.tmp)
    /\ \A i \in Id : since[i].moved \in BOOLEAN /\ since[i].lastMoved \in BOOLEAN

(* The files of a dump are told from the old ones by their number.         *)
FilesInv ==
    dump # NoDump =>
        /\ Unique(dump.tmp)
        /\ \A f \in dump.tmp : f.number = dump.number
        /\ \A f \in dump.old : f.number # dump.number
        /\ \A f \in disk : f.number = dump.number \/ f \in dump.old
        /\ dump.todo = {} => dump.got = {}

(* What was written was known, and so is what is still to be read.         *)
Values(i) ==
    /\ Binding(i) \in since[i].last
    /\ Only(disk, i, since[i].last)
    /\ dump # NoDump =>
        /\ Binding(i) \in since[i].now /\ since[i].now \subseteq since[i].last
        /\ Only(dump.tmp, i, since[i].now)
        /\ Only(Own, i, since[i].now)
    /\ Reading => \A h \in dump.todo :
        /\ h \in 1 .. Len(holders["bound"])
        /\ Bound(h, i) # None => Bound(h, i).uid \in since[i].now

(* A binding that is not moved while a dump runs is still to be read, or   *)
(* in its files; and one that was not moved during the last complete dump  *)
(* is in the files.                                                        *)
Keeps(i) ==
    /\ NoUid \in since[i].last \/ since[i].lastMoved \/ Has(disk, i)
    /\ dump # NoDump /\ Moving(i) => since[i].moved
    /\ Reading /\ ~since[i].moved /\ NoUid \notin since[i].now =>
        \/ Has(dump.tmp, i)
        \/ \E h \in dump.todo : h \in container["bound"] /\ Bound(h, i) # None
    /\ Reading /\ i \in dump.got => Has(dump.tmp, i)
    /\ dump # NoDump /\ dump.pc = "rename" /\ ~since[i].moved /\ NoUid \notin since[i].now =>
        Has(dump.tmp, i) \/ Has(Own, i)

KnownInv == DumpTypes /\ FilesInv /\ \A i \in Id : Values(i) /\ Keeps(i)

LoadInv == DumpInv /\ (crashes = 0 => KnownInv)

-----------------------------------------------------------------------------
(* What is noted of an id.                                                 *)

LEMMA NotedOf ==
    ASSUME Noted, NEW i \in Id, since[i].moved \in BOOLEAN, since[i].lastMoved \in BOOLEAN
    PROVE  /\ since'[i].moved \in BOOLEAN /\ since'[i].lastMoved \in BOOLEAN
           /\ Binding(i)' \in since'[i].last
           /\ dump' # NoDump =>
                /\ since'[i].last = since[i].last \cup {Binding(i)'}
                /\ since[i].lastMoved => since'[i].lastMoved
           /\ dump # NoDump /\ dump' # NoDump =>
                /\ since'[i].now = since[i].now \cup {Binding(i)'}
                /\ since'[i].moved <=> since[i].moved \/ Moving(i)'
                /\ disk' \subseteq disk /\ disk' # disk /\ since[i].moved => since'[i].lastMoved
           /\ dump = NoDump /\ dump' # NoDump =>
                /\ since'[i].now = {Binding(i), Binding(i)'}
                /\ since'[i].moved <=> Moving(i)
           /\ dump' = NoDump =>
                \/ /\ since'[i].last = since[i].last \cup {Binding(i)'}
                   /\ since[i].lastMoved => since'[i].lastMoved
                \/ /\ dump # NoDump /\ dump.pc = "rename" /\ dump.tmp = {} /\ dump.old = {}
                   /\ since'[i].last = since[i].now \cup {Binding(i)'}
                   /\ since[i].moved => since'[i].lastMoved
<1> DEFINE begins == dump = NoDump /\ dump' # NoDump
           ends == dump' = NoDump /\ dump # NoDump /\ dump.pc = "rename"
                    /\ dump.tmp = {} /\ dump.old = {} /\ crashes' = crashes
           now == IF begins THEN {Binding(i)} ELSE since[i].now
           moved == IF begins THEN Moving(i) ELSE since[i].moved \/ Moving(i)'
<1>1. since'[i] =
        [last |-> (IF ends THEN now ELSE since[i].last) \cup {Binding(i)'},
         lastMoved |-> IF ends THEN moved
                       ELSE since[i].lastMoved \/ (disk' \subseteq disk /\ disk' # disk
                                                   /\ moved),
         now |-> IF dump' = NoDump THEN {} ELSE now \cup {Binding(i)'},
         moved |-> dump' # NoDump /\ moved]
  BY DEF Noted
<1>2. moved \in BOOLEAN
  BY DEF Moving
<1>3. /\ since'[i].last = (IF ends THEN now ELSE since[i].last) \cup {Binding(i)'}
      /\ since'[i].lastMoved = IF ends THEN moved
                               ELSE since[i].lastMoved \/ (disk' \subseteq disk /\ disk' # disk
                                                           /\ moved)
      /\ since'[i].now = IF dump' = NoDump THEN {} ELSE now \cup {Binding(i)'}
      /\ since'[i].moved = (dump' # NoDump /\ moved)
  BY <1>1
<1> HIDE DEF begins, ends, now, moved
<1>4. begins \/ (moved <=> since[i].moved \/ Moving(i)')
  BY DEF moved
<1>5. begins => now = {Binding(i)} /\ (moved <=> Moving(i))
  BY DEF now, moved, Moving
<1>6. ~begins => now = since[i].now
  BY DEF now
<1>7. begins <=> dump = NoDump /\ dump' # NoDump
  BY DEF begins
<1>8. ends => /\ dump' = NoDump /\ dump # NoDump /\ dump.pc = "rename"
              /\ dump.tmp = {} /\ dump.old = {}
  BY DEF ends
<1>9. ends \in BOOLEAN
  BY DEF ends
<1>10. Binding(i)' \in since'[i].last
  BY <1>3
<1>11. since'[i].moved \in BOOLEAN /\ since'[i].lastMoved \in BOOLEAN
  BY <1>2, <1>3, <1>9
<1>12. ASSUME ~ends
       PROVE  /\ since'[i].last = since[i].last \cup {Binding(i)'}
              /\ since[i].lastMoved => since'[i].lastMoved
              /\ disk' \subseteq disk /\ disk' # disk /\ moved => since'[i].lastMoved
  BY <1>2, <1>3, <1>12
<1>13. ASSUME ends
       PROVE  /\ since'[i].last = since[i].now \cup {Binding(i)'}
              /\ since[i].moved => since'[i].lastMoved
  BY <1>3, <1>4, <1>6, <1>7, <1>8, <1>13
<1>14. dump' # NoDump => (since'[i].moved <=> moved) /\ since'[i].now = now \cup {Binding(i)'}
  BY <1>2, <1>3
<1> QED
  BY <1>4, <1>5, <1>6, <1>7, <1>8, <1>10, <1>11, <1>12, <1>13, <1>14

LEMMA ShownSame ==
    ASSUME UNCHANGED vars, NEW i
    PROVE  /\ Binding(i)' = Binding(i)
           /\ Moving(i)' <=> Moving(i)
<1>1. holders' = holders /\ container' = container /\ caller' = caller
  BY DEF vars
<1> QED
  BY <1>1 DEF Binding, Moving, Underway, Found, Info, Home, Newest, With

-----------------------------------------------------------------------------
(* The steps of the calls.                                                 *)

LEMMA CallsKeepKnown ==
    ASSUME Inv, KnownInv, [Next]_vars, UNCHANGED <<disk, dump>>, Noted
    PROVE  KnownInv'
<1>1. Inv' /\ \A i \in Id : Placed(i)
  BY NextKeeps, NextPlaces
<1>2. disk' = disk /\ dump' = dump
  OBVIOUS
<1>3. DumpTypes /\ FilesInv /\ \A i \in Id : Values(i) /\ Keeps(i)
  BY DEF KnownInv
<1>4. \A i \in Id : since'[i].moved \in BOOLEAN /\ since'[i].lastMoved \in BOOLEAN
  BY <1>3, NotedOf DEF DumpTypes
<1>5. DumpTypes'
  BY <1>2, <1>3, <1>4 DEF DumpTypes
<1>6. (Reading' <=> Reading) /\ Own' = Own
  BY <1>2 DEF Reading, Own
<1>7. FilesInv'
  BY <1>2, <1>3 DEF FilesInv
<1>8. ASSUME NEW i \in Id PROVE Values(i)' /\ Keeps(i)'
  <2>1. /\ Values(i) /\ Keeps(i) /\ Placed(i)
        /\ since[i].moved \in BOOLEAN /\ since[i].lastMoved \in BOOLEAN
    BY <1>1, <1>3 DEF DumpTypes
  <2>2. /\ since'[i].last = since[i].last \cup {Binding(i)'}
        /\ since[i].lastMoved => since'[i].lastMoved
        /\ dump # NoDump =>
            /\ since'[i].now = since[i].now \cup {Binding(i)'}
            /\ since'[i].moved <=> since[i].moved \/ Moving(i)'
    BY <1>2, <2>1, NotedOf
  <2>3. Only(disk, i, since'[i].last)
    BY <2>1, <2>2 DEF Values, Only
  <2>4. dump # NoDump =>
            /\ Binding(i)' \in since'[i].now /\ since'[i].now \subseteq since'[i].last
            /\ Only(dump.tmp, i, since'[i].now)
            /\ Only(Own, i, since'[i].now)
    BY <2>1, <2>2 DEF Values, Only
  <2>5. ASSUME Reading, NEW h \in dump.todo
        PROVE  /\ h \in 1 .. Len(holders'["bound"])
               /\ Bound(h, i)' # None => Bound(h, i)'.uid \in since'[i].now
    <3>1. h \in 1 .. Len(holders["bound"]) /\ dump # NoDump
      BY <2>1, <2>5 DEF Values, Reading
    <3>2. /\ h \in 1 .. Len(holders'["bound"])
          /\ \/ Bound(h, i)' = Bound(h, i)
             \/ Bound(h, i)' = None
             \/ Bound(h, i)'.uid \in {Binding(i), Binding(i)'}
      BY <2>1, <3>1 DEF Placed
    <3>3. Binding(i) \in since[i].now /\ (Bound(h, i) # None => Bound(h, i).uid \in since[i].now)
      BY <2>1, <2>5, <3>1 DEF Values
    <3> QED  BY <2>2, <2>5, <3>1, <3>2, <3>3
  <2>6. Values(i)'
    BY <1>2, <1>6, <2>2, <2>3, <2>4, <2>5 DEF Values
  <2>7. ASSUME Reading, ~since'[i].moved, NoUid \notin since'[i].now
        PROVE  \/ Has(dump.tmp, i)
               \/ \E h \in dump.todo : h \in container'["bound"] /\ Bound(h, i)' # None
    <3>1. ~since[i].moved /\ ~Moving(i)' /\ NoUid \notin since[i].now /\ Binding(i)' # NoUid
      BY <2>2, <2>7 DEF Reading
    <3>2. \/ Has(dump.tmp, i)
          \/ \E h \in dump.todo : h \in container["bound"] /\ Bound(h, i) # None
      BY <2>1, <2>7, <3>1 DEF Keeps
    <3> QED  BY <2>1, <3>1, <3>2 DEF Placed
  <2>8. Keeps(i)'
    <3>1. (NoUid \in since[i].last \/ since[i].lastMoved \/ Has(disk, i))'
      BY <1>2, <2>1, <2>2 DEF Keeps, Has
    <3>2. (dump # NoDump /\ Moving(i) => since[i].moved)'
      BY <1>2, <2>2
    <3>3. (Reading /\ i \in dump.got => Has(dump.tmp, i))'
      BY <1>2, <1>6, <2>1 DEF Keeps, Has
    <3>4. (dump # NoDump /\ dump.pc = "rename" /\ ~since[i].moved /\ NoUid \notin since[i].now
            => Has(dump.tmp, i) \/ Has(Own, i))'
      BY <1>2, <1>6, <2>1, <2>2 DEF Keeps, Has
    <3>5. (Reading /\ ~since[i].moved /\ NoUid \notin since[i].now =>
            \/ Has(dump.tmp, i)
            \/ \E h \in dump.todo : h \in container["bound"] /\ Bound(h, i) # None)'
      BY <1>2, <1>6, <2>7 DEF Has
    <3> QED  BY <3>1, <3>2, <3>3, <3>4, <3>5 DEF Keeps
  <2> QED  BY <2>6, <2>8
<1> QED  BY <1>5, <1>7, <1>8 DEF KnownInv

-----------------------------------------------------------------------------
(* The steps of the dump.                                                  *)

(* A step of a dump that goes on changes nothing of what the clients see.  *)
LEMMA RunningKeeps ==
    ASSUME Inv, KnownInv, UNCHANGED vars, Noted, dump # NoDump, dump' # NoDump,
           DumpTypes', FilesInv', NEW i \in Id,
           Only(disk', i, since[i].last),
           Only(dump'.tmp, i, since[i].now), Only(Own', i, since[i].now),
           Reading' => \A h \in dump'.todo :
                /\ h \in 1 .. Len(holders["bound"])
                /\ Bound(h, i) # None => Bound(h, i).uid \in since[i].now,
           \/ Has(disk, i) => Has(disk', i)
           \/ /\ disk' \subseteq disk /\ disk' # disk
              /\ ~since[i].moved /\ NoUid \notin since[i].now => Has(disk', i),
           Reading' /\ ~since[i].moved /\ NoUid \notin since[i].now =>
                \/ Has(dump'.tmp, i)
                \/ \E h \in dump'.todo : h \in container["bound"] /\ Bound(h, i) # None,
           Reading' /\ i \in dump'.got => Has(dump'.tmp, i),
           dump'.pc = "rename" /\ ~since[i].moved /\ NoUid \notin since[i].now =>
                Has(dump'.tmp, i) \/ Has(Own', i)
    PROVE  Values(i)' /\ Keeps(i)'
<1>1. /\ Binding(i)' = Binding(i) /\ (Moving(i)' <=> Moving(i))
      /\ holders' = holders /\ container' = container
  BY ShownSame DEF vars
<1>2. /\ Values(i) /\ Keeps(i)
      /\ since[i].moved \in BOOLEAN /\ since[i].lastMoved \in BOOLEAN
  BY DEF KnownInv, DumpTypes
<1>3. Binding(i) \in since[i].now /\ Binding(i) \in since[i].last
      /\ since[i].now \subseteq since[i].last /\ (Moving(i) => since[i].moved)
  BY <1>2 DEF Values, Keeps
<1>4. /\ since'[i].last = since[i].last /\ since'[i].now = since[i].now
      /\ since'[i].moved <=> since[i].moved
      /\ since[i].lastMoved => since'[i].lastMoved
      /\ disk' \subseteq disk /\ disk' # disk /\ since[i].moved => since'[i].lastMoved
  <2>1. /\ since'[i].last = since[i].last \cup {Binding(i)'}
        /\ since'[i].now = since[i].now \cup {Binding(i)'}
        /\ since'[i].moved <=> since[i].moved \/ Moving(i)'
        /\ since[i].lastMoved => since'[i].lastMoved
        /\ disk' \subseteq disk /\ disk' # disk /\ since[i].moved => since'[i].lastMoved
    BY <1>2, NotedOf
  <2>2. since'[i].last = since[i].last /\ since'[i].now = since[i].now
    BY <1>1, <1>3, <2>1
  <2>3. since'[i].moved <=> since[i].moved
    BY <1>1, <1>3, <2>1
  <2> QED  BY <2>1, <2>2, <2>3
<1>5. Values(i)'
  BY <1>1, <1>3, <1>4 DEF Values, Bound
<1>6. (NoUid \in since[i].last \/ since[i].lastMoved \/ Has(disk, i))'
  <2>1. NoUid \in since[i].last \/ since[i].lastMoved \/ Has(disk, i)
    BY <1>2 DEF Keeps
  <2>2. CASE Has(disk, i) => Has(disk', i)
    BY <1>4, <2>1, <2>2 DEF Has
  <2>3. CASE /\ disk' \subseteq disk /\ disk' # disk
             /\ ~since[i].moved /\ NoUid \notin since[i].now => Has(disk', i)
    BY <1>3, <1>4, <2>3 DEF Has
  <2> QED  BY <2>2, <2>3
<1>7. (dump # NoDump /\ Moving(i) => since[i].moved)'
  BY <1>1, <1>3, <1>4
<1>8. (Reading /\ ~since[i].moved /\ NoUid \notin since[i].now =>
        \/ Has(dump.tmp, i)
        \/ \E h \in dump.todo : h \in container["bound"] /\ Bound(h, i) # None)'
  BY <1>1, <1>4 DEF Has, Bound
<1>9. (Reading /\ i \in dump.got => Has(dump.tmp, i))'
  BY DEF Has
<1>10. (dump # NoDump /\ dump.pc = "rename" /\ ~since[i].moved /\ NoUid \notin since[i].now
        => Has(dump.tmp, i) \/ Has(Own, i))'
  BY <1>4 DEF Has
<1>11. Keeps(i)'
  BY <1>6, <1>7, <1>8, <1>9, <1>10 DEF Keeps
<1> QED  BY <1>5, <1>11

LEMMA BeginsKeepsKnown ==
    ASSUME Inv, KnownInv, UNCHANGED vars, Noted, DumpBegins
    PROVE  KnownInv'
<1>1. dump = NoDump /\ disk' = disk
  BY DEF DumpBegins
<1>2. PICK n \in Numbers \ Used :
        dump' = [pc |-> "read", kind |-> "seen", number |-> n, old |-> disk,
                 todo |-> container["seen"], got |-> {}, tmp |-> {}]
  BY DEF DumpBegins
<1>3. /\ dump'.pc = "read" /\ dump'.kind = "seen" /\ dump'.number = n /\ dump'.old = disk
      /\ dump'.got = {} /\ dump'.tmp = {} /\ dump' # NoDump
      /\ dump' = [pc |-> dump'.pc, kind |-> dump'.kind, number |-> dump'.number,
                  old |-> dump'.old, todo |-> dump'.todo, got |-> dump'.got,
                  tmp |-> dump'.tmp]
  BY <1>2 DEF NoDump
<1>4. \A f \in disk : f.number # n
  BY <1>2 DEF Used
<1>5. \A i \in Id : since[i].moved \in BOOLEAN /\ since[i].lastMoved \in BOOLEAN
  BY DEF KnownInv, DumpTypes
<1>6. DumpTypes'
  <2>1. \A i \in Id : since'[i].moved \in BOOLEAN /\ since'[i].lastMoved \in BOOLEAN
    BY <1>5, NotedOf
  <2> QED
    BY <1>1, <1>2, <1>3, <2>1, Kinds DEF KnownInv, DumpTypes, Typed
<1>7. FilesInv'
  BY <1>1, <1>3, <1>4 DEF FilesInv, Unique
<1>8. ASSUME NEW i \in Id PROVE Values(i)' /\ Keeps(i)'
  <2>1. Binding(i)' = Binding(i) /\ (Moving(i)' <=> Moving(i))
    BY ShownSame
  <2>2. Values(i) /\ Keeps(i)
    BY DEF KnownInv
  <2>3. /\ since'[i].last = since[i].last \cup {Binding(i)}
        /\ since[i].lastMoved => since'[i].lastMoved
        /\ since'[i].now = {Binding(i)}
        /\ since'[i].moved <=> Moving(i)
    BY <1>1, <1>3, <1>5, <2>1, NotedOf
  <2>4. Own' = {}
    BY <1>1, <1>3, <1>4 DEF Own
  <2>5. ~Reading'
    BY <1>3 DEF Reading
  <2>6. Values(i)'
    BY <1>1, <1>3, <2>1, <2>2, <2>3, <2>4, <2>5 DEF Values, Only
  <2>7. (NoUid \in since[i].last \/ since[i].lastMoved \/ Has(disk, i))'
    BY <1>1, <2>2, <2>3 DEF Keeps, Has
  <2>8. Keeps(i)'
    BY <1>3, <2>1, <2>3, <2>5, <2>7 DEF Keeps
  <2> QED  BY <2>6, <2>8
<1> QED  BY <1>6, <1>7, <1>8 DEF KnownInv

(* A file with one more user.                                              *)
LEMMA WrittenBound ==
    ASSUME Inv, Typed(dump.tmp), Unique(dump.tmp), dump.number \in Numbers,
           \A f \in dump.tmp : f.number = dump.number,
           NEW h \in 1 .. Len(holders["bound"]), NEW i \in Id, Bound(h, i) # None,
           NEW new, new = Written("bound", h, i)
    PROVE  /\ Typed(new) /\ Unique(new) /\ \A f \in new : f.number = dump.number
           /\ Has(new, i) /\ \A j \in Id : Has(dump.tmp, j) => Has(new, j)
           /\ \A j \in Id : \A known :
                /\ Only(dump.tmp, j, known)
                /\ Bound(h, j) # None => Bound(h, j).uid \in known
                => Only(new, j, known)
<1>0. holders["bound"][h] \in Holder("bound")
  <2>1. holders["bound"] \in Seq(Holder("bound"))
    BY Kinds DEF Inv, TypeInv
  <2> QED  BY <2>1
<1>1. PICK p \in Nat : p = holders["bound"][h].period
  BY <1>0 DEF Holder
<1>2. Bound(h, i) \in BoundUser
  BY <1>0, Kinds DEF Holder, Bound
<1>3. PICK same : same = {f \in dump.tmp : f.kind = "bound" /\ f.period = p}
  OBVIOUS
<1>4. PICK users \in [Id -> BoundUser \cup {None}] :
        /\ users = IF same = {} THEN [j \in Id |-> None]
                   ELSE (CHOOSE f \in same : TRUE).users
        /\ \A j \in Id : users[j] # None => \E f \in same : users[j] = f.users[j]
        /\ \A f \in same : f.users = users
  <2>1. CASE same = {}
    <3>1. PICK none \in [Id -> BoundUser \cup {None}] : none = [j \in Id |-> None]
      OBVIOUS
    <3>2. \A j \in Id : none[j] = None
      BY <3>1
    <3> QED  BY <2>1, <3>1, <3>2
  <2>2. CASE same # {}
    <3>1. PICK g \in same : g = CHOOSE f \in same : TRUE
      BY <2>2
    <3>2. g.users \in [Id -> BoundUser \cup {None}]
      <4>1. g \in BoundFile
        BY <1>3 DEF Typed
      <4> QED  BY <4>1 DEF BoundFile
    <3>3. \A f \in same : f = g
      BY <1>3, <3>1 DEF Unique
    <3> QED  BY <2>2, <3>1, <3>2, <3>3
  <2> QED  BY <2>1, <2>2
<1>5. PICK file : file = [kind |-> "bound", period |-> p, number |-> dump.number,
                          torn |-> FALSE, users |-> [users EXCEPT ![i] = Bound(h, i)]]
  OBVIOUS
<1>6. new = (dump.tmp \ same) \cup {file}
  BY <1>1, <1>3, <1>4, <1>5 DEF Written, Bound
<1>7. /\ file.kind = "bound" /\ file.period = p /\ file.number = dump.number
      /\ file.users[i] = Bound(h, i) /\ file \in BoundFile
      /\ File(file)
      /\ \A j \in Id : j # i => file.users[j] = users[j]
  BY <1>2, <1>5 DEF BoundFile, File
<1>8. Typed(new) /\ \A f \in new : f.number = dump.number
  BY <1>6, <1>7 DEF Typed
<1>9. Unique(new)
  BY <1>3, <1>6, <1>7 DEF Unique
<1>10. Has(new, i)
  BY <1>6, <1>7 DEF Has
<1>11. ASSUME NEW j \in Id, Has(dump.tmp, j) PROVE Has(new, j)
  <2>1. PICK f \in dump.tmp : f.kind = "bound" /\ f.users[j] # None
    BY <1>11 DEF Has
  <2>2. CASE f \in same
    <3>1. j # i => file.users[j] # None
      BY <1>4, <1>7, <2>1, <2>2
    <3> QED  BY <1>6, <1>7, <1>10, <3>1 DEF Has
  <2>3. CASE f \notin same
    BY <1>6, <2>1, <2>3 DEF Has
  <2> QED  BY <2>2, <2>3
<1>12. ASSUME NEW j \in Id, NEW known, Only(dump.tmp, j, known),
              Bound(h, j) # None => Bound(h, j).uid \in known
       PROVE  Only(new, j, known)
  <2>1. file.users[j] # None => file.users[j].uid \in known
    <3>1. CASE j = i
      BY <1>7, <1>12, <3>1
    <3>2. CASE j # i
      BY <1>3, <1>4, <1>7, <1>12, <3>2 DEF Only
    <3> QED  BY <3>1, <3>2
  <2> QED  BY <1>6, <1>12, <2>1 DEF Only
<1> QED  BY <1>8, <1>9, <1>10, <1>11, <1>12

LEMMA WrittenSeen ==
    ASSUME Typed(dump.tmp), Unique(dump.tmp), \A f \in dump.tmp : f.number = dump.number,
           NEW h, NEW i, NEW new, new = Written("seen", h, i)
    PROVE  /\ Typed(new) /\ Unique(new) /\ \A f \in new : f.number = dump.number
           /\ \A f : f.kind = "bound" => (f \in new <=> f \in dump.tmp)
<1>1. PICK p : p = holders["seen"][h].period
  OBVIOUS
<1>2. PICK same : same = {f \in dump.tmp : f.kind = "seen" /\ f.period = p}
  OBVIOUS
<1>3. PICK file : /\ new = (dump.tmp \ same) \cup {file}
                  /\ file.kind = "seen" /\ file.period = p /\ file.number = dump.number
                  /\ File(file)
  <2>1. PICK users, file :
            /\ new = (dump.tmp \ same) \cup {file}
            /\ file = [kind |-> "seen", period |-> p, number |-> dump.number,
                       torn |-> FALSE, users |-> users]
    BY <1>1, <1>2, Zenon DEF Written
  <2> QED  BY <2>1 DEF File
<1> QED
  BY <1>2, <1>3 DEF Typed, Unique

LEMMA ReadsKeepsKnown ==
    ASSUME Inv, KnownInv, UNCHANGED vars, Noted, DumpReads, dump # NoDump
    PROVE  KnownInv'
<1>1. disk' = disk /\ dump.pc = "read" /\ DumpTypes /\ FilesInv
  BY DEF DumpReads, KnownInv
<1>2. PICK h \in dump.todo, i \in Id :
        /\ holders[dump.kind][h].users[i] # None
        /\ dump' = [dump EXCEPT !.got = @ \cup {i}, !.tmp = Written(dump.kind, h, i)]
  <2>1. PICK h \in dump.todo : \E i \in Present(h) :
            dump' = [dump EXCEPT !.got = @ \cup {i}, !.tmp = Written(dump.kind, h, i)]
    BY Zenon DEF DumpReads
  <2> QED  BY <2>1, Zenon DEF Present
<1>3. /\ dump'.pc = "read" /\ dump'.kind = dump.kind /\ dump'.number = dump.number
      /\ dump'.old = dump.old /\ dump'.todo = dump.todo /\ dump'.got = dump.got \cup {i}
      /\ dump'.tmp = Written(dump.kind, h, i) /\ dump' # NoDump
      /\ dump' = [pc |-> dump'.pc, kind |-> dump'.kind, number |-> dump'.number,
                  old |-> dump'.old, todo |-> dump'.todo, got |-> dump'.got,
                  tmp |-> dump'.tmp]
  BY <1>1, <1>2 DEF DumpTypes, NoDump
<1>4. /\ Typed(dump.tmp) /\ Unique(dump.tmp) /\ dump.number \in Numbers
      /\ \A f \in dump.tmp : f.number = dump.number
      /\ dump.kind \in Kind
  BY <1>1 DEF DumpTypes, FilesInv
<1>5. (Reading' <=> Reading) /\ Own' = Own
  BY <1>1, <1>3 DEF Reading, Own
<1>6. /\ Typed(dump'.tmp) /\ Unique(dump'.tmp)
      /\ \A f \in dump'.tmp : f.number = dump.number
      /\ Reading => Has(dump'.tmp, i)
      /\ \A j \in Id : Has(dump.tmp, j) => Has(dump'.tmp, j)
      /\ \A j \in Id : Only(dump'.tmp, j, since[j].now)
  <2>1. CASE dump.kind = "seen"
    <3>1. /\ Typed(dump'.tmp) /\ Unique(dump'.tmp)
          /\ \A f \in dump'.tmp : f.number = dump.number
          /\ \A f : f.kind = "bound" => (f \in dump'.tmp <=> f \in dump.tmp)
      BY <1>3, <1>4, <2>1, WrittenSeen
    <3>2. \A j \in Id : Only(dump.tmp, j, since[j].now)
      BY DEF KnownInv, Values
    <3>3. \A j \in Id : Only(dump'.tmp, j, since[j].now)
      BY <3>1, <3>2 DEF Only
    <3>4. \A j \in Id : Has(dump.tmp, j) => Has(dump'.tmp, j)
      BY <3>1 DEF Has
    <3> QED  BY <2>1, <3>1, <3>3, <3>4 DEF Reading
  <2>2. CASE dump.kind = "bound"
    <3>1. Reading
      BY <1>1, <2>2 DEF Reading
    <3>2. \A j \in Id : /\ h \in 1 .. Len(holders["bound"])
                        /\ Bound(h, j) # None => Bound(h, j).uid \in since[j].now
                        /\ Only(dump.tmp, j, since[j].now)
      BY <3>1 DEF KnownInv, Values
    <3>3. Bound(h, i) # None /\ dump'.tmp = Written("bound", h, i)
      BY <1>2, <1>3, <2>2 DEF Bound
    <3> QED  BY <1>4, <3>2, <3>3, WrittenBound
  <2> QED  BY <1>4, <2>1, <2>2 DEF Kind
<1>7. DumpTypes'
  <2>1. \A j \in Id : since'[j].moved \in BOOLEAN /\ since'[j].lastMoved \in BOOLEAN
    BY <1>1, NotedOf DEF DumpTypes
  <2> QED  BY <1>1, <1>3, <1>4, <1>6, <2>1 DEF DumpTypes
<1>8. FilesInv'
  <2>1. dump'.todo # {}
    BY <1>3
  <2> QED  BY <1>1, <1>3, <1>6, <2>1 DEF FilesInv
<1>9. ASSUME NEW j \in Id PROVE Values(j)' /\ Keeps(j)'
  <2>1. Values(j) /\ Keeps(j)
    BY DEF KnownInv
  <2>2. Reading' /\ ~since[j].moved /\ NoUid \notin since[j].now =>
            \/ Has(dump'.tmp, j)
            \/ \E g \in dump'.todo : g \in container["bound"] /\ Bound(g, j) # None
    BY <1>3, <1>5, <1>6, <2>1 DEF Keeps
  <2>3. Reading' /\ j \in dump'.got => Has(dump'.tmp, j)
    BY <1>3, <1>5, <1>6, <2>1 DEF Keeps
  <2>4. Only(disk', j, since[j].last) /\ Only(Own', j, since[j].now)
    BY <1>1, <1>5, <2>1 DEF Values
  <2>5. Reading' => \A g \in dump'.todo :
            /\ g \in 1 .. Len(holders["bound"])
            /\ Bound(g, j) # None => Bound(g, j).uid \in since[j].now
    BY <1>3, <1>5, <2>1 DEF Values
  <2> QED
    BY <1>1, <1>3, <1>6, <1>7, <1>8, <2>2, <2>3, <2>4, <2>5, RunningKeeps DEF Has
<1> QED  BY <1>7, <1>8, <1>9 DEF KnownInv

-----------------------------------------------------------------------------
LEMMA GoesOnKeepsKnown ==
    ASSUME Inv, KnownInv, UNCHANGED vars, Noted, DumpGoesOn, dump # NoDump
    PROVE  KnownInv'
<1>1. /\ disk' = disk /\ dump.pc = "read" /\ DumpTypes /\ FilesInv
      /\ dump.kind \in Kind /\ dump.number \in Numbers /\ Typed(dump.tmp)
  BY DEF DumpGoesOn, KnownInv, DumpTypes
<1>2. dump = [pc |-> dump.pc, kind |-> dump.kind, number |-> dump.number,
              old |-> dump.old, todo |-> dump.todo, got |-> dump.got, tmp |-> dump.tmp]
  BY <1>1 DEF DumpTypes
<1>3. \A i \in Id : since'[i].moved \in BOOLEAN /\ since'[i].lastMoved \in BOOLEAN
  BY <1>1, NotedOf DEF DumpTypes
<1>4. ASSUME NEW h \in dump.todo, Present(h) \subseteq dump.got,
             dump' = [dump EXCEPT !.todo = @ \ {h}, !.got = {}]
      PROVE  KnownInv'
  <2>1. /\ dump'.pc = "read" /\ dump'.kind = dump.kind /\ dump'.number = dump.number
        /\ dump'.old = dump.old /\ dump'.todo = dump.todo \ {h} /\ dump'.got = {}
        /\ dump'.tmp = dump.tmp /\ dump' # NoDump
        /\ dump' = [pc |-> dump'.pc, kind |-> dump'.kind, number |-> dump'.number,
                    old |-> dump'.old, todo |-> dump'.todo, got |-> dump'.got,
                    tmp |-> dump'.tmp]
    BY <1>1, <1>2, <1>4 DEF NoDump
  <2>2. (Reading' <=> Reading) /\ Own' = Own
    BY <1>1, <2>1 DEF Reading, Own
  <2>3. DumpTypes'
    BY <1>1, <1>3, <2>1 DEF DumpTypes
  <2>4. FilesInv'
    BY <1>1, <2>1 DEF FilesInv
  <2>5. ASSUME NEW i \in Id PROVE Values(i)' /\ Keeps(i)'
    <3>1. Values(i) /\ Keeps(i)
      BY DEF KnownInv
    <3>2. Reading /\ Bound(h, i) # None => Has(dump.tmp, i)
      BY <1>4, <3>1 DEF Present, Bound, Keeps, Reading
    <3>3. Reading' /\ ~since[i].moved /\ NoUid \notin since[i].now =>
            \/ Has(dump'.tmp, i)
            \/ \E g \in dump'.todo : g \in container["bound"] /\ Bound(g, i) # None
      BY <2>1, <2>2, <3>1, <3>2 DEF Keeps
    <3>4. Only(disk', i, since[i].last) /\ Only(Own', i, since[i].now)
          /\ Only(dump'.tmp, i, since[i].now)
      BY <1>1, <2>1, <2>2, <3>1 DEF Values
    <3>5. Reading' => \A g \in dump'.todo :
            /\ g \in 1 .. Len(holders["bound"])
            /\ Bound(g, i) # None => Bound(g, i).uid \in since[i].now
      BY <2>1, <2>2, <3>1 DEF Values
    <3> QED
      BY <1>1, <2>1, <2>3, <2>4, <3>3, <3>4, <3>5, RunningKeeps
  <2> QED  BY <2>3, <2>4, <2>5 DEF KnownInv
<1>5. ASSUME dump.todo = {}, dump.kind = "seen",
             dump' = [dump EXCEPT !.kind = "bound", !.todo = container["bound"]]
      PROVE  KnownInv'
  <2>1. /\ dump'.pc = "read" /\ dump'.kind = "bound" /\ dump'.number = dump.number
        /\ dump'.old = dump.old /\ dump'.todo = container["bound"]
        /\ dump'.got = dump.got
        /\ dump'.tmp = dump.tmp /\ dump' # NoDump
        /\ dump' = [pc |-> dump'.pc, kind |-> dump'.kind, number |-> dump'.number,
                    old |-> dump'.old, todo |-> dump'.todo, got |-> dump'.got,
                    tmp |-> dump'.tmp]
    BY <1>1, <1>2, <1>5 DEF NoDump
  <2>2. Own' = Own /\ dump.got = {}
    BY <1>1, <1>5, <2>1 DEF Own, FilesInv
  <2>3. DumpTypes'
    BY <1>1, <1>3, <2>1, Kinds DEF DumpTypes
  <2>4. FilesInv'
    BY <1>1, <2>1, <2>2 DEF FilesInv
  <2>5. ASSUME NEW i \in Id PROVE Values(i)' /\ Keeps(i)'
    <3>1. /\ Values(i) /\ Keeps(i) /\ since[i].moved \in BOOLEAN
      BY <1>1 DEF KnownInv, DumpTypes
    <3>2. Binding(i) \in since[i].now
      BY <3>1 DEF Values
    <3>3. Shown(i)
      BY ShownIsBinding
    <3>4. ASSUME ~since[i].moved, NoUid \notin since[i].now
          PROVE  \E g \in dump'.todo : g \in container["bound"] /\ Bound(g, i) # None
      <4>1. \A c \in Caller : ~Carries(c, i)
        BY <3>1, <3>4 DEF Keeps, Moving, Underway, Carries
      <4>2. \E g \in container["bound"] : In("bound", g, i)
        BY <3>2, <3>3, <3>4, <4>1 DEF Shown, Rests
      <4> QED  BY <2>1, <4>2 DEF In, Bound
    <3>5. \A g \in container["bound"] :
            /\ g \in 1 .. Len(holders["bound"])
            /\ Bound(g, i) # None => Bound(g, i).uid \in since[i].now
      <4>1. container["bound"] \subseteq 1 .. Len(holders["bound"])
        BY Kinds DEF Inv, ContainerInv
      <4>2. ASSUME NEW g \in container["bound"], Bound(g, i) # None
            PROVE  Bound(g, i).uid = Binding(i)
        <5>1. In("bound", g, i)
          BY <4>2 DEF In, Bound
        <5>2. \A c \in Caller : ~Carries(c, i)
          BY <5>1, Kinds DEF Inv, CallInv, MovingCall, Carries
        <5> QED  BY <3>3, <5>1, <5>2 DEF Shown, Rests, Bound
      <4> QED  BY <3>2, <4>1, <4>2
    <3>6. Only(disk', i, since[i].last) /\ Only(Own', i, since[i].now)
          /\ Only(dump'.tmp, i, since[i].now)
      BY <1>1, <2>1, <2>2, <3>1 DEF Values
    <3> QED
      BY <1>1, <2>1, <2>2, <2>3, <2>4, <3>4, <3>5, <3>6, RunningKeeps
  <2> QED  BY <2>3, <2>4, <2>5 DEF KnownInv
<1>6. ASSUME dump.todo = {}, dump.kind = "bound", dump' = [dump EXCEPT !.pc = "rename"]
      PROVE  KnownInv'
  <2>1. /\ dump'.pc = "rename" /\ dump'.kind = "bound" /\ dump'.number = dump.number
        /\ dump'.old = dump.old /\ dump'.todo = {} /\ dump'.got = dump.got
        /\ dump'.tmp = dump.tmp /\ dump' # NoDump
        /\ dump' = [pc |-> dump'.pc, kind |-> dump'.kind, number |-> dump'.number,
                    old |-> dump'.old, todo |-> dump'.todo, got |-> dump'.got,
                    tmp |-> dump'.tmp]
    BY <1>1, <1>2, <1>6 DEF NoDump
  <2>2. Own' = Own /\ ~Reading' /\ Reading
    BY <1>1, <1>6, <2>1 DEF Own, Reading
  <2>3. DumpTypes'
    BY <1>1, <1>3, <2>1, Kinds DEF DumpTypes
  <2>4. FilesInv'
    BY <1>1, <1>6, <2>1 DEF FilesInv
  <2>5. ASSUME NEW i \in Id PROVE Values(i)' /\ Keeps(i)'
    <3>1. Values(i) /\ Keeps(i)
      BY DEF KnownInv
    <3>2. ~since[i].moved /\ NoUid \notin since[i].now => Has(dump'.tmp, i)
      BY <1>6, <2>1, <2>2, <3>1 DEF Keeps
    <3>3. Only(disk', i, since[i].last) /\ Only(Own', i, since[i].now)
          /\ Only(dump'.tmp, i, since[i].now)
      BY <1>1, <2>1, <2>2, <3>1 DEF Values
    <3> QED
      BY <1>1, <2>1, <2>2, <2>3, <2>4, <3>2, <3>3, RunningKeeps
  <2> QED  BY <2>3, <2>4, <2>5 DEF KnownInv
<1> QED
  <2>1. \/ \E h \in dump.todo :
            /\ Present(h) \subseteq dump.got
            /\ dump' = [dump EXCEPT !.todo = @ \ {h}, !.got = {}]
        \/ dump.todo = {} /\ dump' = IF dump.kind = "seen"
                THEN [dump EXCEPT !.kind = "bound", !.todo = container["bound"]]
                ELSE [dump EXCEPT !.pc = "rename"]
    BY Zenon DEF DumpGoesOn
  <2> QED  BY <1>1, <1>4, <1>5, <1>6, <2>1 DEF Kind

(* A file that close() did not write the last line of keeps its name, and   *)
(* of each user who is still in it the user id.                            *)
LEMMA ClosedIs ==
    ASSUME NEW files, Typed(files), NEW f \in files, NEW g \in Closed(f)
    PROVE  /\ g.kind = f.kind /\ g.period = f.period /\ g.number = f.number
           /\ Typed({g})
           /\ f.kind = "bound" => \A i \in Id :
                /\ g.users[i] # None <=> f.users[i] # None
                /\ f.users[i] # None => g.users[i].uid = f.users[i].uid
<1>1. File(f) /\ (f.kind = "bound" => f \in BoundFile)
  BY DEF Typed
<1>2. CASE g = f
  BY <1>1, <1>2 DEF Typed
<1>3. CASE g = [f EXCEPT !.torn = TRUE]
  <2>1. /\ g.kind = f.kind /\ g.period = f.period /\ g.number = f.number
        /\ g.users = f.users /\ File(g)
    BY <1>1, <1>3 DEF File
  <2>2. f.kind = "bound" => g \in BoundFile
    BY <1>1, <1>3 DEF BoundFile
  <2> QED  BY <2>1, <2>2 DEF Typed
<1>4. ASSUME NEW i \in Id, f.users[i] # None, NEW user \in Cut(f.kind, f.users[i]),
             g = [f EXCEPT !.users[i] = user]
      PROVE  /\ g.kind = f.kind /\ g.period = f.period /\ g.number = f.number
             /\ Typed({g})
             /\ f.kind = "bound" => \A j \in Id :
                  /\ g.users[j] # None <=> f.users[j] # None
                  /\ f.users[j] # None => g.users[j].uid = f.users[j].uid
  <2>1. f.kind # "seen"
    BY <1>4 DEF Cut
  <2>2. /\ g.kind = f.kind /\ g.period = f.period /\ g.number = f.number
        /\ g.torn = f.torn /\ g.users = [f.users EXCEPT ![i] = user] /\ File(g)
    BY <1>1, <1>4 DEF File
  <2>3. CASE f.kind = "bound"
    <3>1. /\ f \in BoundFile /\ f.users \in [Id -> BoundUser \cup {None}]
          /\ f.users[i] \in BoundUser
      BY <1>1, <1>4, <2>3 DEF BoundFile
    <3>2. user \in BoundUser /\ user.uid = f.users[i].uid
      <4> DEFINE all == f.users[i]
      <4>1. \/ user = [all EXCEPT !.cookie = FALSE, !.bad = 0, !.day = 0]
            \/ \E d \in 0 .. all.day - 1 : user = [all EXCEPT !.day = d]
        BY <1>4, <2>1 DEF Cut
      <4>2. all \in BoundUser
        BY <3>1
      <4>3. 0 \in 0 .. CountSize - 1
        BY BindAssumption
      <4> HIDE DEF all
      <4>4. ASSUME user = [all EXCEPT !.cookie = FALSE, !.bad = 0, !.day = 0]
            PROVE  user \in BoundUser /\ user.uid = all.uid
        <5>1. user = [uid |-> all.uid, cookie |-> FALSE, bad |-> 0, day |-> 0]
          BY <4>2, <4>4 DEF BoundUser
        <5>2. all.uid \in Uid
          BY <4>2 DEF BoundUser
        <5> QED  BY <4>3, <5>1, <5>2 DEF BoundUser
      <4>5. ASSUME NEW d \in 0 .. all.day - 1, user = [all EXCEPT !.day = d]
            PROVE  user \in BoundUser /\ user.uid = all.uid
        <5>1. d \in Nat
          BY <4>2 DEF BoundUser
        <5>2. user = [uid |-> all.uid, cookie |-> all.cookie, bad |-> all.bad, day |-> d]
          BY <4>2, <4>5 DEF BoundUser
        <5>3. all.uid \in Uid /\ all.cookie \in BOOLEAN /\ all.bad \in 0 .. CountSize - 1
          BY <4>2 DEF BoundUser
        <5> QED  BY <5>1, <5>2, <5>3 DEF BoundUser
      <4>6. user \in BoundUser /\ user.uid = all.uid
        <5>1. CASE user = [all EXCEPT !.cookie = FALSE, !.bad = 0, !.day = 0]
          BY <4>3, <4>4, <5>1
        <5> QED  BY <4>1, <4>5, <5>1
      <4> QED  BY <4>6 DEF all
    <3>3. user # None /\ None \notin BoundUser
      BY <3>2, BindAssumption
    <3>4. g.users \in [Id -> BoundUser \cup {None}]
      BY <2>2, <3>1, <3>2
    <3>5. g \in BoundFile
      BY <2>2, <3>1, <3>4 DEF BoundFile, File
    <3>6. \A j \in Id : g.users[j] = IF j = i THEN user ELSE f.users[j]
      BY <2>2, <3>1
    <3> QED  BY <1>4, <2>2, <3>2, <3>3, <3>5, <3>6 DEF Typed
  <2>4. CASE f.kind # "bound"
    BY <2>2, <2>4 DEF Typed
  <2> QED  BY <2>3, <2>4
<1>5. \/ g = f \/ g = [f EXCEPT !.torn = TRUE]
      \/ \E i \in Id : /\ f.users[i] # None
                       /\ \E user \in Cut(f.kind, f.users[i]) :
                            g = [f EXCEPT !.users[i] = user]
  <2>1. CASE g \in {f, [f EXCEPT !.torn = TRUE]}
    BY <2>1
  <2>2. CASE g \in UNION {{[f EXCEPT !.users[i] = user] : user \in Cut(f.kind, f.users[i])} :
                              i \in {j \in Id : f.users[j] # None}}
    <3>1. PICK i \in {j \in Id : f.users[j] # None} :
            g \in {[f EXCEPT !.users[i] = user] : user \in Cut(f.kind, f.users[i])}
      BY <2>2
    <3> QED  BY <3>1
  <2> QED  BY <2>1, <2>2 DEF Closed
<1> QED  BY <1>2, <1>3, <1>4, <1>5

LEMMA RenamesKeepsKnown ==
    ASSUME Inv, KnownInv, UNCHANGED vars, Noted, DumpRenames, dump # NoDump
    PROVE  KnownInv'
<1>1. /\ dump.pc = "rename" /\ DumpTypes /\ FilesInv
      /\ dump.kind \in Kind /\ dump.number \in Numbers /\ Typed(dump.tmp)
  BY DEF DumpRenames, KnownInv, DumpTypes
<1>2. dump = [pc |-> dump.pc, kind |-> dump.kind, number |-> dump.number,
              old |-> dump.old, todo |-> dump.todo, got |-> dump.got, tmp |-> dump.tmp]
  BY <1>1 DEF DumpTypes
<1>3. \A i \in Id : since'[i].moved \in BOOLEAN /\ since'[i].lastMoved \in BOOLEAN
  BY <1>1, NotedOf DEF DumpTypes
<1>11. PICK f \in dump.tmp : \E g \in Closed(f) :
        disk' = disk \cup {g} /\ dump' = [dump EXCEPT !.tmp = @ \ {f}]
  BY DEF DumpRenames
<1>4. PICK g \in Closed(f) : disk' = disk \cup {g} /\ dump' = [dump EXCEPT !.tmp = @ \ {f}]
  BY <1>11
<1>10. /\ g.kind = f.kind /\ g.number = f.number /\ Typed({g})
       /\ f.kind = "bound" => \A i \in Id :
            /\ g.users[i] # None <=> f.users[i] # None
            /\ f.users[i] # None => g.users[i].uid = f.users[i].uid
  BY <1>1, ClosedIs
<1>5. /\ dump'.pc = "rename" /\ dump'.kind = dump.kind /\ dump'.number = dump.number
      /\ dump'.old = dump.old /\ dump'.todo = dump.todo /\ dump'.got = dump.got
      /\ dump'.tmp = dump.tmp \ {f} /\ dump' # NoDump
      /\ dump' = [pc |-> dump'.pc, kind |-> dump'.kind, number |-> dump'.number,
                  old |-> dump'.old, todo |-> dump'.todo, got |-> dump'.got,
                  tmp |-> dump'.tmp]
  BY <1>1, <1>2, <1>4 DEF NoDump
<1>6. f.number = dump.number /\ Own' = Own \cup {g} /\ ~Reading'
  BY <1>1, <1>4, <1>5, <1>10 DEF FilesInv, Own, Reading
<1>7. DumpTypes'
  <2>1. IsFiniteSet(disk') /\ Typed(disk') /\ Typed(dump'.tmp)
    BY <1>1, <1>4, <1>5, <1>10, FS_AddElement DEF DumpTypes, Typed
  <2> QED  BY <1>1, <1>3, <1>5, <2>1 DEF DumpTypes
<1>8. FilesInv'
  BY <1>1, <1>4, <1>5, <1>6, <1>10 DEF FilesInv, Unique
<1>9. ASSUME NEW i \in Id PROVE Values(i)' /\ Keeps(i)'
  <2>1. Values(i) /\ Keeps(i)
    BY DEF KnownInv
  <2>2. /\ since[i].now \subseteq since[i].last /\ Only(disk, i, since[i].last)
        /\ Only(dump.tmp, i, since[i].now) /\ Only(Own, i, since[i].now)
    BY <2>1 DEF Values
  <2>3. Only(disk', i, since[i].last) /\ Only(Own', i, since[i].now)
        /\ Only(dump'.tmp, i, since[i].now)
    BY <1>4, <1>5, <1>6, <1>10, <2>2 DEF Only
  <2>4. Has(disk, i) => Has(disk', i)
    BY <1>4 DEF Has
  <2>5. ~since[i].moved /\ NoUid \notin since[i].now => Has(dump'.tmp, i) \/ Has(Own', i)
    BY <1>1, <1>5, <1>6, <1>10, <2>1 DEF Keeps, Has
  <2> QED
    BY <1>5, <1>6, <1>7, <1>8, <2>3, <2>4, <2>5, RunningKeeps
<1> QED  BY <1>7, <1>8, <1>9 DEF KnownInv

LEMMA DeletesKeepsKnown ==
    ASSUME Inv, KnownInv, UNCHANGED vars, Noted, DumpDeletes, dump # NoDump
    PROVE  KnownInv'
<1>1. /\ dump.pc = "rename" /\ dump.tmp = {} /\ DumpTypes /\ FilesInv
      /\ dump.kind \in Kind /\ dump.number \in Numbers
  BY DEF DumpDeletes, Deletable, KnownInv, DumpTypes
<1>2. dump = [pc |-> dump.pc, kind |-> dump.kind, number |-> dump.number,
              old |-> dump.old, todo |-> dump.todo, got |-> dump.got, tmp |-> dump.tmp]
  BY <1>1 DEF DumpTypes
<1>3. \A i \in Id : since'[i].moved \in BOOLEAN /\ since'[i].lastMoved \in BOOLEAN
  BY <1>1, NotedOf DEF DumpTypes
<1>4. PICK f \in dump.old :
        disk' = disk \ {f} /\ dump' = [dump EXCEPT !.old = @ \ {f}]
  BY DEF DumpDeletes
<1>5. /\ dump'.pc = "rename" /\ dump'.kind = dump.kind /\ dump'.number = dump.number
      /\ dump'.old = dump.old \ {f} /\ dump'.todo = dump.todo /\ dump'.got = dump.got
      /\ dump'.tmp = {} /\ dump' # NoDump
      /\ dump' = [pc |-> dump'.pc, kind |-> dump'.kind, number |-> dump'.number,
                  old |-> dump'.old, todo |-> dump'.todo, got |-> dump'.got,
                  tmp |-> dump'.tmp]
  BY <1>1, <1>2, <1>4 DEF NoDump
<1>6. f.number # dump.number /\ Own' = Own /\ ~Reading'
  BY <1>1, <1>4, <1>5 DEF FilesInv, Own, Reading
<1>7. DumpTypes'
  <2>1. IsFiniteSet(disk') /\ Typed(disk') /\ Typed(dump'.tmp)
    BY <1>1, <1>4, <1>5, FS_RemoveElement DEF DumpTypes, Typed
  <2> QED  BY <1>1, <1>3, <1>5, <2>1 DEF DumpTypes
<1>8. FilesInv'
  BY <1>1, <1>4, <1>5, <1>6 DEF FilesInv, Unique
<1>9. ASSUME NEW i \in Id PROVE Values(i)' /\ Keeps(i)'
  <2>1. Values(i) /\ Keeps(i)
    BY DEF KnownInv
  <2>2. /\ Only(disk, i, since[i].last) /\ Only(Own, i, since[i].now)
    BY <2>1 DEF Values
  <2>3. Only(disk', i, since[i].last) /\ Only(Own', i, since[i].now)
        /\ Only(dump'.tmp, i, since[i].now)
    BY <1>4, <1>5, <1>6, <2>2 DEF Only
  <2>4. ~since[i].moved /\ NoUid \notin since[i].now => Has(Own', i)
    BY <1>1, <1>6, <2>1 DEF Keeps, Has
  <2>5. Has(Own', i) => Has(disk', i)
    BY DEF Has, Own
  <2>6. \/ Has(disk, i) => Has(disk', i)
        \/ /\ disk' \subseteq disk /\ disk' # disk
           /\ ~since[i].moved /\ NoUid \notin since[i].now => Has(disk', i)
    BY <1>4, <2>4, <2>5
  <2> QED
    BY <1>5, <1>6, <1>7, <1>8, <2>3, <2>4, <2>6, RunningKeeps
<1> QED  BY <1>7, <1>8, <1>9 DEF KnownInv

(* A dump that has ended, or was cut off.                                  *)
LEMMA EndsKeepsKnown ==
    ASSUME Inv, KnownInv, UNCHANGED vars, Noted, dump # NoDump, dump' = NoDump, disk' = disk
    PROVE  KnownInv'
<1>1. DumpTypes /\ FilesInv
  BY DEF KnownInv
<1>2. \A i \in Id : since'[i].moved \in BOOLEAN /\ since'[i].lastMoved \in BOOLEAN
  BY <1>1, NotedOf DEF DumpTypes
<1>3. DumpTypes' /\ FilesInv'
  BY <1>1, <1>2 DEF DumpTypes, FilesInv
<1>4. ASSUME NEW i \in Id PROVE Values(i)' /\ Keeps(i)'
  <2>1. /\ Values(i) /\ Keeps(i)
        /\ since[i].moved \in BOOLEAN /\ since[i].lastMoved \in BOOLEAN
    BY <1>1 DEF KnownInv, DumpTypes
  <2>2. ~Reading'
    BY DEF Reading
  <2>3. Only(disk, i, since'[i].last) /\
        (NoUid \in since'[i].last \/ since'[i].lastMoved \/ Has(disk, i))
    <3>1. CASE /\ since'[i].last = since[i].last \cup {Binding(i)'}
               /\ since[i].lastMoved => since'[i].lastMoved
      BY <2>1, <3>1 DEF Values, Keeps, Only
    <3>2. CASE /\ dump.pc = "rename" /\ dump.tmp = {} /\ dump.old = {}
               /\ since'[i].last = since[i].now \cup {Binding(i)'}
               /\ since[i].moved => since'[i].lastMoved
      <4>1. disk = Own
        BY <1>1, <3>2 DEF FilesInv, Own
      <4>2. Only(disk, i, since'[i].last)
        BY <2>1, <3>2, <4>1 DEF Values, Only
      <4>3. NoUid \in since[i].now \/ since[i].moved \/ Has(disk, i)
        BY <2>1, <3>2, <4>1 DEF Keeps, Has
      <4> QED  BY <3>2, <4>2, <4>3
    <3> QED  BY <2>1, <3>1, <3>2, NotedOf
  <2>4. Values(i)'
    <3>1. Binding(i)' \in since'[i].last
      BY <2>1, NotedOf
    <3> QED  BY <2>2, <2>3, <3>1 DEF Values, Only
  <2>5. Keeps(i)'
    <3>1. (NoUid \in since[i].last \/ since[i].lastMoved \/ Has(disk, i))'
      BY <2>3 DEF Has
    <3> QED  BY <2>2, <3>1 DEF Keeps
  <2> QED  BY <2>4, <2>5
<1> QED  BY <1>3, <1>4 DEF KnownInv

LEMMA DumpKeepsKnown ==
    ASSUME Inv, KnownInv, UNCHANGED vars, Noted, DumpStep
    PROVE  KnownInv'
<1>1. CASE dump = NoDump
  <2>1. DumpBegins
    BY <1>1 DEF DumpStep, DumpReads, DumpGoesOn, DumpRenames, DumpDeletes, Deletable,
                DumpEnds, DumpFails, NoDump
  <2> QED  BY <2>1, BeginsKeepsKnown
<1>2. CASE dump # NoDump
  <2>1. ~DumpBegins
    BY <1>2 DEF DumpBegins
  <2>2. CASE DumpReads
    BY <1>2, <2>2, ReadsKeepsKnown
  <2>3. CASE DumpGoesOn
    BY <1>2, <2>3, GoesOnKeepsKnown
  <2>4. CASE DumpRenames
    BY <1>2, <2>4, RenamesKeepsKnown
  <2>5. CASE DumpDeletes
    BY <1>2, <2>5, DeletesKeepsKnown
  <2>6. CASE DumpEnds
    BY <1>2, <2>6, EndsKeepsKnown DEF DumpEnds
  <2>7. CASE DumpFails
    BY <1>2, <2>7, EndsKeepsKnown DEF DumpFails
  <2> QED  BY <2>1, <2>2, <2>3, <2>4, <2>5, <2>6, <2>7 DEF DumpStep
<1> QED  BY <1>1, <1>2

LEMMA InitKnown == DumpInit => KnownInv
<1> SUFFICES ASSUME DumpInit PROVE KnownInv
  OBVIOUS
<1>1. /\ disk = {} /\ dump = NoDump
      /\ \A i \in Id : since[i] = [last |-> {NoUid}, now |-> {}, moved |-> FALSE,
                                   lastMoved |-> FALSE]
  BY DEF DumpInit
<1>2. ASSUME NEW i \in Id PROVE Binding(i) = NoUid
  <2>1. Directory!Init
    BY InitShown
  <2>2. [j \in Id |-> Binding(j)] = [j \in Id |-> NoUid]
    BY <2>1 DEF Directory!Init
  <2>3. [j \in Id |-> Binding(j)][i] = [j \in Id |-> NoUid][i]
    BY <2>2
  <2> QED  BY <2>3
<1>3. DumpTypes /\ FilesInv
  <2>1. IsFiniteSet({})
    BY FS_EmptySet
  <2>2. \A i \in Id : since[i].moved = FALSE /\ since[i].lastMoved = FALSE
    BY <1>1
  <2> QED  BY <1>1, <2>1, <2>2 DEF DumpTypes, FilesInv, Typed
<1>4. ASSUME NEW i \in Id PROVE Values(i) /\ Keeps(i)
  BY <1>1, <1>2 DEF Values, Keeps, Only, Reading
<1> QED  BY <1>3, <1>4 DEF KnownInv

LEMMA StutterKeepsKnown ==
    ASSUME KnownInv, UNCHANGED allVars PROVE KnownInv'
<1>1. /\ UNCHANGED vars /\ disk' = disk /\ dump' = dump /\ since' = since
      /\ holders' = holders /\ container' = container
  BY DEF allVars, dumpVars, vars
<1>2. \A i \in Id : Binding(i)' = Binding(i) /\ (Moving(i)' <=> Moving(i))
  BY <1>1, ShownSame
<1>3. DumpTypes' /\ FilesInv'
  BY <1>1 DEF KnownInv, DumpTypes, FilesInv
<1>4. (Reading' <=> Reading) /\ Own' = Own
  BY <1>1 DEF Reading, Own
<1>5. ASSUME NEW i \in Id PROVE Values(i)' /\ Keeps(i)'
  <2>1. Values(i) /\ Keeps(i)
    BY DEF KnownInv
  <2>2. Values(i)'
    BY <1>1, <1>2, <1>4, <2>1 DEF Values, Bound
  <2>3. Keeps(i)'
    BY <1>1, <1>2, <1>4, <2>1 DEF Keeps, Bound, Has
  <2> QED  BY <2>2, <2>3
<1> QED  BY <1>3, <1>5 DEF KnownInv

LEMMA LoadInvKept == LoadInv /\ [DumpNext]_allVars => LoadInv'
<1> SUFFICES ASSUME LoadInv, [DumpNext]_allVars PROVE LoadInv'
  OBVIOUS
<1>1. DumpInv'
  BY DumpNextKeeps DEF LoadInv
<1>2. ASSUME crashes' = 0 PROVE KnownInv'
  <2>1. CASE UNCHANGED allVars
    BY <1>2, <2>1, StutterKeepsKnown DEF LoadInv, allVars, dumpVars
  <2>2. CASE DumpNext
    <3>1. ~Crash
      BY <1>2, CrashCounts DEF LoadInv, DumpInv
    <3>2. DumpStep => crashes' = crashes
      BY Zenon DEF DumpStep, DumpBegins, DumpReads, DumpGoesOn, DumpRenames, DumpDeletes,
             DumpEnds, DumpFails
    <3>3. /\ Noted
          /\ \/ Next /\ UNCHANGED <<disk, dump, crashes>>
             \/ DumpStep /\ UNCHANGED vars
      BY <2>2, <3>1 DEF DumpNext
    <3>4. Inv /\ KnownInv
      BY <1>2, <3>2, <3>3 DEF LoadInv, DumpInv
    <3>5. CASE Next /\ UNCHANGED <<disk, dump, crashes>>
      BY <3>3, <3>4, <3>5, CallsKeepKnown
    <3>6. CASE DumpStep /\ UNCHANGED vars
      BY <3>3, <3>4, <3>6, DumpKeepsKnown
    <3> QED  BY <3>3, <3>5, <3>6
  <2> QED  BY <2>1, <2>2
<1> QED  BY <1>1, <1>2 DEF LoadInv

-----------------------------------------------------------------------------
(* What is loaded.  Of a period, the users of the files are loaded, and    *)
(* the periods are put in order: the n-th holder is the one of the period  *)
(* that n periods do not exceed.                                           *)

Rank(p) == Cardinality({r \in Periods("bound") : r <= p})

LEMMA RankOrders ==
    ASSUME Typed(disk), IsFiniteSet(disk),
           NEW p \in Periods("bound"), NEW q \in Periods("bound")
    PROVE  /\ Periods("bound") \subseteq Nat
           /\ Rank(p) \in 1 .. Cardinality(Periods("bound"))
           /\ Cardinality(Periods("bound")) \in Nat
           /\ p < q => Rank(p) < Rank(q)
<1> DEFINE P == Periods("bound")
           files == {g \in disk : g.kind = "bound"}
<1>1. P \subseteq Nat
  BY DEF Periods, Typed, BoundFile
<1>2. IsFiniteSet(P)
  <2> DEFINE f == [g \in files |-> g.period]
  <2>1. f \in Surjection(files, P)
    BY DEF Surjection, Periods
  <2>2. IsFiniteSet(files)
    BY FS_Subset
  <2> HIDE DEF f, files, P
  <2> QED  BY <2>1, <2>2, FS_Surjection
<1> HIDE DEF P
<1>3. ASSUME NEW x \in P
      PROVE  /\ IsFiniteSet({r \in P : r <= x}) /\ Rank(x) \in 1 .. Cardinality(P)
             /\ Cardinality({r \in P : r <= x}) = Rank(x)
  <2>1. /\ IsFiniteSet({r \in P : r <= x})
        /\ Cardinality({r \in P : r <= x}) <= Cardinality(P)
    BY <1>2, FS_Subset
  <2>2. {r \in P : r <= x} # {}
    BY <1>1
  <2>3. /\ Cardinality({r \in P : r <= x}) \in Nat /\ Cardinality({r \in P : r <= x}) # 0
        /\ Cardinality(P) \in Nat
    <3>1. PICK below : below = {r \in P : r <= x}
      OBVIOUS
    <3>2. Cardinality(below) \in Nat /\ Cardinality(P) \in Nat
      BY <1>2, <2>1, <3>1, FS_CardinalityType
    <3>3. Cardinality(below) # 0
      BY <2>1, <2>2, <3>1, FS_EmptySet
    <3> QED  BY <3>1, <3>2, <3>3
  <2>4. Cardinality({r \in P : r <= x}) = Rank(x)
    BY DEF Rank, P
  <2> QED  BY <2>1, <2>3, <2>4
<1>4. ASSUME p < q PROVE Rank(p) < Rank(q)
  <2>1. p \in P /\ q \in P /\ p \in Nat /\ q \in Nat
    BY <1>1 DEF P
  <2>2. {r \in P : r <= p} \in SUBSET {r \in P : r <= q}
    <3>1. ASSUME NEW r \in P, r <= p PROVE r <= q
      BY <1>1, <1>4, <2>1, <3>1
    <3> QED  BY <3>1
  <2>3. q \in {r \in P : r <= q} /\ q \notin {r \in P : r <= p}
    BY <1>1, <1>4, <2>1
  <2>4. /\ Cardinality({r \in P : r <= p}) <= Cardinality({r \in P : r <= q})
        /\ Cardinality({r \in P : r <= p}) # Cardinality({r \in P : r <= q})
    BY <1>3, <2>1, <2>2, <2>3, FS_Subset
  <2> QED  BY <1>3, <2>1, <2>4
<1>5. p \in P /\ Cardinality(P) \in Nat
  BY <1>2, FS_CardinalityType DEF P
<1> QED
  BY <1>1, <1>3, <1>4, <1>5 DEF P

LEMMA LoadedUserIs ==
    ASSUME Typed(disk), NEW p, NEW i \in Id
    PROVE  /\ LoadedUser("bound", p, i) # None =>
                \E f \in disk : /\ f.kind = "bound" /\ f.period = p /\ f.users[i] # None
                                /\ LoadedUser("bound", p, i) = f.users[i]
           /\ \A f \in disk : f.kind = "bound" /\ f.period = p /\ f.users[i] # None =>
                LoadedUser("bound", p, i) # None
<1> DEFINE saved == {f \in disk : f.kind = "bound" /\ f.period = p /\ f.users[i] # None}
<1>1. CASE saved = {}
  BY <1>1 DEF LoadedUser
<1>2. CASE saved # {}
  <2>1. {f.number : f \in saved} \in SUBSET Nat /\ {f.number : f \in saved} # {}
    BY <1>2, DumpAssumption DEF Typed, BoundFile
  <2>2. PICK n \in {f.number : f \in saved} : \A m \in {f.number : f \in saved} : n <= m
    BY <2>1, Smallest
  <2>3. \E f \in saved : \A g \in saved : f.number <= g.number
    BY <2>2
  <2>4. PICK f \in saved : f = CHOOSE e \in saved : \A g \in saved : e.number <= g.number
    BY <2>3
  <2>5. LoadedUser("bound", p, i) = f.users[i]
    BY <1>2, <2>4 DEF LoadedUser
  <2> QED  BY <2>4, <2>5
<1> QED  BY <1>1, <1>2

LEMMA LoadedHolder ==
    ASSUME Typed(disk), IsFiniteSet(disk), NEW p \in Periods("bound")
    PROVE  /\ DOMAIN Loaded("bound") = 1 .. Cardinality(Periods("bound"))
           /\ Rank(p) \in DOMAIN Loaded("bound")
           /\ Loaded("bound")[Rank(p)].period = p
           /\ \A i \in Id : Loaded("bound")[Rank(p)].users[i] = LoadedUser("bound", p, i)
<1>1. DOMAIN Loaded("bound") = 1 .. Cardinality(Periods("bound"))
  BY DEF Loaded
<1>2. PICK n : n = Rank(p) /\ n \in DOMAIN Loaded("bound")
  BY <1>1, RankOrders
<1>3. Nth("bound", n) = p
  <2>1. ASSUME NEW q \in Periods("bound"), Rank(q) = n PROVE q = p
    <3>1. p \in Nat /\ q \in Nat /\ ~(p < q) /\ ~(q < p)
      BY <1>2, <2>1, RankOrders
    <3> QED  BY <3>1
  <2> QED  BY <1>2, <2>1 DEF Rank, Nth
<1>4. Loaded("bound")[n] = [period |-> p,
                             users |-> [i \in Id |-> LoadedUser("bound", p, i)]]
  BY <1>1, <1>2, <1>3 DEF Loaded
<1> QED  BY <1>1, <1>2, <1>4

(* Each holder that has a user of i is the one of a period of the files.   *)
LEMMA LoadedFrom ==
    ASSUME Typed(disk), NEW n \in DOMAIN Loaded("bound"), NEW i \in Id,
           Loaded("bound")[n].users[i] # None
    PROVE  \E f \in disk :
                /\ f.kind = "bound" /\ f.users[i] # None
                /\ Loaded("bound")[n].users[i] = f.users[i]
                /\ Loaded("bound")[n].period = f.period
                /\ f.period \in Periods("bound")
<1>1. PICK p : Loaded("bound")[n] = [period |-> p,
                                     users |-> [j \in Id |-> LoadedUser("bound", p, j)]]
  BY DEF Loaded
<1>2. LoadedUser("bound", p, i) # None /\ Loaded("bound")[n].users[i] = LoadedUser("bound", p, i)
      /\ Loaded("bound")[n].period = p
  BY <1>1
<1>3. PICK f \in disk : /\ f.kind = "bound" /\ f.period = p /\ f.users[i] # None
                        /\ LoadedUser("bound", p, i) = f.users[i]
  BY <1>2, LoadedUserIs
<1> QED  BY <1>2, <1>3 DEF Periods

(* Among the holders that have a user of i there is a newest one.          *)
LEMMA NewestLoaded ==
    ASSUME Typed(disk), IsFiniteSet(disk), NEW i \in Id, NEW in,
           in = {n \in DOMAIN Loaded("bound") : Loaded("bound")[n].users[i] # None},
           in # {}
    PROVE  \E h \in in : \A g \in in :
                Loaded("bound")[g].period <= Loaded("bound")[h].period
<1> DEFINE period(n) == Loaded("bound")[n].period
           N == Cardinality(Periods("bound"))
           above == {N - Rank(period(n)) : n \in in}
<1>1. \A n \in in : period(n) \in Periods("bound")
  BY LoadedFrom
<1>2. \A n \in in : /\ Rank(period(n)) \in 1 .. N /\ period(n) \in Nat /\ N \in Nat
  BY <1>1, RankOrders
<1>3. above \in SUBSET Nat /\ above # {}
  BY <1>2
<1>4. PICK m \in above : \A a \in above : m <= a
  BY <1>3, Smallest
<1>5. PICK h \in in : m = N - Rank(period(h))
  BY <1>4
<1>6. ASSUME NEW g \in in PROVE period(g) <= period(h)
  <2>1. N - Rank(period(h)) <= N - Rank(period(g))
    BY <1>4, <1>5
  <2>2. ~(Rank(period(h)) < Rank(period(g)))
    BY <1>2, <2>1
  <2>3. ~(period(h) < period(g))
    BY <1>1, <2>2, RankOrders
  <2> QED  BY <1>2, <2>3
<1> QED  BY <1>6

-----------------------------------------------------------------------------
(* A crash.                                                                *)

LEMMA CrashLoadsKnown ==
    ASSUME KnownInv, Crash, NEW i \in Id
    PROVE  \/ Binding(i)' \in since[i].last
           \/ Binding(i)' = NoUid /\ (since[i].lastMoved \/ ~ready')
<1> SUFFICES ASSUME ready'
             PROVE  \/ Binding(i)' \in since[i].last
                    \/ Binding(i)' = NoUid /\ since[i].lastMoved
  <2>1. CASE ~ready'
    <3>1. /\ caller' = [c \in Caller |-> Idle]
          /\ holders'["bound"] = <<>> /\ container'["bound"] = DOMAIN <<>>
      BY <2>1, Kinds DEF Crash
    <3>2. Underway(i)' = {}
      BY <3>1 DEF Underway, Idle
    <3>3. With("bound", container["bound"], i)' = {}
      BY <3>1 DEF With
    <3> QED  BY <2>1, <3>2, <3>3 DEF Binding, Found
  <2> QED  BY <2>1
<1>1. /\ Typed(disk) /\ IsFiniteSet(disk) /\ Values(i) /\ Keeps(i)
  BY DEF KnownInv, DumpTypes
<1>2. PICK loaded : loaded = Loaded("bound")
  OBVIOUS
<1>3. /\ holders'["bound"] = loaded /\ container'["bound"] = DOMAIN loaded
      /\ caller' = [c \in Caller |-> Idle]
  BY <1>2, Kinds DEF Crash
<1>4. Underway(i)' = {}
  BY <1>3 DEF Underway, Idle
<1>5. PICK in : in = {n \in DOMAIN loaded : loaded[n].users[i] # None}
  OBVIOUS
<1>6. With("bound", container["bound"], i)' = in
  BY <1>3, <1>5 DEF With
<1>7. CASE in = {}
  <2>1. Binding(i)' = NoUid
    BY <1>4, <1>6, <1>7 DEF Binding, Found
  <2>2. ~Has(disk, i)
    <3> SUFFICES ASSUME NEW f \in disk, f.kind = "bound", f.users[i] # None PROVE FALSE
      BY DEF Has
    <3>1. f.period \in Periods("bound")
      BY DEF Periods
    <3>2. LoadedUser("bound", f.period, i) # None
      BY <1>1, LoadedUserIs
    <3>3. Rank(f.period) \in in
      BY <1>1, <1>2, <1>5, <3>1, <3>2, LoadedHolder
    <3> QED  BY <1>7, <3>3
  <2> QED  BY <1>1, <2>1, <2>2 DEF Keeps
<1>8. CASE in # {}
  <2>1. \E h \in in : \A g \in in : loaded[g].period <= loaded[h].period
    BY <1>1, <1>2, <1>5, <1>8, NewestLoaded
  <2>2. PICK h \in in : h = Home("bound", i)'
    BY <1>3, <1>6, <2>1 DEF Home, Newest
  <2>3. Binding(i)' = loaded[h].users[i].uid
    BY <1>3, <1>4, <1>6, <1>8, <2>2 DEF Binding, Found, Info
  <2>4. PICK f \in disk : /\ f.kind = "bound" /\ f.users[i] # None
                          /\ loaded[h].users[i] = f.users[i]
    BY <1>1, <1>2, <1>5, <2>2, LoadedFrom
  <2> QED  BY <1>1, <2>3, <2>4 DEF Values, Only
<1> QED  BY <1>7, <1>8

(* Until the first crash, the files and the dump that runs hold what the   *)
(* ids were bound to since the last complete dump began, and the files of  *)
(* the last complete one each id that was not moved since.                 *)
THEOREM LoadInvariant == DumpSpec => []LoadInv
<1>1. DumpInit => LoadInv
  BY InitKnown, InitInv DEF LoadInv, DumpInv, DumpInit
<1> QED
  BY <1>1, LoadInvKept, PTL DEF DumpSpec

(* What the start after the first crash loads for an id is a user that the *)
(* id had since the last complete dump began, or nothing for one that was  *)
(* moved meanwhile (LoadsWhatWasKnown), wherever dumps failed, were cut off *)
(* or lost the last line of a file; or it finds that a line was lost and   *)
(* does not come up. Not so at a second crash: the first start may load two users of an *)
(* id, and a move erases the newer one only (load_bound_users_,            *)
(* get_user_id).                                                           *)
THEOREM FirstStartLoadsWhatWasKnown ==
    ASSUME MaxCrashes <= 1
    PROVE  DumpSpec => LoadsWhatWasKnown
<1>1. ASSUME LoadInv, [DumpNext]_allVars
      PROVE  [Crash => \A i \in Id :
                \/ Binding(i)' \in since[i].last
                \/ Binding(i)' = NoUid /\ (since[i].lastMoved \/ ~ready')]_allVars
  <2> SUFFICES ASSUME Crash, NEW i \in Id
               PROVE  \/ Binding(i)' \in since[i].last
                      \/ Binding(i)' = NoUid /\ (since[i].lastMoved \/ ~ready')
    OBVIOUS
  <2>1. crashes = 0
    BY <1>1, DumpAssumption DEF Crash, LoadInv, DumpInv
  <2> QED  BY <1>1, <2>1, CrashLoadsKnown DEF LoadInv
<1> QED
  BY <1>1, LoadInvariant, PTL DEF DumpSpec, LoadsWhatWasKnown

-----------------------------------------------------------------------------
(* The table of a holder, alone. A key that is due and not fetched yet     *)
(* lies at the position or after it: the position moves by the actual ones *)
(* of the slots read, at most by their number.                             *)

DueIsAhead ==
    fetcher.pc = "fetching" =>
        \A k \in fetcher.due \ fetcher.got :
            \E i \in DOMAIN slots : fetcher.position <= i /\ slots[i] = k

TableInv == TableTypeOK /\ DueIsAhead /\ FetchFindsAll

(* What is read of n slots are some of them, and no more than n.           *)
LEMMA ActualIsRead ==
    ASSUME TableTypeOK, NEW n \in Nat
    PROVE  /\ Actual(n) \subseteq fetcher.position .. fetcher.position + n - 1
           /\ Cardinality(Actual(n)) \in 0 .. n
<1> DEFINE read == fetcher.position .. fetcher.position + n - 1
<1>1. fetcher.position \in Nat
  BY DEF TableTypeOK
<1>2. IsFiniteSet(read) /\ Cardinality(read) = n
  <2>1. fetcher.position + n - 1 \in Int /\ fetcher.position \in Int
    BY <1>1
  <2>2. /\ IsFiniteSet(read)
        /\ Cardinality(read) = IF fetcher.position > fetcher.position + n - 1 THEN 0
                               ELSE (fetcher.position + n - 1) - fetcher.position + 1
    BY <2>1, FS_Interval
  <2> QED  BY <1>1, <2>2
<1>3. Actual(n) \subseteq read
  BY DEF Actual
<1>4. IsFiniteSet(Actual(n)) /\ Cardinality(Actual(n)) <= n
  BY <1>2, <1>3, FS_Subset
<1>5. Cardinality(Actual(n)) \in Nat
  BY <1>4, FS_CardinalityType
<1> QED  BY <1>3, <1>4, <1>5

LEMMA TableInvInit == TableInit => TableInv
  BY DEF TableInit, TableInv, TableTypeOK, DueIsAhead, FetchFindsAll

LEMMA SetKeepsTableInv ==
    ASSUME TableInv, NEW k \in Key, Set(k)
    PROVE  TableInv'
<1> USE DEF TableInv
<1>1. /\ slots' \in Seq(Key \cup {NoKey})
      /\ Len(slots') = Len(slots) + 1
      /\ \A i \in DOMAIN slots : i \in DOMAIN slots' /\ slots'[i] = slots[i]
  BY DEF Set, TableTypeOK
<1>2. TableTypeOK'
  BY <1>1 DEF Set, TableTypeOK
<1>3. DueIsAhead'
  BY <1>1 DEF Set, DueIsAhead
<1> QED  BY <1>2, <1>3 DEF Set, FetchFindsAll

LEMMA EraseKeepsTableInv ==
    ASSUME TableInv, NEW k \in Key, Erase(k)
    PROVE  TableInv'
<1> USE DEF TableInv
<1>1. /\ slots' \in Seq(Key \cup {NoKey})
      /\ Len(slots') = Len(slots)
      /\ DOMAIN slots' = DOMAIN slots
      /\ \A i \in DOMAIN slots : slots[i] # k => slots'[i] = slots[i]
  BY DEF Erase, Erased, TableTypeOK
<1>2. fetcher' = [fetcher EXCEPT !.due = fetcher.due \ {k}]
  BY DEF Erase
<1>3. /\ fetcher'.due = fetcher.due \ {k}
      /\ fetcher'.pc = fetcher.pc /\ fetcher'.position = fetcher.position
      /\ fetcher'.got = fetcher.got
  BY <1>2 DEF TableTypeOK
<1>4. TableTypeOK'
  BY <1>1, <1>2 DEF TableTypeOK
<1>5. DueIsAhead'
  BY <1>1, <1>3 DEF DueIsAhead
<1> QED  BY <1>3, <1>4, <1>5 DEF FetchFindsAll

LEMMA BeginKeepsTableInv ==
    ASSUME TableInv, FetchBegins
    PROVE  TableInv'
<1> USE DEF TableInv
<1>1. /\ fetcher'.pc = "fetching" /\ fetcher'.position = 1
      /\ fetcher'.got = {} /\ fetcher'.due = Live
      /\ slots' = slots
  BY DEF FetchBegins, TableTypeOK
<1>2. Live \subseteq Key
  BY DEF Live, TableTypeOK
<1>3. TableTypeOK'
  <2>1. Len(slots) \in Nat
    BY DEF TableTypeOK
  <2>2. fetcher'.position \in 1 .. Len(slots') + 1
    BY <1>1, <2>1
  <2>3. fetcher' \in [pc : {"idle", "fetching", "ended"}, position : Nat,
                      got : SUBSET Key, due : SUBSET Key]
    BY <1>2 DEF FetchBegins, TableTypeOK
  <2> QED  BY <1>1, <2>2, <2>3 DEF TableTypeOK
<1>4. \A i \in DOMAIN slots : 1 <= i
  BY DEF TableTypeOK
<1>5. DueIsAhead'
  BY <1>1, <1>4 DEF DueIsAhead, Live
<1> QED  BY <1>1, <1>3, <1>5 DEF FetchFindsAll

LEMMA GetKeepsTableInv ==
    ASSUME NoKey \notin Key, TableInv, Get
    PROVE  TableInv'
<1> USE DEF TableInv
<1>1. PICK n \in 0 .. Len(slots) + 1 - fetcher.position :
        /\ Reads(n)
        /\ fetcher' = [fetcher EXCEPT
                !.pc = IF AtEnd(n) THEN "ended" ELSE "fetching",
                !.position = NextPosition(n),
                !.got = @ \cup {slots[i] : i \in Actual(n)}]
  BY DEF Get
<1>2. /\ slots' = slots /\ fetcher.pc = "fetching"
      /\ slots \in Seq(Key \cup {NoKey}) /\ Len(slots) \in Nat
      /\ DOMAIN slots = 1 .. Len(slots)
      /\ fetcher.position \in 1 .. Len(slots) + 1
      /\ n \in Nat /\ fetcher.position + n <= Len(slots) + 1
  BY <1>1 DEF Get, TableTypeOK
<1>3. /\ Actual(n) \subseteq fetcher.position .. fetcher.position + n - 1
      /\ Cardinality(Actual(n)) \in 0 .. n
  BY <1>2, ActualIsRead
<1>4. /\ fetcher'.pc = (IF AtEnd(n) THEN "ended" ELSE "fetching")
      /\ fetcher'.position = fetcher.position + Cardinality(Actual(n))
      /\ fetcher'.got = fetcher.got \cup {slots[i] : i \in Actual(n)}
      /\ fetcher'.due = fetcher.due
  BY <1>1 DEF TableTypeOK, NextPosition
<1>5. \A i \in Actual(n) : i \in DOMAIN slots /\ slots[i] \in Key
  BY <1>2, <1>3 DEF Actual
<1>6. TableTypeOK'
  <2>1. fetcher'.position \in 1 .. Len(slots) + 1
    BY <1>2, <1>3, <1>4
  <2>2. fetcher'.got \in SUBSET Key
    BY <1>4, <1>5 DEF TableTypeOK
  <2>3. fetcher' \in [pc : {"idle", "fetching", "ended"}, position : Nat,
                      got : SUBSET Key, due : SUBSET Key]
    <3>1. /\ NextPosition(n) \in Nat
          /\ fetcher.got \cup {slots[i] : i \in Actual(n)} \in SUBSET Key
      BY <1>2, <1>3, <1>4, <2>2 DEF NextPosition
    <3> QED  BY <1>1, <3>1 DEF TableTypeOK
  <2> QED  BY <1>2, <2>1, <2>3 DEF TableTypeOK
<1>7. ASSUME NEW k \in fetcher.due, k \notin fetcher'.got
      PROVE  \E i \in DOMAIN slots : fetcher.position + n <= i /\ slots[i] = k
  <2>1. PICK i \in DOMAIN slots : fetcher.position <= i /\ slots[i] = k
    BY <1>2, <1>4, <1>7 DEF DueIsAhead
  <2>2. k # NoKey
    BY DEF TableTypeOK
  <2>3. i \notin Actual(n)
    BY <1>4, <1>7, <2>1
  <2>4. fetcher.position + n <= i
    BY <1>2, <2>1, <2>2, <2>3 DEF Actual
  <2> QED  BY <2>1, <2>4
<1>8. DueIsAhead'
  <2> SUFFICES ASSUME NEW k \in fetcher.due, k \notin fetcher'.got
               PROVE  \E i \in DOMAIN slots : fetcher'.position <= i /\ slots[i] = k
    BY <1>2, <1>4 DEF DueIsAhead
  <2>1. PICK i \in DOMAIN slots : fetcher.position + n <= i /\ slots[i] = k
    BY <1>7
  <2> QED  BY <1>2, <1>3, <1>4, <2>1
<1>9. FetchFindsAll'
  <2> SUFFICES ASSUME AtEnd(n) PROVE fetcher.due \subseteq fetcher'.got
    BY <1>4 DEF FetchFindsAll
  <2>1. \A i \in DOMAIN slots : ~(fetcher.position + n <= i)
    BY <1>2 DEF AtEnd
  <2> QED  BY <1>7, <2>1
<1> QED  BY <1>6, <1>8, <1>9

(* A dump overlooks no user that is in the table as long as it reads it,   *)
(* whatever calls set and erase meanwhile.                                 *)
THEOREM FetchIsComplete ==
    ASSUME NoKey \notin Key
    PROVE  TableSpec => []FetchFindsAll
<1>1. TableInv /\ [TableNext]_tableVars => TableInv'
  <2> SUFFICES ASSUME TableInv, [TableNext]_tableVars PROVE TableInv'
    OBVIOUS
  <2>1. ASSUME NEW k \in Key, Set(k) PROVE TableInv'
    BY <2>1, SetKeepsTableInv
  <2>2. ASSUME NEW k \in Key, Erase(k) PROVE TableInv'
    BY <2>2, EraseKeepsTableInv
  <2>3. CASE FetchBegins
    BY <2>3, BeginKeepsTableInv
  <2>4. CASE Get
    BY <2>4, GetKeepsTableInv
  <2>5. CASE UNCHANGED tableVars
    BY <2>5 DEF tableVars, TableInv, TableTypeOK, DueIsAhead, FetchFindsAll
  <2> QED  BY <2>1, <2>2, <2>3, <2>4, <2>5 DEF TableNext
<1>2. TableInv => FetchFindsAll
  BY DEF TableInv
<1> QED  BY TableInvInit, <1>1, <1>2, PTL DEF TableSpec
=============================================================================
