------------------------- MODULE LogLoading_proofs -------------------------
(***************************************************************************)
(* Proofs about LogLoading, for any types of logs, files, threads, bounds  *)
(* of the memory and faults: the receivers and their facade implement the  *)
(* queue of files, a stop and a restart go on in a file where it was left, *)
(* and a receiver that has files is not forgotten by the facade.           *)
(***************************************************************************)
EXTENDS LogLoading, FiniteSetTheorems, WellFoundedInduction, TLAPS

-----------------------------------------------------------------------------
(* The invariant.                                                          *)

Mark == File \cup {Undefined, None}

Receiver ==
    [files_ : SUBSET File, oldest_not_in_files_ : Mark,
     in_progress_files_ : SUBSET File, processed_files_ : SUBSET File,
     fetch_internal_in_progress_ : BOOLEAN, backup : Mark]

Steps ==
    {"idle", "lock", "get", "read", "scan", "take", "list", "load", "release"}

ThreadState ==
    [pc : Steps, type : LogType \cup {None}, file : File \cup {None},
     top : Mark, line : Nat]

TypeInv ==
    /\ input \in SUBSET File /\ intermediate \in SUBSET File /\ aside \in SUBSET File
    /\ receiver \in [LogType -> Receiver] /\ unread \in [LogType -> SUBSET File]
    /\ locked \in SUBSET LogType /\ listed \in SUBSET LogType
    /\ changed \in [LogType -> File \cup {None}]
    /\ thread \in [Thread -> ThreadState]
    /\ lines \in [File -> Nat] /\ loaded \in [File -> Nat] /\ faults \in Nat
    /\ interrupter \in BOOLEAN /\ facade \in BOOLEAN

(* What a receiver forgot is not before the mark.                          *)
Below(mark, f) == mark # None /\ mark <= f

(* A file that waits is known to its receiver r, or is not before its      *)
(* mark, or will be come upon by the read that is under way.               *)
Covered(r, un, f) ==
    \/ f \in r.files_
    \/ Below(r.oldest_not_in_files_, f)
    \/ f \in un /\ Below(r.backup, f)

WaitingOf(r, names, mid, left) ==
    (mid \cap names) \ (r.in_progress_files_ \cup left)

(* The sets of a receiver of the files in names, with un still unread,     *)
(* new in the input directory, mid in the intermediate one, left aside.    *)
Sets(r, un, names, new, mid, left) ==
    /\ r \in Receiver
    /\ r.files_ \subseteq WaitingOf(r, names, mid, left)
    /\ r.in_progress_files_ \cup r.processed_files_ \cup un \subseteq names
    /\ IsFiniteSet(r.files_) /\ Cardinality(r.files_) <= MaxFiles
    /\ r.in_progress_files_ \cap (new \cup left) = {}
    /\ r.processed_files_ \cap (new \cup r.in_progress_files_) = {}
    /\ r.processed_files_ \cap mid \subseteq left
    /\ un \subseteq mid \cup r.in_progress_files_ \cup r.processed_files_

Good(r, un, names, new, mid, left) ==
    /\ Sets(r, un, names, new, mid, left)
    /\ un # {} => r.fetch_internal_in_progress_
    /\ r.fetch_internal_in_progress_ => r.backup # None /\ KnowsEldest(r)
    /\ \A f \in WaitingOf(r, names, mid, left) : Covered(r, un, f)

ReceiverInv(t) ==
    Good(receiver[t], unread[t], NamesOf(t), input, intermediate, aside)

FilesInv == input \cap intermediate = {} /\ aside \subseteq intermediate

(* A thread in the state s: the lock of a holder is held through a call of *)
(* get_eldest, and a file that was given is in progress until its guard is *)
(* destroyed.                                                              *)
Inside(s) == s.pc \in {"get", "read", "scan", "take", "list"}
Holds(s) == s.pc \in {"list", "load", "release"} /\ s.file # None

ThreadOK(s, rc, mid, lk) ==
    /\ Inside(s) \/ s.pc = "lock" => s.type \in LogType
    /\ Inside(s) => s.type \in lk
    /\ s.pc = "scan" => rc[s.type].fetch_internal_in_progress_
    /\ s.pc = "take" => KnowsEldest(rc[s.type])
    /\ s.pc \in {"load", "release"} => s.file # None
    /\ Holds(s) => s.file \in rc[TypeOf[s.file]].in_progress_files_
    /\ Holds(s) /\ s.pc # "release" => s.file \in mid

Apart(s, u) ==
    /\ ~(Inside(s) /\ Inside(u) /\ s.type = u.type)
    /\ ~(Holds(s) /\ Holds(u) /\ s.file = u.file)

ThreadsInv ==
    /\ \A c \in Thread : ThreadOK(thread[c], receiver, intermediate, locked)
    /\ \A c, d \in Thread : c # d => Apart(thread[c], thread[d])

(* A read of the directory is a thread's.                                  *)
ScanInv(t) ==
    receiver[t].fetch_internal_in_progress_ =>
        \E c \in Thread : thread[c].pc = "scan" /\ thread[c].type = t

(* Without a fault, the name or the thread at work on a file tells how     *)
(* much of it was given to the process; with faults, no less was given.    *)
AtWork(c, f) == thread[c].pc = "load" /\ thread[c].file = f

LoadedInv(f) ==
    /\ lines[f] <= loaded[f] /\ lines[f] <= Records[f]
    /\ \A c \in Thread : AtWork(c, f) =>
        /\ thread[c].line <= loaded[f] /\ thread[c].line <= Records[f]
        /\ faults = 0 => loaded[f] = thread[c].line
    /\ faults = 0 /\ ~(\E c \in Thread : AtWork(c, f)) =>
        loaded[f] = IF f \in input \cup intermediate THEN lines[f] ELSE Records[f]

(* Who finds nothing more in a receiver unlists it while it has nothing,   *)
(* or its new top is on its way.                                           *)
Spent(r) ==
    /\ r.files_ = {} /\ r.oldest_not_in_files_ = None
    /\ ~r.fetch_internal_in_progress_

ListedInv(t) ==
    \/ t \in listed /\ ~AboutToUnlist(t)
    \/ changed[t] # None
    \/ Spent(receiver[t])

Inv ==
    /\ TypeInv /\ FilesInv /\ ThreadsInv
    /\ \A t \in LogType : ReceiverInv(t) /\ ScanInv(t) /\ ListedInv(t)
    /\ \A f \in File : LoadedInv(f)

-----------------------------------------------------------------------------
(* The least and the greatest of numbers.                                  *)

LEMMA EldestIs ==
    ASSUME NEW S \in SUBSET Nat, S # {}
    PROVE  Eldest(S) \in S /\ \A g \in S : Eldest(S) <= g
<1>1. PICK m \in S : \A n \in S : ~(<<n, m>> \in OpToRel(<, Nat))
  BY NatLessThanWellFounded, WFMin
<1>2. ASSUME NEW n \in S PROVE m <= n
  <2>1. ~(n < m)
    BY <1>1 DEF OpToRel
  <2> QED  BY <2>1
<1> QED  BY <1>2 DEF Eldest

(* A set without a greatest number, of least cardinality, would lose one   *)
(* of its numbers and have none either.                                    *)
LEMMA YoungestIs ==
    ASSUME NEW S \in SUBSET Nat, S # {}, IsFiniteSet(S)
    PROVE  Youngest(S) \in S /\ \A g \in S : g <= Youngest(S)
<1> DEFINE Has(T) == \E m \in T : \A n \in T : n <= m
           Bad == {T \in SUBSET S : T # {} /\ ~Has(T)}
           Sizes == {Cardinality(T) : T \in Bad}
<1>1. ASSUME NEW T \in SUBSET S PROVE IsFiniteSet(T) /\ Cardinality(T) \in Nat
  BY FS_Subset, FS_CardinalityType
<1>2. SUFFICES ASSUME Bad # {} PROVE FALSE
  <2>1. Has(S)
    BY <1>2
  <2> QED  BY <2>1 DEF Youngest
<1>3. Sizes \in SUBSET Nat /\ Sizes # {}
  BY <1>1, <1>2
<1>4. PICK k \in Sizes : \A n \in Sizes : k <= n
  BY <1>3, EldestIs
<1>5. PICK T \in Bad : k = Cardinality(T)
  BY <1>4
<1>6. PICK x \in T : TRUE
  BY <1>5
<1>7. T \ {x} \in SUBSET S /\ Cardinality(T \ {x}) = Cardinality(T) - 1
  BY <1>1, <1>5, <1>6, FS_RemoveElement
<1>8. T \ {x} \notin Bad
  <2>1. SUFFICES ASSUME T \ {x} \in Bad PROVE FALSE
    OBVIOUS
  <2>2. Cardinality(T \ {x}) \in Sizes
    BY <2>1
  <2>3. k \in Nat /\ k <= k - 1
    BY <1>1, <1>4, <1>5, <1>7, <2>2
  <2> QED  BY <2>3
<1>9. CASE T \ {x} = {}
  <2>1. \A n \in T : n <= x
    BY <1>3, <1>5, <1>6, <1>9
  <2> QED  BY <1>5, <1>6, <2>1
<1>10. CASE Has(T \ {x})
  <2>1. PICK y \in T \ {x} : \A n \in T \ {x} : n <= y
    BY <1>10
  <2>2. x \in Nat /\ y \in Nat /\ \A n \in T : n \in Nat
    BY <1>5, <1>6, <2>1
  <2>3. CASE x <= y
    <3>1. \A n \in T : n <= y
      BY <2>1, <2>3
    <3> QED  BY <1>5, <2>1, <3>1
  <2>4. CASE y <= x
    <3>1. \A n \in T : n <= x
      BY <2>1, <2>2, <2>4
    <3> QED  BY <1>5, <1>6, <3>1
  <2> QED  BY <2>2, <2>3, <2>4
<1> QED  BY <1>7, <1>8, <1>9, <1>10

-----------------------------------------------------------------------------
(* What the operators of a receiver return.                                *)

LEMMA Numbers ==
    /\ File \subseteq Nat /\ Undefined \notin File /\ None \notin File
    /\ \A m \in Mark : m # None => m \in Nat
    /\ None \in Mark /\ Undefined \in Mark /\ None # Undefined
<1>1. File \subseteq Nat \ {0} /\ None \notin Nat
  BY FileReceiverAssumption
<1>2. File \subseteq Nat /\ 0 \notin File /\ None \notin File
  BY <1>1
<1>3. 0 \in Nat
  OBVIOUS
<1> QED  BY <1>1, <1>2, <1>3 DEF Mark, Undefined

LEMMA KnowsEldestIs ==
    ASSUME NEW r \in Receiver
    PROVE  KnowsEldest(r) <=>
             (r.oldest_not_in_files_ # None => \E g \in r.files_ : g <= r.oldest_not_in_files_)
<1>1. r.files_ \in SUBSET Nat /\ r.oldest_not_in_files_ \in Mark
  BY Numbers DEF Receiver
<1>2. CASE r.files_ = {}
  BY <1>2 DEF KnowsEldest
<1>3. CASE r.files_ # {}
  <2>1. PICK e : e = Eldest(r.files_)
    OBVIOUS
  <2>2. e \in r.files_ /\ \A g \in r.files_ : e <= g
    BY <1>1, <1>3, <2>1, EldestIs
  <2>3. KnowsEldest(r) <=> (r.oldest_not_in_files_ # None => r.oldest_not_in_files_ >= e)
    BY <1>3, <2>1 DEF KnowsEldest
  <2>4. ASSUME r.oldest_not_in_files_ # None
        PROVE  (r.oldest_not_in_files_ >= e) <=>
                 (\E g \in r.files_ : g <= r.oldest_not_in_files_)
    BY <1>1, <2>2, <2>4, Numbers
  <2> QED  BY <2>3, <2>4
<1> QED  BY <1>2, <1>3

LEMMA LowerIs ==
    ASSUME NEW m \in Mark, NEW n \in Mark, n # None
    PROVE  /\ Lower(m, n) \in Mark
           /\ \A f \in File : Below(m, f) \/ Below(n, f) <=> Below(Lower(m, n), f)
           /\ Lower(m, n) = n \/ (m # None /\ Lower(m, n) = m /\ m <= n)
BY Numbers DEF Lower, Below

(* The receiver q is r with one more file f.                               *)
Added(q, r, f) ==
    /\ q \in Receiver
    /\ q.in_progress_files_ = r.in_progress_files_
    /\ q.processed_files_ = r.processed_files_
    /\ q.fetch_internal_in_progress_ = r.fetch_internal_in_progress_
    /\ q.backup = r.backup
    /\ q.files_ \subseteq r.files_ \cup {f}
    /\ IsFiniteSet(q.files_) /\ Cardinality(q.files_) <= MaxFiles
    /\ \A w \in r.files_ \cup {f} : w \in q.files_ \/ Below(q.oldest_not_in_files_, w)
    /\ \A w \in File : Below(r.oldest_not_in_files_, w) => Below(q.oldest_not_in_files_, w)
    /\ KnowsEldest(r) => KnowsEldest(q)
    /\ r.files_ = {} /\ r.oldest_not_in_files_ = None =>
         q.files_ = {f} /\ q.oldest_not_in_files_ = None

LEMMA AddFileAdds ==
    ASSUME NEW r \in Receiver, NEW f \in File,
           IsFiniteSet(r.files_), Cardinality(r.files_) <= MaxFiles
    PROVE  Added(AddFile(r, f), r, f)
<1> DEFINE names == r.files_ \cup {f}
<1>1. PICK last : last = Youngest(names)
  OBVIOUS
<1>2. /\ names \in SUBSET File /\ names \in SUBSET Nat /\ names # {} /\ IsFiniteSet(names)
      /\ Cardinality(names) \in Nat /\ Cardinality(r.files_) \in Nat
      /\ Cardinality(names) = IF f \in r.files_ THEN Cardinality(r.files_)
                              ELSE Cardinality(r.files_) + 1
  <2>1. r.files_ \in SUBSET File
    BY DEF Receiver
  <2>2. IsFiniteSet(names) /\ Cardinality(names) = IF f \in r.files_ THEN Cardinality(r.files_)
                                                  ELSE Cardinality(r.files_) + 1
    BY FS_AddElement
  <2>3. Cardinality(names) \in Nat /\ Cardinality(r.files_) \in Nat
    BY <2>2, FS_CardinalityType
  <2> QED  BY <2>1, <2>2, <2>3, Numbers
<1>3. last \in names /\ \A g \in names : g <= last
  BY <1>1, <1>2, YoungestIs
<1>4. MaxFiles \in Nat /\ MaxFiles >= 1
  BY FileReceiverAssumption
<1>5. CASE Cardinality(names) <= MaxFiles
  <2>1. PICK q : q = AddFile(r, f)
    OBVIOUS
  <2>2. q = [r EXCEPT !.files_ = names]
    BY <1>5, <2>1 DEF AddFile
  <2>3. /\ q \in Receiver /\ q.in_progress_files_ = r.in_progress_files_
        /\ q.processed_files_ = r.processed_files_
        /\ q.fetch_internal_in_progress_ = r.fetch_internal_in_progress_
        /\ q.backup = r.backup /\ q.files_ = names
        /\ q.oldest_not_in_files_ = r.oldest_not_in_files_
    BY <1>2, <2>2 DEF Receiver
  <2>4. KnowsEldest(r) => KnowsEldest(q)
    BY <2>3, KnowsEldestIs
  <2> QED  BY <1>2, <1>5, <2>1, <2>3, <2>4 DEF Added
<1>6. CASE ~(Cardinality(names) <= MaxFiles)
  <2>1. PICK q : q = AddFile(r, f)
    OBVIOUS
  <2>2. q = [r EXCEPT !.files_ = names \ {last},
                      !.oldest_not_in_files_ = Lower(r.oldest_not_in_files_, last)]
    BY <1>1, <1>6, <2>1 DEF AddFile
  <2>3. r.oldest_not_in_files_ \in Mark /\ last \in Mark /\ last # None
    BY <1>2, <1>3, Numbers DEF Receiver, Mark
  <2>4. PICK m \in Mark : m = Lower(r.oldest_not_in_files_, last)
    BY <2>3, LowerIs
  <2>5. /\ m = last \/ (r.oldest_not_in_files_ # None /\ m = r.oldest_not_in_files_ /\ m <= last)
        /\ \A w \in File : Below(r.oldest_not_in_files_, w) \/ Below(last, w) <=> Below(m, w)
    BY <2>3, <2>4, LowerIs
  <2>6. /\ q \in Receiver /\ q.in_progress_files_ = r.in_progress_files_
        /\ q.processed_files_ = r.processed_files_
        /\ q.fetch_internal_in_progress_ = r.fetch_internal_in_progress_
        /\ q.backup = r.backup /\ q.files_ = names \ {last}
        /\ q.oldest_not_in_files_ = m
    BY <1>2, <2>2, <2>4 DEF Receiver
  <2>7. IsFiniteSet(q.files_) /\ Cardinality(q.files_) = Cardinality(names) - 1
    <3>1. IsFiniteSet(names \ {last}) /\ Cardinality(names \ {last}) = Cardinality(names) - 1
      BY <1>2, <1>3, FS_RemoveElement
    <3> QED  BY <2>6, <3>1
  <2>8. Cardinality(q.files_) <= MaxFiles /\ q.files_ # {} /\ r.files_ # {}
    <3>1. Cardinality(names) <= MaxFiles + 1
      BY <1>2, <1>4
    <3>2. Cardinality(names) >= 2
      BY <1>2, <1>4, <1>6
    <3>3. Cardinality({}) = 0
      BY FS_EmptySet
    <3>4. r.files_ # {}
      <4>1. SUFFICES ASSUME r.files_ = {} PROVE FALSE
        OBVIOUS
      <4>2. Cardinality(names) = 1
        BY <1>2, <3>3, <4>1
      <4> QED  BY <3>2, <4>2
    <3>5. q.files_ # {}
      <4>1. SUFFICES ASSUME q.files_ = {} PROVE FALSE
        OBVIOUS
      <4>2. Cardinality(names) - 1 = 0
        BY <2>7, <3>3, <4>1
      <4> QED  BY <1>2, <3>2, <4>2
    <3> QED  BY <1>2, <1>4, <2>7, <3>1, <3>4, <3>5
  <2>9. \A w \in names : w \in q.files_ \/ Below(m, w)
    <3>1. Below(last, last)
      BY <1>2, <1>3, <2>3 DEF Below
    <3> QED  BY <1>2, <1>3, <2>5, <2>6, <3>1
  <2>10. KnowsEldest(r) => KnowsEldest(q)
    <3>1. SUFFICES ASSUME KnowsEldest(r), m # None PROVE \E g \in q.files_ : g <= m
      BY <2>6, KnowsEldestIs
    <3>2. CASE m = last
      BY <1>3, <2>6, <2>8, <3>2
    <3>3. CASE m # last
      <4>1. m = r.oldest_not_in_files_ /\ m <= last
        BY <2>5, <3>3
      <4>2. PICK g \in r.files_ : g <= m
        BY <3>1, <4>1, KnowsEldestIs
      <4>3. g # last
        BY <1>2, <1>3, <2>3, <3>1, <3>3, <4>1, <4>2, Numbers
      <4> QED  BY <2>6, <4>2, <4>3
    <3> QED  BY <3>2, <3>3
  <2> QED  BY <2>1, <2>5, <2>6, <2>7, <2>8, <2>9, <2>10 DEF Added
<1> QED  BY <1>5, <1>6

-----------------------------------------------------------------------------
(* What each operation leaves of a receiver that was good.                 *)

LEMMA GoodStarts ==
    ASSUME NEW names \in SUBSET File, NEW new, NEW mid
    PROVE  Good(NewReceiver, {}, names, new, mid, {})
<1>1. NewReceiver \in Receiver
  BY Numbers DEF NewReceiver, Receiver
<1>2. IsFiniteSet({}) /\ Cardinality({}) <= MaxFiles
  BY FS_EmptySet, FileReceiverAssumption
<1>3. Sets(NewReceiver, {}, names, new, mid, {})
  BY <1>1, <1>2 DEF Sets, NewReceiver
<1>4. \A f \in File : Below(Undefined, f)
  BY Numbers DEF Below, Undefined
<1> QED  BY <1>3, <1>4 DEF Good, NewReceiver, WaitingOf, Covered

(* Nothing happens to the files of this receiver.                          *)
LEMMA GoodKept ==
    ASSUME NEW r, NEW un, NEW names, NEW new, NEW mid, NEW left,
           NEW new2, NEW mid2, NEW left2,
           Good(r, un, names, new, mid, left),
           new2 \cap names = new \cap names, mid2 \cap names = mid \cap names,
           left2 \cap names = left \cap names
    PROVE  Good(r, un, names, new2, mid2, left2)
<1>1. WaitingOf(r, names, mid2, left2) = WaitingOf(r, names, mid, left)
  BY DEF WaitingOf
<1>2. Sets(r, un, names, new2, mid2, left2)
  <2>1. Sets(r, un, names, new, mid, left)
    BY DEF Good
  <2>2. r.in_progress_files_ \cap (new2 \cup left2) = {}
    BY <2>1 DEF Sets
  <2>3. r.processed_files_ \cap (new2 \cup r.in_progress_files_) = {}
    BY <2>1 DEF Sets
  <2>4. r.processed_files_ \cap mid2 \subseteq left2
    BY <2>1 DEF Sets
  <2>5. un \subseteq mid2 \cup r.in_progress_files_ \cup r.processed_files_
    BY <2>1 DEF Sets
  <2> QED  BY <1>1, <2>1, <2>2, <2>3, <2>4, <2>5 DEF Sets
<1> QED  BY <1>1, <1>2 DEF Good

LEMMA GoodMovedIn ==
    ASSUME NEW r, NEW un, NEW names, NEW new, NEW mid, NEW left, NEW f \in names, NEW un2,
           Good(r, un, names, new, mid, left), names \subseteq File,
           f \in new, f \notin mid, left \subseteq mid,
           un2 = un \/ (r.fetch_internal_in_progress_ /\ un2 = un \cup {f})
    PROVE  Good(AddFile(r, f), un2, names, new \ {f}, mid \cup {f}, left)
<1>1. Sets(r, un, names, new, mid, left)
  BY DEF Good
<1>2. PICK q : q = AddFile(r, f)
  OBVIOUS
<1>3. Added(q, r, f)
  BY <1>1, <1>2, AddFileAdds DEF Sets
<1>4. WaitingOf(q, names, mid \cup {f}, left) = WaitingOf(r, names, mid, left) \cup {f}
  BY <1>1, <1>3 DEF Sets, Added, WaitingOf
<1>5. Sets(q, un2, names, new \ {f}, mid \cup {f}, left)
  <2>1. q.files_ \subseteq WaitingOf(q, names, mid \cup {f}, left)
    BY <1>1, <1>3, <1>4 DEF Sets, Added
  <2>2. q.processed_files_ \cap (mid \cup {f}) \subseteq left
    BY <1>1, <1>3 DEF Sets, Added
  <2> QED  BY <1>1, <1>3, <2>1, <2>2 DEF Sets, Added
<1>6. \A w \in WaitingOf(q, names, mid \cup {f}, left) : Covered(q, un2, w)
  <2> SUFFICES ASSUME NEW w \in WaitingOf(r, names, mid, left) \cup {f}
               PROVE  Covered(q, un2, w)
    BY <1>4
  <2>1. CASE w = f
    BY <1>3, <2>1 DEF Added, Covered
  <2>2. CASE w # f
    <3>1. Covered(r, un, w) /\ w \in File
      BY <2>2 DEF Good, WaitingOf
    <3> QED  BY <1>3, <3>1 DEF Added, Covered
  <2> QED  BY <2>1, <2>2
<1> QED  BY <1>2, <1>3, <1>5, <1>6 DEF Good, Added

LEMMA GoodReading ==
    ASSUME NEW r, NEW names, NEW new, NEW mid, NEW left,
           Good(r, {}, names, new, mid, left), names \subseteq File, ~KnowsEldest(r)
    PROVE  Good(Reading(r), mid \cap names, names, new, mid, left)
<1>1. Sets(r, {}, names, new, mid, left)
  BY DEF Good
<1>2. PICK q : q = Reading(r)
  OBVIOUS
<1>3. /\ q.files_ = r.files_ /\ q.in_progress_files_ = r.in_progress_files_
      /\ q.processed_files_ = r.processed_files_ /\ q.fetch_internal_in_progress_ = TRUE
      /\ q.backup = r.oldest_not_in_files_ /\ q.oldest_not_in_files_ = None /\ q \in Receiver
  BY <1>1, <1>2, Numbers DEF Reading, Receiver, Sets
<1>4. WaitingOf(q, names, mid, left) = WaitingOf(r, names, mid, left)
  BY <1>3 DEF WaitingOf
<1>5. Sets(q, mid \cap names, names, new, mid, left)
  BY <1>1, <1>3, <1>4 DEF Sets
<1>6. q.backup # None /\ KnowsEldest(q)
  BY <1>3 DEF KnowsEldest
<1>7. ASSUME NEW w \in WaitingOf(r, names, mid, left) PROVE Covered(q, mid \cap names, w)
  <2>1. Covered(r, {}, w) /\ w \in mid \cap names
    BY DEF Good, WaitingOf
  <2> QED  BY <1>3, <2>1 DEF Covered
<1> QED  BY <1>2, <1>3, <1>4, <1>5, <1>6, <1>7 DEF Good

(* A file that is in progress or processed does not wait; another one that *)
(* the read comes upon does, though it had been left aside.                *)
LEMMA GoodPassed ==
    ASSUME NEW r, NEW un, NEW names, NEW new, NEW mid, NEW left, NEW f \in un,
           Good(r, un, names, new, mid, left),
           f \in r.in_progress_files_ \cup r.processed_files_
    PROVE  Good(r, un \ {f}, names, new, mid, left)
<1>1. Sets(r, un, names, new, mid, left)
  BY DEF Good
<1>2. f \notin WaitingOf(r, names, mid, left)
  BY <1>1 DEF Sets, WaitingOf
<1>3. Sets(r, un \ {f}, names, new, mid, left)
  BY <1>1 DEF Sets
<1>4. \A w \in WaitingOf(r, names, mid, left) : Covered(r, un \ {f}, w)
  BY <1>2 DEF Good, Covered
<1> QED  BY <1>3, <1>4 DEF Good

LEMMA GoodFound ==
    ASSUME NEW r, NEW un, NEW names, NEW new, NEW mid, NEW left, NEW f \in un,
           Good(r, un, names, new, mid, left), names \subseteq File,
           f \notin r.in_progress_files_ \cup r.processed_files_
    PROVE  Good(AddFile(r, f), un \ {f}, names, new, mid, left \ {f})
<1>1. Sets(r, un, names, new, mid, left)
  BY DEF Good
<1>2. PICK q : q = AddFile(r, f)
  OBVIOUS
<1>3. Added(q, r, f)
  BY <1>1, <1>2, AddFileAdds DEF Sets
<1>4. f \in names /\ f \in mid
  BY <1>1 DEF Sets
<1>5. WaitingOf(q, names, mid, left \ {f}) = WaitingOf(r, names, mid, left) \cup {f}
  BY <1>1, <1>3, <1>4 DEF Sets, Added, WaitingOf
<1>6. Sets(q, un \ {f}, names, new, mid, left \ {f})
  <2>1. q.files_ \subseteq WaitingOf(q, names, mid, left \ {f})
    BY <1>1, <1>3, <1>5 DEF Sets, Added
  <2>2. q.processed_files_ \cap mid \subseteq left \ {f}
    BY <1>1, <1>3 DEF Sets, Added
  <2> QED  BY <1>1, <1>3, <2>1, <2>2 DEF Sets, Added
<1>7. \A w \in WaitingOf(q, names, mid, left \ {f}) : Covered(q, un \ {f}, w)
  <2> SUFFICES ASSUME NEW w \in WaitingOf(r, names, mid, left) \cup {f}
               PROVE  Covered(q, un \ {f}, w)
    BY <1>5
  <2>1. CASE w = f
    BY <1>3, <2>1 DEF Added, Covered
  <2>2. CASE w # f
    <3>1. Covered(r, un, w) /\ w \in File
      BY <2>2 DEF Good, WaitingOf
    <3> QED  BY <1>3, <2>2, <3>1 DEF Added, Covered
  <2> QED  BY <2>1, <2>2
<1> QED  BY <1>2, <1>3, <1>6, <1>7 DEF Good, Added

LEMMA GoodReadAll ==
    ASSUME NEW r, NEW names, NEW new, NEW mid, NEW left,
           Good(r, {}, names, new, mid, left)
    PROVE  Good(ReadAll(r), {}, names, new, mid, left)
<1>1. Sets(r, {}, names, new, mid, left)
  BY DEF Good
<1>2. PICK q : q = ReadAll(r)
  OBVIOUS
<1>3. /\ q.files_ = r.files_ /\ q.in_progress_files_ = r.in_progress_files_
      /\ q.processed_files_ = {} /\ q.fetch_internal_in_progress_ = FALSE
      /\ q.oldest_not_in_files_ = r.oldest_not_in_files_ /\ q \in Receiver
  BY <1>1, <1>2, Numbers DEF ReadAll, Receiver, Sets
<1>4. WaitingOf(q, names, mid, left) = WaitingOf(r, names, mid, left)
  BY <1>3 DEF WaitingOf
<1>5. Sets(q, {}, names, new, mid, left)
  BY <1>1, <1>3, <1>4 DEF Sets
<1> QED  BY <1>2, <1>3, <1>4, <1>5 DEF Good, Covered

LEMMA GoodReadFailed ==
    ASSUME NEW r, NEW un, NEW names, NEW new, NEW mid, NEW left,
           Good(r, un, names, new, mid, left), names \subseteq File,
           r.fetch_internal_in_progress_
    PROVE  Good(ReadFailed(r), {}, names, new, mid, left)
<1>1. Sets(r, un, names, new, mid, left) /\ r.backup # None
  BY DEF Good
<1>2. r.backup \in Mark /\ r.oldest_not_in_files_ \in Mark
  BY <1>1 DEF Sets, Receiver
<1>3. PICK m \in Mark : m = Lower(r.oldest_not_in_files_, r.backup)
  BY <1>1, <1>2, LowerIs
<1>4. \A w \in File : Below(r.oldest_not_in_files_, w) \/ Below(r.backup, w) <=> Below(m, w)
  BY <1>1, <1>2, <1>3, LowerIs
<1>5. PICK q : q = ReadFailed(r)
  OBVIOUS
<1>6. /\ q.files_ = r.files_ /\ q.in_progress_files_ = r.in_progress_files_
      /\ q.processed_files_ = r.processed_files_ /\ q.fetch_internal_in_progress_ = FALSE
      /\ q.oldest_not_in_files_ = m /\ q \in Receiver
  BY <1>1, <1>3, <1>5, Numbers DEF ReadFailed, Receiver, Sets
<1>7. WaitingOf(q, names, mid, left) = WaitingOf(r, names, mid, left)
  BY <1>6 DEF WaitingOf
<1>8. Sets(q, {}, names, new, mid, left)
  BY <1>1, <1>6, <1>7 DEF Sets
<1>9. ASSUME NEW w \in WaitingOf(r, names, mid, left) PROVE Covered(q, {}, w)
  <2>1. Covered(r, un, w) /\ w \in File
    BY DEF Good, WaitingOf
  <2> QED  BY <1>4, <1>6, <2>1 DEF Covered
<1> QED  BY <1>5, <1>6, <1>7, <1>8, <1>9 DEF Good

(* While no read is under way, the eldest of the files may be given.       *)
MayGive(r, f, names, new, mid, left) ==
    /\ Good(r, {}, names, new, mid, left) /\ names \subseteq File
    /\ ~r.fetch_internal_in_progress_ /\ new \cap mid = {}
    /\ r.files_ # {} /\ f = Eldest(r.files_)

LEMMA GoodTaken ==
    ASSUME NEW r, NEW names, NEW new, NEW mid, NEW left, NEW f,
           MayGive(r, f, names, new, mid, left)
    PROVE  /\ Good(WithoutEldest(r), {}, names, new, mid, left)
           /\ WithoutEldest(r).in_progress_files_ = r.in_progress_files_ \cup {f}
           /\ f \in WaitingOf(r, names, mid, left)
<1> USE DEF MayGive
<1>1. Sets(r, {}, names, new, mid, left) /\ r.files_ \in SUBSET Nat /\ names \subseteq Nat
  BY Numbers DEF Good, Sets, Receiver
<1>2. f \in r.files_ /\ \A g \in r.files_ : f <= g
  BY <1>1, EldestIs
<1>3. PICK q : q = WithoutEldest(r)
  OBVIOUS
<1>4. /\ q.files_ = r.files_ \ {f} /\ q.in_progress_files_ = r.in_progress_files_ \cup {f}
      /\ q.processed_files_ = r.processed_files_ /\ q.fetch_internal_in_progress_ = FALSE
      /\ q.oldest_not_in_files_ = r.oldest_not_in_files_ /\ q \in Receiver
  BY <1>1, <1>2, <1>3 DEF WithoutEldest, Receiver, Sets
<1>5. f \in WaitingOf(r, names, mid, left) /\ f \in names /\ f \in mid /\ f \notin left
  BY <1>1, <1>2 DEF Sets, WaitingOf
<1>6. WaitingOf(q, names, mid, left) = WaitingOf(r, names, mid, left) \ {f}
  BY <1>4 DEF WaitingOf
<1>7. Sets(q, {}, names, new, mid, left)
  <2>1. IsFiniteSet(q.files_) /\ Cardinality(q.files_) <= MaxFiles
    <3>1. IsFiniteSet(r.files_) /\ Cardinality(r.files_) <= MaxFiles
      BY <1>1 DEF Sets
    <3>2. /\ IsFiniteSet(r.files_ \ {f}) /\ Cardinality(r.files_) \in Nat
          /\ Cardinality(r.files_ \ {f}) = Cardinality(r.files_) - 1
      BY <1>2, <3>1, FS_RemoveElement, FS_CardinalityType
    <3> QED  BY <1>4, <3>1, <3>2, FileReceiverAssumption
  <2>2. q.in_progress_files_ \cap (new \cup left) = {}
    BY <1>1, <1>4, <1>5 DEF Sets
  <2>3. q.processed_files_ \cap (new \cup q.in_progress_files_) = {}
    BY <1>1, <1>4, <1>5 DEF Sets
  <2> QED  BY <1>1, <1>4, <1>5, <1>6, <2>1, <2>2, <2>3 DEF Sets
<1>8. ASSUME NEW w \in WaitingOf(q, names, mid, left) PROVE Covered(q, {}, w)
  <2>1. Covered(r, {}, w) /\ w # f
    BY <1>6 DEF Good
  <2> QED  BY <1>4, <2>1 DEF Covered
<1> QED  BY <1>3, <1>4, <1>5, <1>7, <1>8 DEF Good

(* It is the eldest that waits, if the receiver knows that one.            *)
LEMMA EldestOfWaiting ==
    ASSUME NEW r, NEW names, NEW new, NEW mid, NEW left, NEW f, NEW g,
           MayGive(r, f, names, new, mid, left), KnowsEldest(r),
           g \in WaitingOf(r, names, mid, left)
    PROVE  f <= g
<1> USE DEF MayGive
<1>1. Sets(r, {}, names, new, mid, left) /\ r.files_ \in SUBSET Nat /\ names \subseteq Nat
  BY Numbers DEF Good, Sets, Receiver
<1>2. f \in r.files_ /\ \A h \in r.files_ : f <= h
  BY <1>1, EldestIs
<1>3. Covered(r, {}, g) /\ g \in Nat /\ f \in Nat
  BY <1>1, <1>2 DEF Good, WaitingOf
<1>4. CASE g \in r.files_
  BY <1>2, <1>4
<1>5. CASE Below(r.oldest_not_in_files_, g)
  <2>1. PICK e \in r.files_ : e <= r.oldest_not_in_files_
    BY <1>1, <1>5, KnowsEldestIs DEF Below, Sets
  <2>2. r.oldest_not_in_files_ \in Nat /\ e \in Nat /\ f <= e /\ r.oldest_not_in_files_ <= g
    BY <1>1, <1>2, <1>5, <2>1, Numbers DEF Below, Sets, Receiver
  <2> QED  BY <1>3, <2>1, <2>2
<1> QED  BY <1>3, <1>4, <1>5 DEF Covered

LEMMA GoodReleased ==
    ASSUME NEW r, NEW un, NEW names, NEW new, NEW mid, NEW left, NEW f,
           Good(r, un, names, new, mid, left), f \in r.in_progress_files_
    PROVE  Good(Released(r, f), un, names, new, mid, left \cup ({f} \cap mid))
<1>1. Sets(r, un, names, new, mid, left) /\ f \in names
  BY DEF Good, Sets
<1>2. PICK done : done = IF r.fetch_internal_in_progress_ THEN r.processed_files_ \cup {f}
                         ELSE r.processed_files_
  OBVIOUS
<1>3. PICK q : q = Released(r, f)
  OBVIOUS
<1>4. /\ q.files_ = r.files_ /\ q.in_progress_files_ = r.in_progress_files_ \ {f}
      /\ q.processed_files_ = done
      /\ q.fetch_internal_in_progress_ = r.fetch_internal_in_progress_
      /\ q.backup = r.backup
      /\ q.oldest_not_in_files_ = r.oldest_not_in_files_ /\ q \in Receiver
  <2>1. q = [r EXCEPT !.in_progress_files_ = r.in_progress_files_ \ {f},
                      !.processed_files_ = done]
    BY <1>2, <1>3 DEF Released
  <2>2. done \subseteq File
    BY <1>1, <1>2 DEF Sets, Receiver
  <2> QED  BY <1>1, <2>1, <2>2 DEF Receiver, Sets
<1>5. WaitingOf(q, names, mid, left \cup ({f} \cap mid)) = WaitingOf(r, names, mid, left)
  BY <1>1, <1>4 DEF WaitingOf
<1>6. Sets(q, un, names, new, mid, left \cup ({f} \cap mid))
  <2>1. q.in_progress_files_ \cap (new \cup left \cup ({f} \cap mid)) = {}
    BY <1>1, <1>4 DEF Sets
  <2>2. done \cap (new \cup q.in_progress_files_) = {}
    BY <1>1, <1>2, <1>4 DEF Sets
  <2>3. done \cap mid \subseteq left \cup ({f} \cap mid)
    BY <1>1, <1>2 DEF Sets
  <2>4. un \subseteq mid \cup q.in_progress_files_ \cup done
    BY <1>1, <1>2, <1>4 DEF Good, Sets
  <2> QED  BY <1>1, <1>2, <1>4, <1>5, <2>1, <2>2, <2>3, <2>4 DEF Sets
<1>7. q.fetch_internal_in_progress_ => q.backup # None /\ KnowsEldest(q)
  BY <1>4 DEF Good, KnowsEldest
<1>8. ASSUME NEW w \in WaitingOf(r, names, mid, left) PROVE Covered(q, un, w)
  BY <1>4 DEF Good, Covered
<1> QED  BY <1>3, <1>4, <1>5, <1>6, <1>7, <1>8 DEF Good

(* The owner of a file takes it away.                                      *)
LEMMA GoodDeleted ==
    ASSUME NEW r, NEW un, NEW names, NEW new, NEW mid, NEW left, NEW f,
           Good(r, un, names, new, mid, left), f \in r.in_progress_files_
    PROVE  Good(r, un, names, new, mid \ {f}, left)
<1>1. Sets(r, un, names, new, mid, left)
  BY DEF Good
<1>2. WaitingOf(r, names, mid \ {f}, left) = WaitingOf(r, names, mid, left)
  BY DEF WaitingOf
<1>3. Sets(r, un, names, new, mid \ {f}, left)
  BY <1>1, <1>2 DEF Sets
<1> QED  BY <1>2, <1>3 DEF Good

-----------------------------------------------------------------------------
(* What a step leaves of the parts of the invariant it does not concern.   *)

LEMMA OtherNames ==
    ASSUME NEW t \in LogType, NEW u \in LogType, t # u, NEW a, NEW b,
           a \ NamesOf(t) = b \ NamesOf(t)
    PROVE  a \cap NamesOf(u) = b \cap NamesOf(u)
<1>1. NamesOf(t) \cap NamesOf(u) = {}
  BY DEF NamesOf
<1> QED  BY <1>1

(* One receiver t becomes q, with un still unread.                         *)
Becomes(t, q, un) ==
    /\ receiver' = [receiver EXCEPT ![t] = q]
    /\ unread' = [unread EXCEPT ![t] = un]
    /\ Good(q, un, NamesOf(t), input', intermediate', aside')
    /\ input' \ NamesOf(t) = input \ NamesOf(t)
    /\ intermediate' \ NamesOf(t) = intermediate \ NamesOf(t)
    /\ aside' \ NamesOf(t) = aside \ NamesOf(t)

LEMMA ReceiversGood ==
    ASSUME Inv, NEW t \in LogType, NEW q, NEW un, Becomes(t, q, un)
    PROVE  /\ receiver' \in [LogType -> Receiver] /\ unread' \in [LogType -> SUBSET File]
           /\ \A u \in LogType : ReceiverInv(u)'
           /\ receiver'[t] = q /\ unread'[t] = un
           /\ \A u \in LogType : u # t => receiver'[u] = receiver[u] /\ unread'[u] = unread[u]
<1>1. receiver \in [LogType -> Receiver] /\ unread \in [LogType -> SUBSET File]
  BY DEF Inv, TypeInv
<1>2. q \in Receiver /\ un \subseteq File
  BY DEF Becomes, Good, Sets, NamesOf
<1>3. receiver' \in [LogType -> Receiver] /\ unread' \in [LogType -> SUBSET File]
  BY <1>1, <1>2 DEF Becomes
<1>4. receiver'[t] = q /\ unread'[t] = un
  BY <1>1 DEF Becomes
<1>5. ASSUME NEW u \in LogType, u # t
      PROVE  receiver'[u] = receiver[u] /\ unread'[u] = unread[u]
  BY <1>1, <1>5 DEF Becomes
<1>6. ASSUME NEW u \in LogType PROVE ReceiverInv(u)'
  <2>1. CASE u = t
    BY <1>4, <2>1 DEF ReceiverInv, Becomes
  <2>2. CASE u # t
    <3>1. Good(receiver[u], unread[u], NamesOf(u), input, intermediate, aside)
      BY DEF Inv, ReceiverInv
    <3>2. /\ input' \cap NamesOf(u) = input \cap NamesOf(u)
          /\ intermediate' \cap NamesOf(u) = intermediate \cap NamesOf(u)
          /\ aside' \cap NamesOf(u) = aside \cap NamesOf(u)
      BY <2>2, OtherNames DEF Becomes
    <3>3. Good(receiver[u], unread[u], NamesOf(u), input', intermediate', aside')
      BY <3>1, <3>2, GoodKept
    <3> QED  BY <1>5, <2>2, <3>3 DEF ReceiverInv
  <2> QED  BY <2>1, <2>2
<1> QED  BY <1>3, <1>4, <1>5, <1>6

LEMMA SameReceivers ==
    ASSUME Inv, UNCHANGED <<receiverVars, aside>>
    PROVE  /\ \A t \in LogType : ReceiverInv(t)' /\ receiver'[t] = receiver[t]
           /\ receiver' \in [LogType -> Receiver] /\ unread' \in [LogType -> SUBSET File]
           /\ input' \in SUBSET File /\ intermediate' \in SUBSET File
           /\ aside' \in SUBSET File /\ FilesInv'
BY DEF Inv, TypeInv, FilesInv, ReceiverInv, receiverVars

(* A thread that does not move.                                            *)
LEMMA ThreadStays ==
    ASSUME NEW u, NEW rc, NEW mid, NEW lk, NEW rc2, NEW mid2, NEW lk2,
           ThreadOK(u, rc, mid, lk),
           Inside(u) => u.type \in lk2,
           Inside(u) /\ rc[u.type].fetch_internal_in_progress_ =>
             rc2[u.type].fetch_internal_in_progress_,
           Inside(u) /\ KnowsEldest(rc[u.type]) => KnowsEldest(rc2[u.type]),
           Holds(u) /\ u.file \in rc[TypeOf[u.file]].in_progress_files_ =>
             u.file \in rc2[TypeOf[u.file]].in_progress_files_,
           Holds(u) /\ u.pc # "release" /\ u.file \in mid => u.file \in mid2
    PROVE  ThreadOK(u, rc2, mid2, lk2)
BY DEF ThreadOK, Inside

LEMMA ThreadsOK ==
    ASSUME Inv, NEW c \in Thread, NEW s \in ThreadState,
           thread' = [thread EXCEPT ![c] = s],
           ThreadOK(s, receiver', intermediate', locked'),
           \A d \in Thread : d # c =>
             /\ ThreadOK(thread[d], receiver', intermediate', locked')
             /\ Apart(s, thread[d])
    PROVE  ThreadsInv' /\ thread' \in [Thread -> ThreadState]
<1>1. thread \in [Thread -> ThreadState] /\ ThreadsInv
  BY DEF Inv, TypeInv
<1>2. thread'[c] = s /\ \A d \in Thread : d # c => thread'[d] = thread[d]
  BY <1>1
<1>3. \A d \in Thread : ThreadOK(thread'[d], receiver', intermediate', locked')
  BY <1>2
<1>4. ASSUME NEW d \in Thread, NEW e \in Thread, d # e PROVE Apart(thread'[d], thread'[e])
  <2>1. CASE d = c
    BY <1>2, <1>4, <2>1
  <2>2. CASE e = c
    <3>1. Apart(s, thread[d])
      BY <1>4, <2>2
    <3> QED  BY <1>2, <1>4, <2>2, <3>1 DEF Apart
  <2>3. CASE d # c /\ e # c
    BY <1>1, <1>2, <1>4, <2>3 DEF ThreadsInv
  <2> QED  BY <2>1, <2>2, <2>3
<1>5. thread' \in [Thread -> ThreadState]
  BY <1>1
<1> QED  BY <1>3, <1>4, <1>5 DEF ThreadsInv

(* No work on a file begins, goes on or ends.                              *)
LEMMA LoadedKept ==
    ASSUME Inv, lines' = lines, loaded' = loaded, faults' \in {faults, faults + 1},
           input' \cup intermediate' = input \cup intermediate,
           \A c \in Thread :
             thread'[c] = thread[c] \/ (thread[c].pc # "load" /\ thread'[c].pc # "load")
    PROVE  \A f \in File : LoadedInv(f)'
<1> SUFFICES ASSUME NEW f \in File PROVE LoadedInv(f)'
  OBVIOUS
<1>1. LoadedInv(f) /\ faults \in Nat
  BY DEF Inv, TypeInv
<1>2. \A c \in Thread : AtWork(c, f)' <=> AtWork(c, f)
  BY DEF AtWork
<1>3. \A c \in Thread : AtWork(c, f) => thread'[c] = thread[c]
  BY DEF AtWork
<1>4. faults' = 0 => faults = 0
  BY <1>1
<1> QED  BY <1>1, <1>2, <1>3, <1>4 DEF LoadedInv

LEMMA ListedKept ==
    ASSUME Inv, NEW t \in LogType,
           t \in listed => t \in listed', changed'[t] = changed[t],
           Spent(receiver[t]) => Spent(receiver'[t]),
           \A c \in Thread : \/ thread'[c] = thread[c]
                            \/ ~(thread'[c].pc = "list" /\ thread'[c].type = t)
    PROVE  ListedInv(t)'
<1>1. ListedInv(t)
  BY DEF Inv
<1>2. AboutToUnlist(t)' => AboutToUnlist(t)
  BY DEF AboutToUnlist
<1> QED  BY <1>1, <1>2 DEF ListedInv

LEMMA ScanKept ==
    ASSUME Inv, NEW t \in LogType,
           receiver'[t].fetch_internal_in_progress_ => receiver[t].fetch_internal_in_progress_,
           \A c \in Thread : \/ thread'[c] = thread[c]
                            \/ ~(thread[c].pc = "scan" /\ thread[c].type = t)
    PROVE  ScanInv(t)'
BY DEF Inv, ScanInv

(* No read of a receiver's directory is under way while a thread is        *)
(* elsewhere in its get_eldest.                                            *)
LEMMA NoRead ==
    ASSUME Inv, NEW c \in Thread, Inside(thread[c]), thread[c].pc # "scan"
    PROVE  /\ thread[c].type \in LogType
           /\ ~receiver[thread[c].type].fetch_internal_in_progress_
           /\ unread[thread[c].type] = {}
<1>1. thread[c].type \in LogType
  BY DEF Inv, ThreadsInv, ThreadOK
<1>2. PICK t \in LogType : t = thread[c].type
  BY <1>1
<1>3. ~receiver[t].fetch_internal_in_progress_
  <2>1. SUFFICES ASSUME NEW d \in Thread, thread[d].pc = "scan", thread[d].type = t PROVE FALSE
    BY DEF Inv, ScanInv
  <2>2. Inside(thread[d]) /\ d # c
    BY <2>1 DEF Inside
  <2>3. Apart(thread[c], thread[d])
    BY <2>2 DEF Inv, ThreadsInv
  <2> QED  BY <1>2, <2>1, <2>2, <2>3 DEF Apart
<1>4. unread[t] = {}
  BY <1>3 DEF Inv, ReceiverInv, Good
<1> QED  BY <1>2, <1>3, <1>4

-----------------------------------------------------------------------------
(* The steps that give files to a receiver or tell the facade of its top.  *)

LEMMA MoveInKeeps == ASSUME Inv, NEW f \in File, MoveIn(f) PROVE Inv'
<1>1. PICK t \in LogType : t = TypeOf[f]
  BY FileReceiverAssumption
<1>2. TypeInv /\ FilesInv /\ ThreadsInv
  BY DEF Inv
<1>3. f \in NamesOf(t) /\ f \in input /\ f \notin intermediate
  BY <1>1, <1>2 DEF MoveIn, FetchFile, NamesOf, FilesInv
<1>4. PICK r \in Receiver : r = receiver[t]
  BY <1>2 DEF TypeInv
<1>5. Good(r, unread[t], NamesOf(t), input, intermediate, aside)
  BY <1>4 DEF Inv, ReceiverInv
<1>6. PICK q : q = AddFile(r, f)
  OBVIOUS
<1>7. Added(q, r, f)
  BY <1>5, <1>6, AddFileAdds DEF Good, Sets
<1>8. /\ input' = input \ {f} /\ intermediate' = intermediate \cup {f} /\ aside' = aside
      /\ receiver' = [receiver EXCEPT ![t] = q]
      /\ changed[t] = None
      /\ changed' = [changed EXCEPT ![t] = IF Top(q) = f THEN f ELSE None]
      /\ interrupter' = interrupter /\ facade' = facade /\ listed' = listed /\ locked' = locked
      /\ thread' = thread /\ lines' = lines /\ loaded' = loaded /\ faults' = faults
  BY <1>1, <1>4, <1>6 DEF MoveIn, FetchFile, Become
<1>9. PICK un : /\ un = unread[t] \/ (r.fetch_internal_in_progress_ /\ un = unread[t] \cup {f})
                /\ unread' = [unread EXCEPT ![t] = un]
  <2>1. unread' = unread \/ (/\ r.fetch_internal_in_progress_
                             /\ unread' = [unread EXCEPT ![t] = unread[t] \cup {f}])
    BY <1>1, <1>4 DEF MoveIn, FetchFile
  <2>2. unread = [unread EXCEPT ![t] = unread[t]]
    BY <1>2 DEF TypeInv
  <2> QED  BY <2>1, <2>2
<1>10. Good(q, un, NamesOf(t), input', intermediate', aside')
  BY <1>2, <1>3, <1>5, <1>6, <1>8, <1>9, GoodMovedIn DEF FilesInv, NamesOf
<1>11. Becomes(t, q, un)
  BY <1>3, <1>8, <1>9, <1>10 DEF Becomes
<1>12. /\ receiver' \in [LogType -> Receiver] /\ unread' \in [LogType -> SUBSET File]
       /\ \A u \in LogType : ReceiverInv(u)'
       /\ receiver'[t] = q
       /\ \A u \in LogType : u # t => receiver'[u] = receiver[u]
  BY <1>11, ReceiversGood
<1>13. TypeInv' /\ FilesInv'
  <2>1. changed' \in [LogType -> File \cup {None}]
    BY <1>2, <1>8 DEF TypeInv
  <2> QED  BY <1>2, <1>3, <1>8, <1>12, <2>1 DEF TypeInv, FilesInv
<1>14. ThreadsInv'
  <2>1. ASSUME NEW c \in Thread PROVE ThreadOK(thread[c], receiver', intermediate', locked')
    <3>1. PICK u \in ThreadState : u = thread[c]
      BY <1>2 DEF TypeInv
    <3>2. ThreadOK(u, receiver, intermediate, locked)
      BY <1>2, <3>1 DEF ThreadsInv
    <3>3. ASSUME NEW v \in LogType
          PROVE  /\ receiver[v].fetch_internal_in_progress_ =>
                      receiver'[v].fetch_internal_in_progress_
                 /\ KnowsEldest(receiver[v]) => KnowsEldest(receiver'[v])
                 /\ receiver[v].in_progress_files_ = receiver'[v].in_progress_files_
      <4>1. CASE v = t
        BY <1>4, <1>7, <1>12, <4>1 DEF Added
      <4>2. CASE v # t
        BY <1>12, <4>2
      <4> QED  BY <4>1, <4>2
    <3>4. Inside(u) => u.type \in LogType
      BY <3>2 DEF ThreadOK
    <3>5. Holds(u) => TypeOf[u.file] \in LogType
      BY <3>1, FileReceiverAssumption DEF Holds, ThreadState
    <3> QED  BY <1>8, <3>1, <3>2, <3>3, <3>4, <3>5 DEF ThreadOK
  <2> QED  BY <1>2, <1>8, <2>1 DEF ThreadsInv
<1>15. ASSUME NEW v \in LogType PROVE ScanInv(v)'
  <2>1. CASE v = t
    BY <1>4, <1>7, <1>8, <1>12, <2>1, ScanKept DEF Added
  <2>2. CASE v # t
    BY <1>8, <1>12, <2>2, ScanKept
  <2> QED  BY <2>1, <2>2
<1>16. ASSUME NEW v \in LogType PROVE ListedInv(v)'
  <2>1. CASE v # t
    <3>1. changed'[v] = changed[v]
      BY <1>2, <1>8, <2>1 DEF TypeInv
    <3> QED  BY <1>8, <1>12, <2>1, <3>1, ListedKept
  <2>2. CASE v = t /\ Spent(r)
    <3>1. q.files_ = {f} /\ q.oldest_not_in_files_ = None
      BY <1>7, <2>2 DEF Added, Spent
    <3>2. Top(q) = Eldest({f})
      BY <3>1 DEF Top
    <3>3. Top(q) = f
      BY <3>2 DEF Eldest
    <3>4. changed'[t] = f
      BY <1>2, <1>8, <3>3 DEF TypeInv
    <3>5. f # None
      BY Numbers
    <3> QED  BY <2>2, <3>4, <3>5 DEF ListedInv
  <2>3. CASE v = t /\ ~Spent(r)
    <3>1. t \in listed /\ ~AboutToUnlist(t)
      BY <1>4, <1>8, <2>3 DEF Inv, ListedInv
    <3> QED  BY <1>8, <2>3, <3>1 DEF ListedInv, AboutToUnlist
  <2> QED  BY <2>1, <2>2, <2>3
<1>17. \A g \in File : LoadedInv(g)'
  <2>1. input' \cup intermediate' = input \cup intermediate
    BY <1>3, <1>8
  <2> QED  BY <1>8, <2>1, LoadedKept
<1> QED  BY <1>12, <1>13, <1>14, <1>15, <1>16, <1>17 DEF Inv

LEMMA TopChangedKeeps == ASSUME Inv, NEW t \in LogType, TopChanged(t) PROVE Inv'
<1>1. TypeInv /\ FilesInv /\ ThreadsInv
  BY DEF Inv
<1>2. /\ t \notin locked /\ listed' = listed \cup {t} /\ changed' = [changed EXCEPT ![t] = None]
      /\ UNCHANGED <<receiverVars, aside>> /\ locked' = locked /\ thread' = thread
      /\ lines' = lines /\ loaded' = loaded /\ faults' = faults
      /\ interrupter' = interrupter /\ facade' = facade
  BY DEF TopChanged
<1>3. /\ \A u \in LogType : ReceiverInv(u)' /\ receiver'[u] = receiver[u]
      /\ receiver' \in [LogType -> Receiver] /\ unread' \in [LogType -> SUBSET File]
      /\ input' \in SUBSET File /\ intermediate' \in SUBSET File
      /\ aside' \in SUBSET File /\ FilesInv'
  BY <1>2, SameReceivers
<1>4. TypeInv'
  <2>1. changed' \in [LogType -> File \cup {None}]
    BY <1>1, <1>2 DEF TypeInv
  <2> QED  BY <1>1, <1>2, <1>3, <2>1 DEF TypeInv
<1>5. ThreadsInv'
  BY <1>1, <1>2 DEF ThreadsInv, receiverVars
<1>6. ASSUME NEW u \in LogType PROVE ScanInv(u)'
  BY <1>2, <1>3, ScanKept
<1>7. ASSUME NEW u \in LogType PROVE ListedInv(u)'
  <2>1. CASE u # t
    <3>1. changed'[u] = changed[u]
      BY <1>1, <1>2, <2>1 DEF TypeInv
    <3> QED  BY <1>2, <1>3, <2>1, <3>1, ListedKept
  <2>2. CASE u = t
    <3>1. ~AboutToUnlist(t)
      BY <1>1, <1>2 DEF AboutToUnlist, ThreadsInv, ThreadOK, Inside
    <3> QED  BY <1>2, <2>2, <3>1 DEF ListedInv, AboutToUnlist
  <2> QED  BY <2>1, <2>2
<1>8. \A f \in File : LoadedInv(f)'
  BY <1>2, LoadedKept DEF receiverVars
<1> QED  BY <1>3, <1>4, <1>5, <1>6, <1>7, <1>8 DEF Inv

-----------------------------------------------------------------------------
(* The steps of get_eldest.                                                *)

LEMMA BusyIs ==
    ASSUME NEW pc \in Steps, NEW t \in LogType \cup {None}, NEW f \in File \cup {None},
           NEW top \in Mark, NEW n \in Nat
    PROVE  /\ Busy(pc, t, f, top, n) \in ThreadState
           /\ Busy(pc, t, f, top, n).pc = pc /\ Busy(pc, t, f, top, n).type = t
           /\ Busy(pc, t, f, top, n).file = f /\ Busy(pc, t, f, top, n).top = top
           /\ Busy(pc, t, f, top, n).line = n
BY DEF Busy, ThreadState

LEMMA EmptyHanded ==
    ASSUME NEW pc \in Steps, NEW t \in LogType
    PROVE  /\ Busy(pc, t, None, None, 0) \in ThreadState
           /\ Busy(pc, t, None, None, 0).pc = pc /\ Busy(pc, t, None, None, 0).type = t
<1>1. /\ t \in LogType \cup {None} /\ None \in File \cup {None} /\ None \in Mark /\ 0 \in Nat
  BY Numbers
<1> QED  BY <1>1, BusyIs

LEMMA IdleIs ==
    /\ Idle \in ThreadState /\ Idle.pc = "idle" /\ ~Inside(Idle) /\ ~Holds(Idle)
    /\ \A rc, mid, lk : ThreadOK(Idle, rc, mid, lk)
BY Numbers DEF Idle, ThreadState, Steps, Inside, Holds, ThreadOK

(* A thread goes on without a file, and changes no receiver.               *)
GoesOn(c, s) ==
    /\ thread' = [thread EXCEPT ![c] = s]
    /\ thread[c].pc \notin {"load", "scan"} /\ s.pc \notin {"load", "list", "release"}
    /\ UNCHANGED <<receiverVars, aside, changed, listed, lines, loaded, faults>>
    /\ UNCHANGED <<interrupter, facade>>
    /\ locked \subseteq locked' /\ locked' \subseteq LogType
    /\ ThreadOK(s, receiver, intermediate, locked')
    /\ Inside(s) => s.type \notin locked \/ (Inside(thread[c]) /\ s.type = thread[c].type)

LEMMA GoesOnKeeps ==
    ASSUME Inv, NEW c \in Thread, NEW s \in ThreadState, GoesOn(c, s)
    PROVE  Inv'
<1>1. TypeInv /\ FilesInv /\ ThreadsInv
  BY DEF Inv
<1>2. /\ thread' = [thread EXCEPT ![c] = s]
      /\ UNCHANGED <<receiverVars, aside, changed, listed, lines, loaded, faults>>
      /\ UNCHANGED <<interrupter, facade>>
      /\ locked \subseteq locked' /\ locked' \subseteq LogType
      /\ receiver' = receiver /\ intermediate' = intermediate /\ input' = input
  BY DEF GoesOn, receiverVars
<1>3. /\ \A u \in LogType : ReceiverInv(u)' /\ receiver'[u] = receiver[u]
      /\ receiver' \in [LogType -> Receiver] /\ unread' \in [LogType -> SUBSET File]
      /\ input' \in SUBSET File /\ intermediate' \in SUBSET File
      /\ aside' \in SUBSET File /\ FilesInv'
  BY <1>2, SameReceivers
<1>4. thread[c].pc \notin {"load", "scan"} /\ s.pc \notin {"load", "list", "release"}
  BY DEF GoesOn
<1>5. ThreadsInv' /\ thread' \in [Thread -> ThreadState]
  <2>1. ThreadOK(s, receiver', intermediate', locked')
    BY <1>2 DEF GoesOn
  <2>2. ASSUME NEW d \in Thread, d # c
        PROVE ThreadOK(thread[d], receiver', intermediate', locked') /\ Apart(s, thread[d])
    <3>1. ThreadOK(thread[d], receiver, intermediate, locked) /\ Apart(thread[c], thread[d])
      BY <1>1, <2>2 DEF ThreadsInv
    <3>2. ThreadOK(thread[d], receiver', intermediate', locked')
      BY <1>2, <3>1 DEF ThreadOK
    <3>3. Apart(s, thread[d])
      BY <1>4, <3>1 DEF Apart, GoesOn, ThreadOK, Holds
    <3> QED  BY <3>2, <3>3
  <2> QED  BY <1>2, <2>1, <2>2, ThreadsOK
<1>6. thread'[c] = s /\ \A d \in Thread : d # c => thread'[d] = thread[d]
  BY <1>1, <1>2 DEF TypeInv
<1>7. TypeInv'
  BY <1>1, <1>2, <1>3, <1>5 DEF TypeInv
<1>8. ASSUME NEW u \in LogType PROVE ScanInv(u)' /\ ListedInv(u)'
  BY <1>2, <1>3, <1>4, <1>6, ScanKept, ListedKept
<1>9. \A f \in File : LoadedInv(f)'
  BY <1>2, <1>4, <1>6, LoadedKept
<1> QED  BY <1>3, <1>5, <1>7, <1>8, <1>9 DEF Inv

LEMMA ChooseKeeps == ASSUME Inv, NEW c \in Thread, NEW t \in LogType, Choose(c, t) PROVE Inv'
<1>1. PICK s : s = Busy("lock", t, None, None, 0)
  OBVIOUS
<1>2. s \in ThreadState /\ s.pc = "lock" /\ s.type = t
  BY <1>1, EmptyHanded DEF Steps
<1>3. ThreadOK(s, receiver, intermediate, locked') /\ ~Inside(s)
  BY <1>2 DEF ThreadOK, Inside, Holds
<1>4. locked' = locked /\ locked \subseteq LogType
  BY DEF Choose, facadeVars, Inv, TypeInv
<1>5. GoesOn(c, s)
  BY <1>1, <1>2, <1>3, <1>4 DEF GoesOn, Choose, Step, facadeVars
<1> QED  BY <1>2, <1>5, GoesOnKeeps

LEMMA LockKeeps == ASSUME Inv, NEW c \in Thread, NEW t \in LogType, Lock(c, t) PROVE Inv'
<1>1. PICK s : s = Busy("get", t, None, None, 0)
  OBVIOUS
<1>2. s \in ThreadState /\ s.pc = "get" /\ s.type = t
  BY <1>1, EmptyHanded DEF Steps
<1>3. locked' = locked \cup {t} /\ t \notin locked /\ locked \subseteq LogType
  BY DEF Lock, Inv, TypeInv
<1>4. ThreadOK(s, receiver, intermediate, locked')
  BY <1>2, <1>3 DEF ThreadOK, Inside, Holds
<1>5. GoesOn(c, s)
  BY <1>1, <1>2, <1>3, <1>4 DEF GoesOn, Lock, Step
<1> QED  BY <1>2, <1>5, GoesOnKeeps

LEMMA ToReadKeeps ==
    ASSUME Inv, NEW c \in Thread, NEW t \in LogType, NEW pc \in {"read", "take"},
           thread[c].pc \in {"get", "read"}, thread[c].type = t,
           pc = "take" => KnowsEldest(receiver[t]),
           Step(c, pc, t, None, None, 0),
           UNCHANGED <<receiverVars, facadeVars, interrupter, facade, lines, loaded, aside, faults>>
    PROVE  Inv'
<1>1. PICK s : s = Busy(pc, t, None, None, 0)
  OBVIOUS
<1>2. s \in ThreadState /\ s.pc = pc /\ s.type = t
  BY <1>1, EmptyHanded DEF Steps
<1>3. Inside(thread[c]) /\ Inside(s)
  BY <1>2 DEF Inside
<1>4. locked' = locked /\ locked \subseteq LogType /\ t \in locked
  BY <1>3 DEF facadeVars, Inv, TypeInv, ThreadsInv, ThreadOK
<1>5. ThreadOK(s, receiver, intermediate, locked')
  BY <1>2, <1>4 DEF ThreadOK, Holds
<1>6. GoesOn(c, s)
  BY <1>1, <1>2, <1>3, <1>4, <1>5 DEF GoesOn, Step, facadeVars
<1> QED  BY <1>2, <1>6, GoesOnKeeps

(* A thread in get_eldest of t goes on as s, and its receiver becomes q.   *)
Works(c, t, s, q, un) ==
    /\ Inside(thread[c]) /\ thread[c].type = t
    /\ thread' = [thread EXCEPT ![c] = s]
    /\ Becomes(t, q, un)
    /\ input' = input /\ intermediate' = intermediate
    /\ aside' \in SUBSET intermediate
    /\ UNCHANGED <<changed, listed, lines, loaded, interrupter, facade>>
    /\ faults' \in {faults, faults + 1}
    /\ s.pc # "load" /\ ThreadOK(s, receiver', intermediate, locked')
    /\ locked' = locked \/ (locked' = locked \ {t} /\ ~Inside(s))
    /\ Inside(s) => s.type = t
    /\ receiver[t].in_progress_files_ \subseteq q.in_progress_files_
    /\ Holds(s) => s.file \in NamesOf(t) \ receiver[t].in_progress_files_
    /\ q.fetch_internal_in_progress_ => s.pc = "scan" /\ s.type = t
    /\ Spent(receiver[t]) => Spent(q)
    /\ s.pc = "list" /\ (s.top = None \/ s.file = None) => Spent(q)

LEMMA WorksKeeps ==
    ASSUME Inv, NEW c \in Thread, NEW t \in LogType, NEW s \in ThreadState, NEW q, NEW un,
           Works(c, t, s, q, un)
    PROVE  Inv'
<1>1. TypeInv /\ FilesInv /\ ThreadsInv
  BY DEF Inv
<1>2. /\ Inside(thread[c]) /\ thread[c].type = t
      /\ thread' = [thread EXCEPT ![c] = s]
      /\ input' = input /\ intermediate' = intermediate
      /\ aside' \in SUBSET intermediate
      /\ UNCHANGED <<changed, listed, lines, loaded, interrupter, facade>>
      /\ faults' \in {faults, faults + 1}
      /\ s.pc # "load" /\ ThreadOK(s, receiver', intermediate, locked')
      /\ locked' = locked \/ (locked' = locked \ {t} /\ ~Inside(s))
      /\ Inside(s) => s.type = t
      /\ receiver[t].in_progress_files_ \subseteq q.in_progress_files_
      /\ Holds(s) => s.file \in NamesOf(t) \ receiver[t].in_progress_files_
      /\ q.fetch_internal_in_progress_ => s.pc = "scan" /\ s.type = t
  BY DEF Works
<1>3. /\ receiver' \in [LogType -> Receiver] /\ unread' \in [LogType -> SUBSET File]
      /\ \A u \in LogType : ReceiverInv(u)'
      /\ receiver'[t] = q
      /\ \A u \in LogType : u # t => receiver'[u] = receiver[u]
  BY ReceiversGood DEF Works
<1>4. FilesInv'
  BY <1>1, <1>2 DEF FilesInv
<1>5. ThreadsInv' /\ thread' \in [Thread -> ThreadState]
  <2>1. ASSUME NEW d \in Thread, d # c
        PROVE ThreadOK(thread[d], receiver', intermediate', locked') /\ Apart(s, thread[d])
    <3>1. PICK u \in ThreadState : u = thread[d]
      BY <1>1 DEF TypeInv
    <3>2. ThreadOK(u, receiver, intermediate, locked) /\ Apart(thread[c], u)
      BY <1>1, <2>1, <3>1 DEF ThreadsInv
    <3>3. Inside(u) => u.type # t /\ u.type \in LogType
      BY <1>2, <3>2 DEF Apart, ThreadOK
    <3>4. Holds(u) => u.file \in File /\ TypeOf[u.file] \in LogType
      BY <3>1, FileReceiverAssumption DEF Holds, ThreadState
    <3>5. ThreadOK(u, receiver', intermediate', locked')
      <4>1. Inside(u) => u.type \in locked'
        BY <1>2, <3>2, <3>3 DEF ThreadOK
      <4>2. u.pc = "scan" => receiver'[u.type].fetch_internal_in_progress_
        BY <1>3, <3>2, <3>3 DEF ThreadOK, Inside
      <4>3. u.pc = "take" => KnowsEldest(receiver'[u.type])
        BY <1>3, <3>2, <3>3 DEF ThreadOK, Inside
      <4>4. Holds(u) => u.file \in receiver'[TypeOf[u.file]].in_progress_files_
        BY <1>2, <1>3, <3>2, <3>4 DEF ThreadOK
      <4> QED  BY <1>2, <3>2, <4>1, <4>2, <4>3, <4>4 DEF ThreadOK
    <3>6. Apart(s, u)
      <4>1. ~(Inside(s) /\ Inside(u) /\ s.type = u.type)
        BY <1>2, <3>3
      <4>2. ASSUME Holds(s), Holds(u), s.file = u.file PROVE FALSE
        <5>1. TypeOf[s.file] = t /\ s.file \notin receiver[t].in_progress_files_
          BY <1>2, <4>2 DEF NamesOf
        <5> QED  BY <3>2, <4>2, <5>1 DEF ThreadOK
      <4> QED  BY <4>1, <4>2 DEF Apart
    <3> QED  BY <3>1, <3>5, <3>6
  <2>2. ThreadOK(s, receiver', intermediate', locked')
    BY <1>2
  <2> QED  BY <1>2, <2>1, <2>2, ThreadsOK
<1>6. thread'[c] = s /\ \A d \in Thread : d # c => thread'[d] = thread[d]
  BY <1>1, <1>2 DEF TypeInv
<1>7. TypeInv'
  <2>1. locked' \in SUBSET LogType /\ aside' \in SUBSET File /\ faults' \in Nat
    BY <1>1, <1>2 DEF TypeInv
  <2> QED  BY <1>1, <1>2, <1>3, <1>5, <2>1 DEF TypeInv
<1>8. ASSUME NEW u \in LogType PROVE ScanInv(u)'
  <2>1. CASE u # t
    BY <1>2, <1>3, <1>6, <2>1, ScanKept
  <2>2. CASE u = t
    BY <1>2, <1>3, <1>6, <2>2 DEF ScanInv
  <2> QED  BY <2>1, <2>2
<1>9. ASSUME NEW u \in LogType PROVE ListedInv(u)'
  <2>1. CASE u # t
    <3>1. ~(s.pc = "list" /\ s.type = u)
      BY <1>2, <2>1 DEF Inside
    <3> QED  BY <1>2, <1>3, <1>6, <2>1, <3>1, ListedKept
  <2>2. CASE u = t /\ Spent(receiver[t])
    BY <1>3, <2>2 DEF Works, ListedInv
  <2>3. CASE u = t /\ ~Spent(receiver[t])
    <3>1. (t \in listed /\ ~AboutToUnlist(t)) \/ changed[t] # None
      BY <2>3 DEF Inv, ListedInv
    <3>2. s.pc = "list" /\ (s.top = None \/ s.file = None) => Spent(receiver'[t])
      BY <1>3 DEF Works
    <3>3. ASSUME AboutToUnlist(t)', ~AboutToUnlist(t) PROVE Spent(receiver'[t])
      BY <1>6, <3>2, <3>3 DEF AboutToUnlist
    <3> QED  BY <1>2, <2>3, <3>1, <3>3 DEF ListedInv
  <2> QED  BY <2>1, <2>2, <2>3
<1>10. \A f \in File : LoadedInv(f)'
  <2>1. thread[c].pc # "load"
    BY <1>2 DEF Inside
  <2> QED  BY <1>2, <1>6, <2>1, LoadedKept
<1> QED  BY <1>3, <1>4, <1>5, <1>7, <1>8, <1>9, <1>10 DEF Inv

LEMMA BeginFetchKeeps ==
    ASSUME Inv, NEW c \in Thread, NEW t \in LogType,
           thread[c].pc = "read", thread[c].type = t, BeginFetch(t),
           Step(c, "scan", t, None, None, 0),
           UNCHANGED <<facadeVars, interrupter, facade, lines, loaded, aside, faults>>
    PROVE  Inv'
<1>1. PICK s : s = Busy("scan", t, None, None, 0)
  OBVIOUS
<1>2. s \in ThreadState /\ s.pc = "scan" /\ s.type = t
  BY <1>1, EmptyHanded DEF Steps
<1>3. TypeInv /\ FilesInv /\ ThreadsInv /\ Inside(thread[c])
  BY DEF Inv, Inside
<1>4. PICK r \in Receiver : r = receiver[t]
  BY <1>3 DEF TypeInv
<1>5. Good(r, {}, NamesOf(t), input, intermediate, aside) /\ ~KnowsEldest(r)
  BY <1>3, <1>4, NoRead DEF Inv, ReceiverInv, BeginFetch
<1>6. PICK q : q = Reading(r)
  OBVIOUS
<1>7. Good(q, intermediate \cap NamesOf(t), NamesOf(t), input, intermediate, aside)
  BY <1>5, <1>6, GoodReading DEF NamesOf
<1>8. /\ receiver' = [receiver EXCEPT ![t] = q] /\ input' = input /\ intermediate' = intermediate
      /\ unread' = [unread EXCEPT ![t] = intermediate \cap NamesOf(t)] /\ aside' = aside
      /\ receiver'[t] = q
  BY <1>3, <1>4, <1>6 DEF BeginFetch, Become, TypeInv
<1>9. /\ q.in_progress_files_ = r.in_progress_files_ /\ q.fetch_internal_in_progress_
      /\ ~Spent(r)
  BY <1>5, <1>6 DEF Reading, Receiver, Spent, KnowsEldest
<1>10. locked' = locked /\ t \in locked
  BY <1>3 DEF facadeVars, ThreadsInv, ThreadOK
<1>11. ThreadOK(s, receiver', intermediate, locked')
  BY <1>2, <1>8, <1>9, <1>10 DEF ThreadOK, Holds
<1>12. Becomes(t, q, intermediate \cap NamesOf(t))
  BY <1>7, <1>8 DEF Becomes
<1>13. Works(c, t, s, q, intermediate \cap NamesOf(t))
  BY <1>1, <1>2, <1>3, <1>4, <1>8, <1>9, <1>10, <1>11, <1>12
     DEF Works, Step, facadeVars, FilesInv, Holds
<1> QED  BY <1>2, <1>13, WorksKeeps

LEMMA ScanKeeps ==
    ASSUME Inv, NEW c \in Thread, NEW t \in LogType, NEW f \in File, Scan(c, t, f)
    PROVE  Inv'
<1>1. TypeInv /\ FilesInv /\ ThreadsInv /\ thread[c].pc = "scan" /\ thread[c].type = t
  BY DEF Inv, Scan
<1>2. PICK s \in ThreadState : s = thread[c]
  BY <1>1 DEF TypeInv
<1>3. PICK r \in Receiver : r = receiver[t]
  BY <1>1 DEF TypeInv
<1>4. PICK un : un = unread[t]
  OBVIOUS
<1>5. /\ Good(r, un, NamesOf(t), input, intermediate, aside) /\ f \in un
      /\ r.fetch_internal_in_progress_
  BY <1>1, <1>3, <1>4 DEF Inv, ReceiverInv, Scan, HandleEntry, ThreadsInv, ThreadOK
<1>6. PICK q : q = Found(r, f)
  OBVIOUS
<1>7. /\ receiver' = [receiver EXCEPT ![t] = q] /\ input' = input /\ intermediate' = intermediate
      /\ unread' = [unread EXCEPT ![t] = un \ {f}]
      /\ aside' = IF f \in r.in_progress_files_ \cup r.processed_files_ THEN aside
                  ELSE aside \ {f}
      /\ thread' = thread
      /\ UNCHANGED <<facadeVars, interrupter, facade, lines, loaded, faults>>
  BY <1>3, <1>4, <1>6 DEF Scan, HandleEntry, Become
<1>8. /\ Good(q, un \ {f}, NamesOf(t), input, intermediate, aside')
      /\ q.in_progress_files_ = r.in_progress_files_ /\ q.fetch_internal_in_progress_
  <2>1. CASE f \in r.in_progress_files_ \cup r.processed_files_
    <3>1. q = r /\ aside' = aside
      BY <1>6, <1>7, <2>1 DEF Found
    <3> QED  BY <1>5, <2>1, <3>1, GoodPassed
  <2>2. CASE f \notin r.in_progress_files_ \cup r.processed_files_
    <3>1. q = AddFile(r, f) /\ aside' = aside \ {f}
      BY <1>6, <1>7, <2>2 DEF Found
    <3>2. Added(q, r, f)
      BY <1>5, <3>1, AddFileAdds DEF Good, Sets
    <3>3. Good(q, un \ {f}, NamesOf(t), input, intermediate, aside \ {f})
      BY <1>5, <2>2, <3>1, GoodFound DEF NamesOf
    <3> QED  BY <1>5, <3>1, <3>2, <3>3 DEF Added
  <2> QED  BY <2>1, <2>2
<1>9. f \in NamesOf(t)
  BY <1>5 DEF Good, Sets
<1>10. aside' \ NamesOf(t) = aside \ NamesOf(t)
  BY <1>7, <1>9
<1>11. Becomes(t, q, un \ {f})
  BY <1>7, <1>8, <1>10 DEF Becomes
<1>12. receiver'[t] = q /\ thread' = [thread EXCEPT ![c] = s] /\ locked' = locked
  BY <1>1, <1>2, <1>7 DEF TypeInv, facadeVars
<1>13. ThreadOK(s, receiver', intermediate', locked') /\ Inside(s) /\ ~Holds(s) /\ s.pc = "scan"
  <2>1. ThreadOK(s, receiver, intermediate, locked)
    BY <1>1, <1>2 DEF ThreadsInv
  <2> QED  BY <1>1, <1>2, <1>8, <1>12, <2>1 DEF ThreadOK, Inside, Holds
<1>14. aside' \in SUBSET intermediate
  BY <1>1, <1>7 DEF FilesInv
<1>15. Works(c, t, s, q, un \ {f})
  BY <1>1, <1>2, <1>3, <1>5, <1>7, <1>8, <1>11, <1>12, <1>13, <1>14 DEF Works, facadeVars, Spent
<1> QED  BY <1>2, <1>15, WorksKeeps

LEMMA EndScanKeeps ==
    ASSUME Inv, NEW c \in Thread, NEW t \in LogType, EndScan(c, t)
    PROVE  Inv'
<1>1. TypeInv /\ FilesInv /\ ThreadsInv /\ thread[c].pc = "scan" /\ thread[c].type = t
  BY DEF Inv, EndScan
<1>2. PICK s : s = Busy("take", t, None, None, 0)
  OBVIOUS
<1>3. s \in ThreadState /\ s.pc = "take" /\ s.type = t
  BY <1>2, EmptyHanded DEF Steps
<1>4. PICK r \in Receiver : r = receiver[t]
  BY <1>1 DEF TypeInv
<1>5. /\ Good(r, {}, NamesOf(t), input, intermediate, aside) /\ unread[t] = {}
      /\ r.fetch_internal_in_progress_ /\ KnowsEldest(r)
  BY <1>1, <1>4 DEF Inv, ReceiverInv, EndScan, EndFetch, ThreadsInv, ThreadOK, Good
<1>6. PICK q : q = ReadAll(r)
  OBVIOUS
<1>7. Good(q, {}, NamesOf(t), input, intermediate, aside)
  BY <1>5, <1>6, GoodReadAll
<1>8. /\ receiver' = [receiver EXCEPT ![t] = q] /\ input' = input /\ intermediate' = intermediate
      /\ unread' = [unread EXCEPT ![t] = {}] /\ aside' = aside
      /\ receiver'[t] = q /\ thread' = [thread EXCEPT ![c] = s]
      /\ UNCHANGED <<facadeVars, interrupter, facade, lines, loaded, faults>>
  BY <1>1, <1>2, <1>4, <1>5, <1>6 DEF EndScan, EndFetch, Become, TypeInv, Step
<1>9. /\ q.in_progress_files_ = r.in_progress_files_ /\ ~q.fetch_internal_in_progress_
      /\ KnowsEldest(q)
  BY <1>4, <1>5, <1>6 DEF ReadAll, Receiver, KnowsEldest
<1>10. locked' = locked /\ t \in locked
  BY <1>1, <1>8 DEF facadeVars, ThreadsInv, ThreadOK, Inside
<1>11. ThreadOK(s, receiver', intermediate', locked')
  BY <1>3, <1>8, <1>9, <1>10 DEF ThreadOK, Holds
<1>12. Becomes(t, q, {})
  BY <1>7, <1>8 DEF Becomes
<1>13. Works(c, t, s, q, {})
  BY <1>1, <1>3, <1>4, <1>5, <1>8, <1>9, <1>10, <1>11, <1>12
     DEF Works, facadeVars, FilesInv, Holds, Inside, Spent
<1> QED  BY <1>3, <1>13, WorksKeeps

LEMMA ScanFailsKeeps ==
    ASSUME Inv, NEW c \in Thread, NEW t \in LogType, ScanFails(c, t)
    PROVE  Inv'
<1>1. TypeInv /\ FilesInv /\ ThreadsInv /\ thread[c].pc = "scan" /\ thread[c].type = t
  BY DEF Inv, ScanFails
<1>2. PICK r \in Receiver : r = receiver[t]
  BY <1>1 DEF TypeInv
<1>3. PICK un : un = unread[t]
  OBVIOUS
<1>4. /\ Good(r, un, NamesOf(t), input, intermediate, aside)
      /\ r.fetch_internal_in_progress_
  BY <1>1, <1>2, <1>3 DEF Inv, ReceiverInv, ThreadsInv, ThreadOK
<1>5. PICK q : q = ReadFailed(r)
  OBVIOUS
<1>6. Good(q, {}, NamesOf(t), input, intermediate, aside)
  BY <1>4, <1>5, GoodReadFailed DEF NamesOf
<1>7. /\ receiver' = [receiver EXCEPT ![t] = q] /\ input' = input /\ intermediate' = intermediate
      /\ unread' = [unread EXCEPT ![t] = {}] /\ aside' = aside
      /\ receiver'[t] = q /\ thread' = [thread EXCEPT ![c] = Idle]
      /\ faults' \in {faults, faults + 1} /\ locked' = locked \ {t}
      /\ UNCHANGED <<listed, key, changed, interrupter, facade, lines, loaded>>
  BY <1>1, <1>2, <1>5 DEF ScanFails, FetchFails, Become, TypeInv, Enter
<1>8. q.in_progress_files_ = r.in_progress_files_ /\ ~q.fetch_internal_in_progress_
  BY <1>4, <1>5 DEF ReadFailed, Receiver
<1>9. Becomes(t, q, {})
  BY <1>6, <1>7 DEF Becomes
<1>10. Works(c, t, Idle, q, {})
  BY <1>1, <1>2, <1>4, <1>7, <1>8, <1>9, IdleIs DEF Works, FilesInv, Spent, Inside
<1> QED  BY <1>10, IdleIs, WorksKeeps

(* The eldest of the files is given, if there is one.                      *)
Gives(c, t) ==
    /\ thread[c].pc \in {"get", "take"} /\ thread[c].type = t
    /\ KnowsEldest(receiver[t])
    /\ TakeEldest(t)
    /\ Step(c, "list", t, Taken(t), Top(WithoutEldest(receiver[t])), 0)
    /\ UNCHANGED <<facadeVars, interrupter, facade, lines, loaded, aside, faults>>

LEMMA TopIs ==
    ASSUME NEW r \in Receiver
    PROVE  /\ Top(r) \in Mark
           /\ Top(r) = None => r.files_ = {} /\ r.oldest_not_in_files_ = None
<1>1. r.files_ \in SUBSET Nat /\ r.files_ \in SUBSET File /\ r.oldest_not_in_files_ \in Mark
  BY Numbers DEF Receiver
<1>2. CASE r.files_ = {}
  BY <1>1, <1>2 DEF Top
<1>3. CASE r.files_ # {}
  <2>1. PICK e \in File : e = Eldest(r.files_)
    BY <1>1, <1>3, EldestIs
  <2>2. e \in Mark /\ e # None
    BY Numbers DEF Mark
  <2>3. Top(r) = IF r.oldest_not_in_files_ = None THEN e ELSE Lower(r.oldest_not_in_files_, e)
    BY <1>3, <2>1 DEF Top
  <2> QED  BY <1>1, <2>2, <2>3, LowerIs
<1> QED  BY <1>2, <1>3

LEMMA GivesKeeps ==
    ASSUME Inv, NEW c \in Thread, NEW t \in LogType, Gives(c, t)
    PROVE  Inv'
<1>1. /\ TypeInv /\ FilesInv /\ ThreadsInv /\ Inside(thread[c]) /\ thread[c].type = t
      /\ thread[c].pc # "scan"
  BY DEF Inv, Gives, Inside
<1>2. PICK r \in Receiver : r = receiver[t]
  BY <1>1 DEF TypeInv
<1>3. /\ Good(r, {}, NamesOf(t), input, intermediate, aside) /\ unread[t] = {}
      /\ ~r.fetch_internal_in_progress_ /\ KnowsEldest(r)
  BY <1>1, <1>2, NoRead DEF Inv, ReceiverInv, Gives
<1>4. PICK q : q = WithoutEldest(r)
  OBVIOUS
<1>5. PICK f : f = Taken(t)
  OBVIOUS
<1>6. /\ Good(q, {}, NamesOf(t), input, intermediate, aside) /\ ~q.fetch_internal_in_progress_
      /\ \/ f = None /\ q = r /\ r.files_ = {}
         \/ /\ q.in_progress_files_ = r.in_progress_files_ \cup {f} /\ r.files_ # {}
            /\ f \in WaitingOf(r, NamesOf(t), intermediate, aside)
  <2>1. CASE r.files_ = {}
    BY <1>2, <1>3, <1>4, <1>5, <2>1 DEF WithoutEldest, Taken
  <2>2. CASE r.files_ # {}
    <3>1. f = Eldest(r.files_)
      BY <1>2, <1>5, <2>2 DEF Taken
    <3>2. ~q.fetch_internal_in_progress_
      BY <1>3, <1>4 DEF WithoutEldest, Receiver
    <3>3. MayGive(r, f, NamesOf(t), input, intermediate, aside)
      BY <1>1, <1>3, <2>2, <3>1 DEF MayGive, NamesOf, FilesInv
    <3> QED  BY <1>4, <2>2, <3>2, <3>3, GoodTaken
  <2> QED  BY <2>1, <2>2
<1>7. q \in Receiver
  BY <1>6 DEF Good, Sets
<1>8. PICK top \in Mark : top = Top(q)
  BY <1>7, TopIs
<1>9. PICK s : s = Busy("list", t, f, top, 0)
  OBVIOUS
<1>10. f \in File \cup {None}
  BY <1>6 DEF WaitingOf, NamesOf
<1>11. /\ s \in ThreadState /\ s.pc = "list" /\ s.type = t /\ s.file = f /\ s.top = top
  <2>1. t \in LogType \cup {None} /\ 0 \in Nat /\ "list" \in Steps
    BY DEF Steps
  <2> QED  BY <1>9, <1>10, <2>1, BusyIs
<1>12. /\ receiver' = [receiver EXCEPT ![t] = q] /\ input' = input /\ intermediate' = intermediate
       /\ unread' = [unread EXCEPT ![t] = {}] /\ aside' = aside
       /\ receiver'[t] = q /\ thread' = [thread EXCEPT ![c] = s]
       /\ UNCHANGED <<facadeVars, interrupter, facade, lines, loaded, faults>>
  BY <1>1, <1>2, <1>3, <1>4, <1>5, <1>8, <1>9 DEF Gives, TakeEldest, Become, TypeInv, Step
<1>13. Becomes(t, q, {})
  BY <1>6, <1>12 DEF Becomes
<1>14. locked' = locked /\ t \in locked
  BY <1>1, <1>12 DEF facadeVars, ThreadsInv, ThreadOK
<1>15. Holds(s) => /\ f \in NamesOf(t) \ r.in_progress_files_ /\ f \in intermediate
                   /\ f \in q.in_progress_files_ /\ TypeOf[f] = t
  BY <1>6, <1>11 DEF Holds, WaitingOf, NamesOf
<1>16. ThreadOK(s, receiver', intermediate', locked')
  BY <1>11, <1>12, <1>14, <1>15 DEF ThreadOK
<1>17. Spent(r) => Spent(q)
  BY <1>6 DEF Spent
<1>18. ASSUME top = None \/ f = None PROVE Spent(q)
  <2>1. CASE top = None
    BY <1>6, <1>7, <1>8, <2>1, TopIs DEF Spent
  <2>2. CASE f = None
    <3>1. f \notin WaitingOf(r, NamesOf(t), intermediate, aside)
      BY <2>2, Numbers DEF WaitingOf, NamesOf
    <3> QED  BY <1>3, <1>6, <3>1 DEF Spent, KnowsEldest
  <2> QED  BY <1>18, <2>1, <2>2
<1>19. r.in_progress_files_ \subseteq q.in_progress_files_
  BY <1>6
<1>20. Works(c, t, s, q, {})
  BY <1>1, <1>2, <1>6, <1>11, <1>12, <1>13, <1>14, <1>15, <1>16, <1>17, <1>18, <1>19
     DEF Works, facadeVars, FilesInv, Inside
<1> QED  BY <1>11, <1>20, WorksKeeps

LEMMA GetKeeps == ASSUME Inv, NEW c \in Thread, NEW t \in LogType, Get(c, t) PROVE Inv'
<1>1. CASE GivesDirectly(receiver[t])
  <2>1. Gives(c, t)
    BY <1>1 DEF Get, Gives, GivesDirectly
  <2> QED  BY <2>1, GivesKeeps
<1>2. CASE ~GivesDirectly(receiver[t])
  BY <1>2, ToReadKeeps DEF Get
<1> QED  BY <1>1, <1>2

LEMMA ReadKeeps == ASSUME Inv, NEW c \in Thread, NEW t \in LogType, Read(c, t) PROVE Inv'
<1>1. CASE BeginFetch(t)
  <2>1. Step(c, "scan", t, None, None, 0)
    BY <1>1 DEF Read, BeginFetch
  <2> QED  BY <1>1, <2>1, BeginFetchKeeps DEF Read
<1>2. CASE ~BeginFetch(t)
  BY <1>2, ToReadKeeps DEF Read
<1> QED  BY <1>1, <1>2

LEMMA TakeKeeps == ASSUME Inv, NEW c \in Thread, NEW t \in LogType, Take(c, t) PROVE Inv'
<1>1. KnowsEldest(receiver[t])
  BY DEF Take, Inv, ThreadsInv, ThreadOK
<1>2. Gives(c, t)
  BY <1>1 DEF Take, Gives
<1> QED  BY <1>2, GivesKeeps

(* The work on the file begins with the line in its name.                  *)
LEMMA ListKeeps == ASSUME Inv, NEW c \in Thread, NEW t \in LogType, List(c, t) PROVE Inv'
<1>1. /\ TypeInv /\ FilesInv /\ ThreadsInv /\ thread[c].pc = "list" /\ thread[c].type = t
  BY DEF Inv, List
<1>2. PICK o \in ThreadState : o = thread[c]
  BY <1>1 DEF TypeInv
<1>3. PICK f \in File \cup {None} : f = o.file
  BY <1>2 DEF ThreadState
<1>4. PICK last \in BOOLEAN : last = (o.top = None \/ f = None)
  OBVIOUS
<1>5. /\ listed' = IF last THEN listed \ {t} ELSE listed
      /\ locked' = locked \ {t}
      /\ UNCHANGED <<receiverVars, aside, changed, interrupter, facade, lines, loaded, faults>>
  BY <1>2, <1>3, <1>4 DEF List
<1>6. PICK s : s = IF f = None THEN Idle ELSE Busy("load", t, f, None, lines[f])
  OBVIOUS
<1>7. thread' = [thread EXCEPT ![c] = s]
  BY <1>2, <1>3, <1>6 DEF List, Enter, Step
<1>8. /\ s \in ThreadState /\ ~Inside(s)
      /\ \/ f = None /\ s = Idle
         \/ f \in File /\ s.pc = "load" /\ s.file = f /\ s.line = lines[f]
  <2>1. CASE f = None
    BY <1>6, <2>1, IdleIs
  <2>2. CASE f # None
    <3>1. /\ f \in File /\ lines[f] \in Nat /\ t \in LogType \cup {None} /\ None \in Mark
          /\ "load" \in Steps
      BY <1>1, <2>2, Numbers DEF TypeInv, Steps
    <3> QED  BY <1>6, <2>2, <3>1, BusyIs DEF Inside
  <2> QED  BY <2>1, <2>2
<1>9. ThreadOK(o, receiver, intermediate, locked) /\ Inside(o) /\ (Holds(o) <=> f # None)
  BY <1>1, <1>2, <1>3 DEF ThreadsInv, Inside, Holds
<1>10. /\ \A u \in LogType : ReceiverInv(u)' /\ receiver'[u] = receiver[u]
       /\ receiver' \in [LogType -> Receiver] /\ unread' \in [LogType -> SUBSET File]
       /\ input' \in SUBSET File /\ intermediate' \in SUBSET File
       /\ aside' \in SUBSET File /\ FilesInv'
  BY <1>5, SameReceivers
<1>11. ThreadsInv' /\ thread' \in [Thread -> ThreadState]
  <2>1. ThreadOK(s, receiver', intermediate', locked')
    <3>1. CASE f = None
      BY <1>8, <3>1, IdleIs, Numbers
    <3>2. CASE f # None
      BY <1>1, <1>2, <1>3, <1>5, <1>8, <1>9, <3>2 DEF ThreadOK, Holds, receiverVars
    <3> QED  BY <3>1, <3>2
  <2>2. ASSUME NEW d \in Thread, d # c
        PROVE ThreadOK(thread[d], receiver', intermediate', locked') /\ Apart(s, thread[d])
    <3>1. ThreadOK(thread[d], receiver, intermediate, locked) /\ Apart(o, thread[d])
      BY <1>1, <1>2, <2>2 DEF ThreadsInv
    <3>2. Inside(thread[d]) => thread[d].type \in locked'
      BY <1>1, <1>2, <1>5, <1>9, <3>1 DEF Apart, ThreadOK
    <3>3. ThreadOK(thread[d], receiver', intermediate', locked')
      BY <1>5, <3>1, <3>2 DEF ThreadOK, receiverVars
    <3>4. Holds(s) => Holds(o) /\ s.file = o.file
      BY <1>3, <1>8, <1>9, IdleIs, Numbers
    <3>5. Apart(s, thread[d])
      BY <1>8, <3>1, <3>4 DEF Apart
    <3> QED  BY <3>3, <3>5
  <2> QED  BY <1>7, <1>8, <2>1, <2>2, ThreadsOK
<1>12. thread'[c] = s /\ \A d \in Thread : d # c => thread'[d] = thread[d]
  BY <1>1, <1>7 DEF TypeInv
<1>13. TypeInv'
  BY <1>1, <1>5, <1>10, <1>11 DEF TypeInv
<1>14. ASSUME NEW u \in LogType PROVE ScanInv(u)'
  BY <1>1, <1>10, <1>12, ScanKept
<1>15. ASSUME NEW u \in LogType PROVE ListedInv(u)'
  <2>1. s.pc # "list"
    BY <1>8 DEF Inside
  <2>2. CASE u \in listed => u \in listed'
    BY <1>5, <1>10, <1>12, <2>1, <2>2, ListedKept
  <2>3. CASE u \in listed /\ u \notin listed'
    <3>1. u = t /\ AboutToUnlist(t)
      BY <1>1, <1>2, <1>3, <1>4, <1>5, <2>3 DEF AboutToUnlist
    <3>2. changed[t] # None \/ Spent(receiver[t])
      BY <3>1 DEF Inv, ListedInv
    <3> QED  BY <1>5, <1>10, <3>1, <3>2 DEF ListedInv
  <2> QED  BY <2>2, <2>3
<1>16. ASSUME NEW g \in File PROVE LoadedInv(g)'
  <2>1. LoadedInv(g)
    BY DEF Inv
  <2>2. intermediate' = intermediate /\ input' = input
    BY <1>5 DEF receiverVars
  <2>3. CASE g # f \/ f = None
    <3>1. ASSUME NEW d \in Thread PROVE AtWork(d, g)' <=> AtWork(d, g)
      <4>1. CASE d # c
        BY <1>12, <4>1 DEF AtWork
      <4>2. CASE d = c
        <5>1. ~AtWork(c, g)
          BY <1>1 DEF AtWork
        <5>2. ~(s.pc = "load" /\ s.file = g)
          BY <1>8, <2>3, IdleIs, Numbers
        <5> QED  BY <1>12, <4>2, <5>1, <5>2 DEF AtWork
      <4> QED  BY <4>1, <4>2
    <3>2. \A d \in Thread : AtWork(d, g) => thread'[d] = thread[d]
      BY <1>1, <1>12 DEF AtWork
    <3> QED  BY <1>5, <2>1, <2>2, <3>1, <3>2 DEF LoadedInv
  <2>4. CASE g = f /\ f # None
    <3>1. \A d \in Thread : ~AtWork(d, g)
      <4> SUFFICES ASSUME NEW d \in Thread, AtWork(d, g) PROVE FALSE
        OBVIOUS
      <4>1. d # c /\ Holds(thread[d])
        BY <1>1, <2>4 DEF AtWork, Holds
      <4>2. Apart(o, thread[d])
        BY <1>1, <1>2, <4>1 DEF ThreadsInv
      <4> QED  BY <1>3, <1>9, <2>4, <4>1, <4>2 DEF Apart, AtWork
    <3>2. f \in intermediate
      BY <1>1, <1>2, <1>3, <1>9, <2>4 DEF ThreadOK
    <3>3. \A d \in Thread : AtWork(d, g)' => d = c
      BY <1>12, <3>1 DEF AtWork
    <3>4. thread'[c].line = lines[g] /\ AtWork(c, g)'
      BY <1>8, <1>12, <2>4 DEF AtWork
    <3>5. faults = 0 => loaded[g] = lines[g]
      BY <2>1, <2>4, <3>1, <3>2 DEF LoadedInv
    <3> QED  BY <1>5, <2>1, <2>2, <3>3, <3>4, <3>5 DEF LoadedInv
  <2> QED  BY <2>3, <2>4
<1> QED  BY <1>10, <1>11, <1>13, <1>14, <1>15, <1>16 DEF Inv

-----------------------------------------------------------------------------
(* The steps of a thread with a file.                                      *)

(* It goes on with the file, or has done with it.                          *)
OnFile(c, f, s) ==
    /\ thread[c].pc = "load" /\ thread[c].file = f
    /\ s \in ThreadState /\ s.pc \in {"load", "release"} /\ s.file = f
    /\ thread' = [thread EXCEPT ![c] = s]
    /\ UNCHANGED <<input, receiver, unread, facadeVars, interrupter, facade, aside>>
    /\ intermediate' \in {intermediate, intermediate \ {f}}
    /\ s.pc = "load" => intermediate' = intermediate
    /\ lines' \in [File -> Nat] /\ loaded' \in [File -> Nat]
    /\ \A g \in File : g # f => lines'[g] = lines[g] /\ loaded'[g] = loaded[g]
    /\ faults' \in {faults, faults + 1}

LEMMA OnFileKeeps ==
    ASSUME Inv, NEW c \in Thread, NEW f \in File, NEW s, OnFile(c, f, s), LoadedInv(f)'
    PROVE  Inv'
<1>1. TypeInv /\ FilesInv /\ ThreadsInv
  BY DEF Inv
<1>2. /\ thread[c].pc = "load" /\ thread[c].file = f
      /\ s \in ThreadState /\ s.pc \in {"load", "release"} /\ s.file = f
      /\ thread' = [thread EXCEPT ![c] = s]
      /\ UNCHANGED <<input, receiver, unread, facadeVars, interrupter, facade, aside>>
      /\ intermediate' \in {intermediate, intermediate \ {f}}
      /\ s.pc = "load" => intermediate' = intermediate
      /\ lines' \in [File -> Nat] /\ loaded' \in [File -> Nat]
      /\ \A g \in File : g # f => lines'[g] = lines[g] /\ loaded'[g] = loaded[g]
      /\ faults' \in {faults, faults + 1}
  BY DEF OnFile
<1>3. PICK o \in ThreadState : o = thread[c]
  BY <1>1 DEF TypeInv
<1>4. ThreadOK(o, receiver, intermediate, locked) /\ Holds(o) /\ ~Inside(o) /\ f # None
  BY <1>1, <1>2, <1>3, Numbers DEF ThreadsInv, Holds, Inside
<1>5. PICK t \in LogType : t = TypeOf[f]
  BY FileReceiverAssumption
<1>6. /\ f \in receiver[t].in_progress_files_ /\ f \in NamesOf(t)
      /\ f \notin aside /\ f \in intermediate
  <2>1. f \in receiver[t].in_progress_files_ /\ f \in intermediate
    BY <1>2, <1>3, <1>4, <1>5 DEF ThreadOK
  <2> QED  BY <1>5, <2>1 DEF Inv, ReceiverInv, Good, Sets
<1>7. ASSUME NEW u \in LogType PROVE ReceiverInv(u)'
  <2>1. Good(receiver[u], unread[u], NamesOf(u), input, intermediate, aside)
    BY DEF Inv, ReceiverInv
  <2>2. CASE u = t
    <3>1. Good(receiver[u], unread[u], NamesOf(u), input, intermediate \ {f}, aside)
      BY <1>6, <2>1, <2>2, GoodDeleted
    <3>2. Good(receiver[u], unread[u], NamesOf(u), input, intermediate', aside)
      BY <1>2, <2>1, <3>1
    <3> QED  BY <1>2, <3>2 DEF ReceiverInv
  <2>3. CASE u # t
    <3>1. intermediate' \cap NamesOf(u) = intermediate \cap NamesOf(u)
      BY <1>2, <1>5, <2>3 DEF NamesOf
    <3>2. Good(receiver[u], unread[u], NamesOf(u), input, intermediate', aside)
      BY <2>1, <3>1, GoodKept
    <3> QED  BY <1>2, <3>2 DEF ReceiverInv
  <2> QED  BY <2>2, <2>3
<1>8. FilesInv'
  BY <1>1, <1>2, <1>6 DEF FilesInv
<1>9. locked' = locked /\ listed' = listed /\ changed' = changed
  BY <1>2 DEF facadeVars
<1>10. ThreadsInv' /\ thread' \in [Thread -> ThreadState]
  <2>1. ThreadOK(s, receiver', intermediate', locked')
    BY <1>2, <1>3, <1>4, <1>6 DEF ThreadOK, Inside, Holds
  <2>2. ASSUME NEW d \in Thread, d # c
        PROVE ThreadOK(thread[d], receiver', intermediate', locked') /\ Apart(s, thread[d])
    <3>1. ThreadOK(thread[d], receiver, intermediate, locked) /\ Apart(o, thread[d])
      BY <1>1, <1>3, <2>2 DEF ThreadsInv
    <3>2. Holds(thread[d]) => thread[d].file # f
      BY <1>2, <1>3, <1>4, <3>1 DEF Apart
    <3>3. ThreadOK(thread[d], receiver', intermediate', locked')
      BY <1>2, <1>9, <3>1, <3>2 DEF ThreadOK
    <3>4. ~Inside(s)
      BY <1>2 DEF Inside
    <3> QED  BY <1>2, <3>2, <3>3, <3>4 DEF Apart
  <2> QED  BY <1>2, <2>1, <2>2, ThreadsOK
<1>11. thread'[c] = s /\ \A d \in Thread : d # c => thread'[d] = thread[d]
  BY <1>1, <1>2 DEF TypeInv
<1>12. TypeInv'
  BY <1>1, <1>2, <1>9, <1>10 DEF TypeInv
<1>13. ASSUME NEW u \in LogType PROVE ScanInv(u)' /\ ListedInv(u)'
  <2>1. receiver'[u] = receiver[u] /\ changed'[u] = changed[u]
    BY <1>2, <1>9
  <2> QED  BY <1>2, <1>9, <1>11, <2>1, ScanKept, ListedKept
<1>14. ASSUME NEW g \in File PROVE LoadedInv(g)'
  <2>1. CASE g = f
    BY <2>1
  <2>2. CASE g # f
    <3>1. LoadedInv(g) /\ faults \in Nat
      BY <1>1 DEF Inv, TypeInv
    <3>2. \A d \in Thread : AtWork(d, g)' <=> AtWork(d, g)
      BY <1>2, <1>11, <2>2 DEF AtWork
    <3>3. \A d \in Thread : AtWork(d, g) => thread'[d] = thread[d]
      BY <1>2, <1>11, <2>2 DEF AtWork
    <3>4. faults' = 0 => faults = 0
      BY <1>2, <3>1
    <3>5. g \in input' \cup intermediate' <=> g \in input \cup intermediate
      BY <1>2, <2>2
    <3>6. lines'[g] = lines[g] /\ loaded'[g] = loaded[g]
      BY <1>2, <2>2
    <3> QED  BY <3>1, <3>2, <3>3, <3>4, <3>5, <3>6 DEF LoadedInv
  <2> QED  BY <2>1, <2>2
<1> QED  BY <1>7, <1>8, <1>10, <1>12, <1>13, <1>14 DEF Inv

(* No other thread is at work on the file.                                 *)
LEMMA OnlyWorker ==
    ASSUME Inv, NEW c \in Thread, NEW f \in File, NEW s,
           thread[c].pc = "load", thread[c].file = f, thread' = [thread EXCEPT ![c] = s]
    PROVE  /\ \A d \in Thread : AtWork(d, f) => d = c
           /\ \A d \in Thread : AtWork(d, f)' => d = c
           /\ thread'[c] = s
           /\ thread[c].line \in Nat /\ thread[c].line <= loaded[f] /\ thread[c].line <= Records[f]
           /\ faults = 0 => loaded[f] = thread[c].line
           /\ lines[f] \in Nat /\ loaded[f] \in Nat /\ Records[f] \in Nat /\ faults \in Nat
           /\ lines[f] <= loaded[f] /\ lines[f] <= Records[f]
           /\ f \in intermediate /\ f \notin input
<1>1. TypeInv /\ FilesInv /\ ThreadsInv /\ LoadedInv(f) /\ f # None
  BY Numbers DEF Inv
<1>2. ASSUME NEW d \in Thread, AtWork(d, f) PROVE d = c
  <2>1. Holds(thread[c]) /\ Holds(thread[d])
    BY <1>1, <1>2 DEF AtWork, Holds
  <2> QED  BY <1>1, <1>2, <2>1 DEF AtWork, ThreadsInv, Apart
<1>3. thread'[c] = s /\ \A d \in Thread : d # c => thread'[d] = thread[d]
  BY <1>1 DEF TypeInv
<1>4. \A d \in Thread : AtWork(d, f)' => d = c
  BY <1>2, <1>3 DEF AtWork
<1>5. AtWork(c, f)
  BY DEF AtWork
<1>6. thread[c].line \in Nat /\ lines[f] \in Nat /\ loaded[f] \in Nat /\ faults \in Nat
  BY <1>1 DEF TypeInv, ThreadState
<1>7. Records[f] \in Nat
  BY LogLoadingAssumption
<1>8. f \in intermediate /\ f \notin input
  BY <1>1 DEF ThreadsInv, ThreadOK, Holds, FilesInv
<1> QED  BY <1>1, <1>2, <1>3, <1>4, <1>5, <1>6, <1>7, <1>8 DEF LoadedInv

LEMMA FileStates ==
    ASSUME Inv, NEW c \in Thread, NEW f \in File, NEW pc \in {"load", "release"}, NEW n \in Nat,
           thread[c].file = f
    PROVE  /\ Busy(pc, thread[c].type, f, None, n) \in ThreadState
           /\ Busy(pc, thread[c].type, f, None, n).pc = pc
           /\ Busy(pc, thread[c].type, f, None, n).file = f
           /\ Busy(pc, thread[c].type, f, None, n).line = n
<1>1. /\ thread[c].type \in LogType \cup {None} /\ f \in File \cup {None} /\ None \in Mark
      /\ pc \in Steps
  BY Numbers DEF Inv, TypeInv, ThreadState, Steps
<1> QED  BY <1>1, BusyIs

LEMMA LoadKeeps == ASSUME Inv, NEW c \in Thread, NEW f \in File, Load(c, f) PROVE Inv'
<1>1. PICK n \in Nat : n = thread[c].line
  BY DEF Inv, TypeInv, ThreadState
<1>2. PICK s : s = Busy("load", thread[c].type, f, None, n + 1)
  OBVIOUS
<1>3. s \in ThreadState /\ s.pc = "load" /\ s.file = f /\ s.line = n + 1
  BY <1>2, FileStates DEF Load
<1>4. /\ thread[c].pc = "load" /\ thread[c].file = f /\ thread' = [thread EXCEPT ![c] = s]
      /\ loaded' = [loaded EXCEPT ![f] = loaded[f] + 1] /\ lines' = lines /\ faults' = faults
      /\ UNCHANGED <<input, intermediate, receiver, unread, facadeVars, interrupter, facade, aside>>
      /\ n < Records[f]
  BY <1>1, <1>2 DEF Load, Step, receiverVars
<1>5. /\ \A d \in Thread : AtWork(d, f)' => d = c
      /\ thread'[c] = s /\ n <= loaded[f]
      /\ faults = 0 => loaded[f] = n
      /\ lines[f] \in Nat /\ loaded[f] \in Nat /\ Records[f] \in Nat /\ faults \in Nat
      /\ lines[f] <= loaded[f] /\ lines[f] <= Records[f]
  BY <1>1, <1>4, OnlyWorker
<1>6. loaded' \in [File -> Nat] /\ loaded'[f] = loaded[f] + 1
  BY <1>4, <1>5 DEF Inv, TypeInv
<1>7. OnFile(c, f, s)
  BY <1>3, <1>4, <1>6 DEF OnFile, Inv, TypeInv
<1>8. LoadedInv(f)'
  <2>1. AtWork(c, f)'
    BY <1>3, <1>5 DEF AtWork
  <2>2. /\ lines'[f] = lines[f] /\ thread'[c].line = n + 1
    BY <1>3, <1>4, <1>5
  <2>3. lines[f] <= loaded[f] + 1 /\ n + 1 <= loaded[f] + 1 /\ n + 1 <= Records[f]
    BY <1>4, <1>5
  <2> QED  BY <1>4, <1>5, <1>6, <2>1, <2>2, <2>3 DEF LoadedInv
<1> QED  BY <1>7, <1>8, OnFileKeeps

LEMMA ReleaseIs ==
    ASSUME Inv, NEW c \in Thread, NEW f \in File,
           thread[c].pc = "load", thread[c].file = f, Release(c, f)
    PROVE  \E s \in ThreadState : /\ s.pc = "release" /\ s.file = f
                                  /\ thread' = [thread EXCEPT ![c] = s]
                                  /\ \A d \in Thread : ~AtWork(d, f)'
<1>1. PICK s : s = Busy("release", thread[c].type, f, None, 0)
  OBVIOUS
<1>2. s \in ThreadState /\ s.pc = "release" /\ s.file = f
  BY <1>1, FileStates
<1>3. thread' = [thread EXCEPT ![c] = s]
  BY <1>1 DEF Release, Step
<1>4. \A d \in Thread : ~AtWork(d, f)'
  <2>1. thread'[c] = s /\ \A d \in Thread : AtWork(d, f)' => d = c
    BY <1>3, OnlyWorker
  <2> QED  BY <1>2, <2>1 DEF AtWork
<1> QED  BY <1>2, <1>3, <1>4

LEMMA AllLoadedKeeps == ASSUME Inv, NEW c \in Thread, NEW f \in File, AllLoaded(c, f) PROVE Inv'
<1>1. /\ thread[c].pc = "load" /\ thread[c].file = f /\ thread[c].line = Records[f]
      /\ loaded' = loaded /\ lines' = lines /\ faults' \in {faults, faults + 1}
      /\ UNCHANGED <<input, receiver, unread, facadeVars, interrupter, facade, aside>>
      /\ \/ intermediate' = intermediate \ {f}
         \/ intermediate' = intermediate /\ faults' = faults + 1
  BY DEF AllLoaded
<1>2. PICK s \in ThreadState : /\ s.pc = "release" /\ s.file = f
                               /\ thread' = [thread EXCEPT ![c] = s]
                               /\ \A d \in Thread : ~AtWork(d, f)'
  BY <1>1, ReleaseIs DEF AllLoaded
<1>3. OnFile(c, f, s)
  BY <1>1, <1>2 DEF OnFile, Inv, TypeInv
<1>4. /\ lines[f] <= loaded[f] /\ lines[f] <= Records[f] /\ faults \in Nat
      /\ faults = 0 => loaded[f] = Records[f]
      /\ f \notin input
  BY <1>1, <1>2, OnlyWorker
<1>5. LoadedInv(f)'
  <2>1. faults' = 0 => faults = 0 /\ f \notin input' \cup intermediate'
    BY <1>1, <1>4
  <2> QED  BY <1>1, <1>2, <1>4, <2>1 DEF LoadedInv
<1> QED  BY <1>3, <1>5, OnFileKeeps

LEMMA TerminateKeeps == ASSUME Inv, NEW c \in Thread, NEW f \in File, Terminate(c, f) PROVE Inv'
<1>1. PICK n \in Nat : n = thread[c].line
  BY DEF Inv, TypeInv, ThreadState
<1>2. /\ thread[c].pc = "load" /\ thread[c].file = f /\ n < Records[f]
      /\ loaded' = loaded /\ faults' \in {faults, faults + 1}
      /\ UNCHANGED <<input, intermediate, receiver, unread, facadeVars, interrupter, facade, aside>>
      /\ \/ lines' = [lines EXCEPT ![f] = n]
         \/ lines' = lines /\ faults' = faults + 1
  BY <1>1 DEF Terminate, MovedBack, receiverVars
<1>3. PICK s \in ThreadState : /\ s.pc = "release" /\ s.file = f
                               /\ thread' = [thread EXCEPT ![c] = s]
                               /\ \A d \in Thread : ~AtWork(d, f)'
  BY <1>2, ReleaseIs DEF Terminate
<1>4. /\ n <= loaded[f] /\ lines[f] <= loaded[f] /\ lines[f] <= Records[f] /\ faults \in Nat
      /\ faults = 0 => loaded[f] = n
      /\ f \in intermediate /\ Records[f] \in Nat
  BY <1>1, <1>2, <1>3, OnlyWorker
<1>5. /\ lines' \in [File -> Nat] /\ \A g \in File : g # f => lines'[g] = lines[g]
      /\ lines'[f] = n \/ (lines'[f] = lines[f] /\ faults' = faults + 1)
  BY <1>2 DEF Inv, TypeInv
<1>6. OnFile(c, f, s)
  BY <1>2, <1>3, <1>5 DEF OnFile, Inv, TypeInv
<1>7. LoadedInv(f)'
  <2>1. faults' = 0 => faults = 0 /\ lines'[f] = n
    BY <1>2, <1>4, <1>5
  <2>2. lines'[f] <= loaded[f] /\ lines'[f] <= Records[f]
    BY <1>2, <1>4, <1>5
  <2> QED  BY <1>2, <1>3, <1>4, <2>1, <2>2 DEF LoadedInv
<1> QED  BY <1>6, <1>7, OnFileKeeps

LEMMA LoadFailsKeeps == ASSUME Inv, NEW c \in Thread, NEW f \in File, LoadFails(c, f) PROVE Inv'
<1>1. /\ thread[c].pc = "load" /\ thread[c].file = f
      /\ loaded' = loaded /\ lines' = lines /\ faults' = faults + 1
      /\ UNCHANGED <<input, receiver, unread, facadeVars, interrupter, facade, aside>>
      /\ intermediate' \in {intermediate \ {f}, intermediate}
  BY DEF LoadFails
<1>2. PICK s \in ThreadState : /\ s.pc = "release" /\ s.file = f
                               /\ thread' = [thread EXCEPT ![c] = s]
                               /\ \A d \in Thread : ~AtWork(d, f)'
  BY <1>1, ReleaseIs DEF LoadFails
<1>3. OnFile(c, f, s)
  BY <1>1, <1>2 DEF OnFile, Inv, TypeInv
<1>4. lines[f] <= loaded[f] /\ lines[f] <= Records[f] /\ faults \in Nat
  BY <1>1, <1>2, OnlyWorker
<1>5. LoadedInv(f)'
  <2>1. faults' # 0
    BY <1>1, <1>4
  <2> QED  BY <1>1, <1>2, <1>4, <2>1 DEF LoadedInv
<1> QED  BY <1>3, <1>5, OnFileKeeps

LEMMA ProcessedKeeps == ASSUME Inv, NEW c \in Thread, NEW f \in File, Processed(c, f) PROVE Inv'
<1>1. TypeInv /\ FilesInv /\ ThreadsInv /\ thread[c].pc = "release" /\ thread[c].file = f
  BY DEF Inv, Processed
<1>2. PICK o \in ThreadState : o = thread[c]
  BY <1>1 DEF TypeInv
<1>3. PICK t \in LogType : t = TypeOf[f]
  BY FileReceiverAssumption
<1>4. PICK r \in Receiver : r = receiver[t]
  BY <1>1 DEF TypeInv
<1>5. PICK un : un = unread[t]
  OBVIOUS
<1>6. ThreadOK(o, receiver, intermediate, locked) /\ Holds(o) /\ ~Inside(o)
  BY <1>1, <1>2, Numbers DEF ThreadsInv, Holds, Inside
<1>7. f \in r.in_progress_files_ /\ f \in NamesOf(t)
  BY <1>1, <1>2, <1>3, <1>4, <1>6 DEF ThreadOK, NamesOf
<1>8. Good(r, un, NamesOf(t), input, intermediate, aside)
  BY <1>4, <1>5 DEF Inv, ReceiverInv
<1>9. PICK q : q = Released(r, f)
  OBVIOUS
<1>10. PICK left : left = aside \cup ({f} \cap intermediate)
  OBVIOUS
<1>11. Good(q, un, NamesOf(t), input, intermediate, left)
  BY <1>7, <1>8, <1>9, <1>10, GoodReleased
<1>12. /\ receiver' = [receiver EXCEPT ![t] = q] /\ input' = input /\ intermediate' = intermediate
       /\ unread' = [unread EXCEPT ![t] = un] /\ aside' = left
       /\ thread' = [thread EXCEPT ![c] = Idle]
       /\ UNCHANGED <<facadeVars, interrupter, facade, lines, loaded, faults>>
  BY <1>1, <1>3, <1>4, <1>5, <1>9, <1>10
     DEF Processed, FileProcessed, Become, TypeInv, Enter
<1>13. /\ q.in_progress_files_ = r.in_progress_files_ \ {f} /\ (KnowsEldest(r) <=> KnowsEldest(q))
       /\ q.fetch_internal_in_progress_ = r.fetch_internal_in_progress_
       /\ (Spent(r) <=> Spent(q))
  <2>1. /\ q.in_progress_files_ = r.in_progress_files_ \ {f} /\ q.files_ = r.files_
        /\ q.oldest_not_in_files_ = r.oldest_not_in_files_
        /\ q.fetch_internal_in_progress_ = r.fetch_internal_in_progress_
    BY <1>9 DEF Released, Receiver
  <2> QED  BY <2>1 DEF KnowsEldest, Spent
<1>14. Becomes(t, q, un)
  BY <1>7, <1>10, <1>11, <1>12 DEF Becomes
<1>15. /\ receiver' \in [LogType -> Receiver] /\ unread' \in [LogType -> SUBSET File]
       /\ \A u \in LogType : ReceiverInv(u)'
       /\ receiver'[t] = q
       /\ \A u \in LogType : u # t => receiver'[u] = receiver[u]
  BY <1>14, ReceiversGood
<1>16. FilesInv' /\ aside' \in SUBSET File
  BY <1>1, <1>10, <1>12 DEF FilesInv, TypeInv
<1>17. locked' = locked /\ listed' = listed /\ changed' = changed
  BY <1>12 DEF facadeVars
<1>18. ThreadsInv' /\ thread' \in [Thread -> ThreadState]
  <2>1. ASSUME NEW d \in Thread, d # c
        PROVE ThreadOK(thread[d], receiver', intermediate', locked') /\ Apart(Idle, thread[d])
    <3>1. PICK u \in ThreadState : u = thread[d]
      BY <1>1 DEF TypeInv
    <3>2. ThreadOK(u, receiver, intermediate, locked) /\ Apart(o, u)
      BY <1>1, <1>2, <2>1, <3>1 DEF ThreadsInv
    <3>3. Holds(u) => u.file # f /\ TypeOf[u.file] \in LogType
      BY <1>1, <1>2, <1>6, <3>1, <3>2, FileReceiverAssumption DEF Apart, Holds, ThreadState
    <3>4. ASSUME NEW v \in LogType
          PROVE  /\ receiver[v].fetch_internal_in_progress_ =>
                      receiver'[v].fetch_internal_in_progress_
                 /\ KnowsEldest(receiver[v]) => KnowsEldest(receiver'[v])
                 /\ receiver[v].in_progress_files_ \ {f} \subseteq receiver'[v].in_progress_files_
      <4>1. CASE v = t
        BY <1>4, <1>13, <1>15, <4>1
      <4>2. CASE v # t
        BY <1>15, <4>2
      <4> QED  BY <4>1, <4>2
    <3>5. ThreadOK(u, receiver', intermediate', locked')
      <4>1. Inside(u) => u.type \in LogType
        BY <3>2 DEF ThreadOK
      <4>2. Inside(u) => u.type \in locked'
        BY <1>17, <3>2 DEF ThreadOK
      <4>3. Holds(u) /\ u.file \in receiver[TypeOf[u.file]].in_progress_files_ =>
              u.file \in receiver'[TypeOf[u.file]].in_progress_files_
        BY <3>3, <3>4
      <4> QED  BY <1>12, <3>2, <3>4, <4>1, <4>2, <4>3, ThreadStays
    <3> QED  BY <3>1, <3>5, IdleIs DEF Apart
  <2> QED  BY <1>12, <2>1, IdleIs, ThreadsOK
<1>19. thread'[c] = Idle /\ \A d \in Thread : d # c => thread'[d] = thread[d]
  BY <1>1, <1>12 DEF TypeInv
<1>20. TypeInv'
  BY <1>1, <1>12, <1>15, <1>16, <1>17, <1>18 DEF TypeInv
<1>21. ASSUME NEW u \in LogType PROVE ScanInv(u)' /\ ListedInv(u)'
  <2>1. /\ receiver'[u].fetch_internal_in_progress_ => receiver[u].fetch_internal_in_progress_
        /\ Spent(receiver[u]) => Spent(receiver'[u])
    BY <1>4, <1>13, <1>15
  <2> QED  BY <1>1, <1>17, <1>19, <2>1, IdleIs, ScanKept, ListedKept
<1>22. \A g \in File : LoadedInv(g)'
  BY <1>1, <1>12, <1>19, IdleIs, LoadedKept
<1> QED  BY <1>15, <1>16, <1>18, <1>20, <1>21, <1>22 DEF Inv

-----------------------------------------------------------------------------
(* The process.                                                            *)

LEMMA StopKeeps == ASSUME Inv, Interrupt \/ Deactivate PROVE Inv'
<1>1. /\ UNCHANGED <<receiverVars, facadeVars, thread, lines, loaded, aside, faults>>
      /\ interrupter' \in BOOLEAN /\ facade' \in BOOLEAN
  BY DEF Interrupt, Deactivate, Inv, TypeInv
<1>2. /\ \A u \in LogType : ReceiverInv(u)' /\ receiver'[u] = receiver[u]
      /\ receiver' \in [LogType -> Receiver] /\ unread' \in [LogType -> SUBSET File]
      /\ input' \in SUBSET File /\ intermediate' \in SUBSET File
      /\ aside' \in SUBSET File /\ FilesInv'
  BY <1>1, SameReceivers
<1>3. TypeInv' /\ ThreadsInv'
  BY <1>1, <1>2 DEF Inv, TypeInv, ThreadsInv, facadeVars, receiverVars
<1>4. ASSUME NEW u \in LogType PROVE ScanInv(u)' /\ ListedInv(u)'
  BY <1>1, <1>2, ScanKept, ListedKept DEF facadeVars
<1>5. \A f \in File : LoadedInv(f)'
  BY <1>1, LoadedKept DEF receiverVars
<1> QED  BY <1>2, <1>3, <1>4, <1>5 DEF Inv

(* Nothing is lost of what the names tell, but a death may come between    *)
(* two records.                                                            *)
LEMMA StartKeeps ==
    ASSUME Inv, Start,
           \/ faults' = faults + 1
           \/ faults' = faults /\ \A c \in Thread : thread[c] = Idle
    PROVE  Inv'
<1>1. TypeInv /\ FilesInv
  BY DEF Inv
<1>2. /\ receiver' = [t \in LogType |-> NewReceiver] /\ unread' = [t \in LogType |-> {}]
      /\ input' = input /\ intermediate' = intermediate
      /\ interrupter' = TRUE /\ facade' = TRUE /\ listed' = LogType
      /\ locked' = {} /\ changed' = [t \in LogType |-> None]
      /\ thread' = [c \in Thread |-> Idle] /\ aside' = {} /\ lines' = lines /\ loaded' = loaded
  BY DEF Start, ReceiversRestart
<1>3. ASSUME NEW t \in LogType PROVE ReceiverInv(t)'
  <2>1. NamesOf(t) \in SUBSET File
    BY DEF NamesOf
  <2>2. Good(NewReceiver, {}, NamesOf(t), input', intermediate', {})
    BY <2>1, GoodStarts
  <2> QED  BY <1>2, <2>2 DEF ReceiverInv
<1>4. FilesInv'
  BY <1>1, <1>2 DEF FilesInv
<1>5. NewReceiver \in Receiver
  BY Numbers DEF NewReceiver, Receiver
<1>6. faults' \in Nat
  BY <1>1 DEF TypeInv
<1>7. TypeInv'
  BY <1>1, <1>2, <1>5, <1>6, IdleIs DEF TypeInv
<1>8. \A c \in Thread : thread'[c] = Idle
  BY <1>2
<1>9. ThreadsInv'
  BY <1>8, IdleIs DEF ThreadsInv, Apart
<1>10. ASSUME NEW t \in LogType PROVE ScanInv(t)' /\ ListedInv(t)'
  <2>1. receiver'[t].fetch_internal_in_progress_ = FALSE
    BY <1>2 DEF NewReceiver
  <2>2. t \in listed' /\ ~AboutToUnlist(t)'
    BY <1>2, <1>8, IdleIs DEF AboutToUnlist
  <2> QED  BY <2>1, <2>2 DEF ScanInv, ListedInv
<1>11. ASSUME NEW f \in File PROVE LoadedInv(f)'
  <2>1. LoadedInv(f) /\ \A c \in Thread : ~AtWork(c, f)'
    BY <1>8, IdleIs DEF Inv, AtWork
  <2>2. faults' = 0 => faults = 0 /\ \A c \in Thread : ~AtWork(c, f)
    BY <1>1, IdleIs DEF AtWork, TypeInv
  <2> QED  BY <1>2, <2>1, <2>2 DEF LoadedInv
<1> QED  BY <1>3, <1>4, <1>7, <1>9, <1>10, <1>11 DEF Inv

LEMMA InitInv == Init => Inv
<1> SUFFICES ASSUME Init PROVE Inv
  OBVIOUS
<1>1. /\ receiver = [t \in LogType |-> NewReceiver] /\ unread = [t \in LogType |-> {}]
      /\ intermediate \in SUBSET File /\ input = File \ intermediate
      /\ interrupter = TRUE /\ facade = TRUE /\ listed = LogType
      /\ locked = {} /\ changed = [t \in LogType |-> None]
      /\ thread = [c \in Thread |-> Idle] /\ aside = {}
      /\ lines = [f \in File |-> 0] /\ loaded = [f \in File |-> 0] /\ faults = 0
  BY DEF Init, ReceiversStart
<1>2. ASSUME NEW t \in LogType PROVE ReceiverInv(t)
  <2>1. NamesOf(t) \in SUBSET File
    BY DEF NamesOf
  <2>2. Good(NewReceiver, {}, NamesOf(t), input, intermediate, {})
    BY <2>1, GoodStarts
  <2> QED  BY <1>1, <2>2 DEF ReceiverInv
<1>3. FilesInv
  BY <1>1 DEF FilesInv
<1>4. NewReceiver \in Receiver
  BY Numbers DEF NewReceiver, Receiver
<1>5. TypeInv
  BY <1>1, <1>4, IdleIs DEF TypeInv
<1>6. \A c \in Thread : thread[c] = Idle
  BY <1>1
<1>7. ThreadsInv
  BY <1>6, IdleIs DEF ThreadsInv, Apart
<1>8. ASSUME NEW t \in LogType PROVE ScanInv(t) /\ ListedInv(t)
  <2>1. receiver[t].fetch_internal_in_progress_ = FALSE
    BY <1>1 DEF NewReceiver
  <2>2. t \in listed /\ ~AboutToUnlist(t)
    BY <1>1, <1>6, IdleIs DEF AboutToUnlist
  <2> QED  BY <2>1, <2>2 DEF ScanInv, ListedInv
<1>9. ASSUME NEW f \in File PROVE LoadedInv(f)
  <2>1. \A c \in Thread : ~AtWork(c, f)
    BY <1>6, IdleIs DEF AtWork
  <2>2. Records[f] \in Nat /\ lines[f] = 0 /\ loaded[f] = 0
    BY <1>1, LogLoadingAssumption
  <2> QED  BY <1>1, <2>1, <2>2 DEF LoadedInv
<1> QED  BY <1>2, <1>3, <1>5, <1>7, <1>8, <1>9 DEF Inv

LEMMA NextKeeps == Inv /\ [Next]_vars => Inv'
<1> SUFFICES ASSUME Inv, [Next]_vars PROVE Inv'
  OBVIOUS
<1>1. CASE UNCHANGED vars
  <2>1. /\ \A u \in LogType : ReceiverInv(u)' /\ receiver'[u] = receiver[u]
        /\ receiver' \in [LogType -> Receiver] /\ unread' \in [LogType -> SUBSET File]
        /\ input' \in SUBSET File /\ intermediate' \in SUBSET File
        /\ aside' \in SUBSET File /\ FilesInv'
    BY <1>1, SameReceivers DEF vars
  <2>2. TypeInv' /\ ThreadsInv'
    BY <1>1, <2>1 DEF Inv, TypeInv, ThreadsInv, facadeVars, receiverVars, vars
  <2>3. ASSUME NEW u \in LogType PROVE ScanInv(u)' /\ ListedInv(u)'
    BY <1>1, <2>1, ScanKept, ListedKept DEF facadeVars, vars
  <2>4. \A f \in File : LoadedInv(f)'
    BY <1>1, LoadedKept DEF receiverVars, vars
  <2> QED  BY <2>1, <2>2, <2>3, <2>4 DEF Inv
<1>2. ASSUME NEW c \in Thread, ThreadStep(c) PROVE Inv'
  <2>1. ASSUME NEW t \in LogType,
               \/ Choose(c, t) \/ Lock(c, t) \/ Get(c, t) \/ Read(c, t)
               \/ EndScan(c, t) \/ ScanFails(c, t) \/ Take(c, t) \/ List(c, t)
               \/ \E f \in File : Scan(c, t, f)
        PROVE  Inv'
    BY <2>1, ChooseKeeps, LockKeeps, GetKeeps, ReadKeeps, EndScanKeeps, ScanFailsKeeps,
       TakeKeeps, ListKeeps, ScanKeeps
  <2>2. ASSUME NEW f \in File,
               \/ Load(c, f) \/ AllLoaded(c, f) \/ Terminate(c, f)
               \/ LoadFails(c, f) \/ Processed(c, f)
        PROVE  Inv'
    BY <2>2, LoadKeeps, AllLoadedKeeps, TerminateKeeps, LoadFailsKeeps, ProcessedKeeps
  <2> QED  BY <1>2, <2>1, <2>2 DEF ThreadStep
<1>3. CASE Restart
  <2>1. Start /\ faults' = faults /\ \A c \in Thread : thread[c] = Idle
    BY <1>3 DEF Restart
  <2> QED  BY <2>1, StartKeeps
<1>4. CASE Crash
  BY <1>4, StartKeeps DEF Crash
<1>5. CASE Interrupt \/ Deactivate
  BY <1>5, StopKeeps
<1>6. ASSUME NEW f \in File, MoveIn(f) PROVE Inv'
  BY <1>6, MoveInKeeps
<1>7. ASSUME NEW t \in LogType, TopChanged(t) PROVE Inv'
  BY <1>7, TopChangedKeeps
<1> QED  BY <1>1, <1>2, <1>3, <1>4, <1>5, <1>6, <1>7 DEF Next

THEOREM InvariantHolds == Spec => []Inv
BY InitInv, NextKeeps, PTL DEF Spec

-----------------------------------------------------------------------------
(* The results.                                                            *)

LEMMA InProgressOf ==
    ASSUME Inv, NEW t \in LogType
    PROVE  InProgress \cap NamesOf(t) = receiver[t].in_progress_files_
<1>1. \A u \in LogType : receiver[u].in_progress_files_ \subseteq NamesOf(u)
  BY DEF Inv, ReceiverInv, Good, Sets
<1> QED  BY <1>1 DEF InProgress, NamesOf

LEMMA WaitingIs ==
    ASSUME Inv, NEW t \in LogType
    PROVE  Waiting \cap NamesOf(t) = WaitingOf(receiver[t], NamesOf(t), intermediate, aside)
BY InProgressOf DEF Waiting, WaitingOf

(* A receiver that has files to give is listed by the facade, or its new   *)
(* top is on its way there: no thread that saw it empty unlists it after a *)
(* file was moved in (HolderListed).                                       *)
THEOREM ListedHolds == Spec => []HolderListed
<1>1. Inv => HolderListed
  <2> SUFFICES ASSUME Inv, NEW t \in LogType, NEW f \in Waiting \cap NamesOf(t)
               PROVE  changed[t] # None \/ (t \in listed /\ ~AboutToUnlist(t))
    BY DEF HolderListed
  <2>1. f \in WaitingOf(receiver[t], NamesOf(t), intermediate, aside)
    BY WaitingIs
  <2>2. Good(receiver[t], unread[t], NamesOf(t), input, intermediate, aside)
    BY DEF Inv, ReceiverInv
  <2>3. ~Spent(receiver[t])
    BY <2>1, <2>2 DEF Good, Covered, Below, Spent
  <2> QED  BY <2>3 DEF Inv, ListedInv
<1> QED  BY <1>1, InvariantHolds, PTL

(* A stop and a restart go on in a file where it was left: no record is    *)
(* skipped, and none is given twice unless a call of the file system fails *)
(* or the process dies (RecordsOnce).                                      *)
THEOREM RecordsOnceHolds == Spec => []RecordsOnce
<1>1. Inv => RecordsOnce
  <2> SUFFICES ASSUME Inv, NEW f \in File
               PROVE  IF faults = 0
                      THEN \/ loaded[f] = Done(f)
                           \/ \E c \in Thread : thread[c].pc = "release" /\ thread[c].file = f
                      ELSE f \in input \cup intermediate => loaded[f] >= Done(f)
    BY DEF RecordsOnce
  <2>1. LoadedInv(f)
    BY DEF Inv
  <2>2. CASE \E d \in Thread : AtWork(d, f)
    <3>1. PICK c : c = CHOOSE d \in Thread : thread[d].pc = "load" /\ thread[d].file = f
      OBVIOUS
    <3>2. c \in Thread /\ AtWork(c, f)
      BY <2>2, <3>1 DEF AtWork
    <3>3. Done(f) = thread[c].line
      BY <2>2, <3>1 DEF Done, AtWork
    <3>4. thread[c].line \in Nat /\ loaded[f] \in Nat
      BY <3>2 DEF Inv, TypeInv, ThreadState
    <3> QED  BY <2>1, <3>2, <3>3, <3>4 DEF LoadedInv
  <2>3. CASE ~\E d \in Thread : AtWork(d, f)
    <3>1. Done(f) = IF f \in input \cup intermediate THEN lines[f] ELSE Records[f]
      BY <2>3 DEF Done, AtWork
    <3>2. lines[f] \in Nat /\ loaded[f] \in Nat
      BY DEF Inv, TypeInv
    <3> QED  BY <2>1, <2>3, <3>1, <3>2 DEF LoadedInv
  <2> QED  BY <2>2, <2>3
<1> QED  BY <1>1, InvariantHolds, PTL

-----------------------------------------------------------------------------
(* Each step is one of the queue's, or does not show there.                *)

Shown == <<input, Waiting, InProgress, aside>>

(* What is in progress after a receiver changed.                           *)
LEMMA InProgressBecomes ==
    ASSUME Inv, NEW t \in LogType, NEW q, receiver' = [receiver EXCEPT ![t] = q]
    PROVE  InProgress' = (InProgress \ NamesOf(t)) \cup q.in_progress_files_
<1>1. \A u \in LogType : receiver[u].in_progress_files_ \subseteq NamesOf(u)
  BY DEF Inv, ReceiverInv, Good, Sets
<1>2. receiver'[t] = q /\ \A u \in LogType : u # t => receiver'[u] = receiver[u]
  BY DEF Inv, TypeInv
<1>3. ASSUME NEW f
      PROVE  f \in InProgress' <=> f \in (InProgress \ NamesOf(t)) \cup q.in_progress_files_
  <2>1. f \in InProgress' <=> \E u \in LogType : f \in receiver'[u].in_progress_files_
    BY DEF InProgress
  <2>2. f \in InProgress \ NamesOf(t) <=>
          \E u \in LogType : u # t /\ f \in receiver[u].in_progress_files_
    BY <1>1 DEF InProgress, NamesOf
  <2> QED  BY <1>2, <2>1, <2>2
<1> QED  BY <1>3

LEMMA SameInProgress ==
    ASSUME Inv, NEW t \in LogType, NEW q, receiver' = [receiver EXCEPT ![t] = q],
           q.in_progress_files_ = receiver[t].in_progress_files_
    PROVE  InProgress' = InProgress
<1>1. InProgress \cap NamesOf(t) = q.in_progress_files_
  BY InProgressOf
<1>2. InProgress' = (InProgress \ NamesOf(t)) \cup q.in_progress_files_
  BY InProgressBecomes
<1> QED  BY <1>1, <1>2

LEMMA NotShown == ASSUME UNCHANGED <<receiverVars, aside>> PROVE UNCHANGED Shown
BY DEF Shown, Waiting, InProgress, receiverVars

LEMMA MoveInShown == ASSUME Inv, NEW f \in File, MoveIn(f) PROVE Queue!Put(f)
<1>1. PICK t \in LogType : t = TypeOf[f]
  BY FileReceiverAssumption
<1>2. PICK q : q = AddFile(receiver[t], f)
  OBVIOUS
<1>3. q.in_progress_files_ = receiver[t].in_progress_files_
  BY <1>2, AddFileAdds DEF Inv, ReceiverInv, Good, Sets, Added
<1>4. receiver' = [receiver EXCEPT ![t] = q]
  BY <1>1, <1>2 DEF MoveIn, FetchFile, Become
<1>5. InProgress' = InProgress
  BY <1>3, <1>4, SameInProgress
<1>6. /\ f \in input /\ input' = input \ {f} /\ aside' = aside
      /\ intermediate' = intermediate \cup {f}
  BY DEF MoveIn, FetchFile
<1>7. f \notin aside /\ f \notin InProgress
  <2>1. f \notin receiver[t].in_progress_files_ /\ f \notin aside
    BY <1>6 DEF Inv, FilesInv, ReceiverInv, Good, Sets
  <2>2. f \in NamesOf(t)
    BY <1>1 DEF NamesOf
  <2> QED  BY <2>1, <2>2, InProgressOf
<1>8. Waiting' = Waiting \cup {f}
  BY <1>5, <1>6, <1>7 DEF Waiting
<1> QED  BY <1>5, <1>6, <1>8 DEF Queue!Put

LEMMA ScanShown ==
    ASSUME Inv, NEW c \in Thread, NEW t \in LogType, NEW f \in File, Scan(c, t, f)
    PROVE  Queue!FindAgain(f) \/ UNCHANGED Shown
<1>1. PICK r : r = receiver[t]
  OBVIOUS
<1>2. PICK q : q = Found(r, f)
  OBVIOUS
<1>3. q.in_progress_files_ = r.in_progress_files_
  BY <1>1, <1>2, AddFileAdds DEF Inv, ReceiverInv, Good, Sets, Added, Found
<1>4. receiver' = [receiver EXCEPT ![t] = q]
  BY <1>1, <1>2 DEF Scan, HandleEntry, Become
<1>5. InProgress' = InProgress
  BY <1>1, <1>3, <1>4, SameInProgress
<1>6. /\ input' = input /\ intermediate' = intermediate /\ f \in unread[t]
      /\ aside' = IF f \in r.in_progress_files_ \cup r.processed_files_ THEN aside
                  ELSE aside \ {f}
  BY <1>1 DEF Scan, HandleEntry
<1>7. CASE aside' = aside
  BY <1>5, <1>6, <1>7 DEF Shown, Waiting
<1>8. CASE aside' = aside \ {f} /\ f \in aside
  <2>1. f \in intermediate
    BY <1>8 DEF Inv, FilesInv
  <2>2. f \notin InProgress
    <3>1. f \in NamesOf(t) /\ f \notin r.in_progress_files_
      BY <1>1, <1>6, <1>8 DEF Inv, ReceiverInv, Good, Sets
    <3> QED  BY <1>1, <3>1, InProgressOf
  <2>3. Waiting' = Waiting \cup {f}
    BY <1>5, <1>6, <1>8, <2>1, <2>2 DEF Waiting
  <2> QED  BY <1>5, <1>6, <1>8, <2>3 DEF Queue!FindAgain
<1> QED  BY <1>6, <1>7, <1>8

LEMMA ReadShown ==
    ASSUME Inv, NEW t \in LogType, NEW q,
           receiver' = [receiver EXCEPT ![t] = q],
           q \in {Reading(receiver[t]), ReadAll(receiver[t]), ReadFailed(receiver[t])},
           UNCHANGED <<input, intermediate, aside>>
    PROVE  UNCHANGED Shown
<1>1. receiver[t] \in Receiver
  BY DEF Inv, TypeInv
<1>2. q.in_progress_files_ = receiver[t].in_progress_files_
  BY <1>1 DEF Reading, ReadAll, ReadFailed, Receiver
<1>3. InProgress' = InProgress
  BY <1>2, SameInProgress
<1> QED  BY <1>3 DEF Shown, Waiting

LEMMA GivesShown ==
    ASSUME Inv, NEW c \in Thread, NEW t \in LogType, Gives(c, t)
    PROVE  (\E f \in File : Queue!Give(f)) \/ UNCHANGED Shown
<1>1. Inside(thread[c]) /\ thread[c].type = t /\ thread[c].pc # "scan"
  BY DEF Gives, Inside
<1>2. PICK r \in Receiver : r = receiver[t]
  BY DEF Inv, TypeInv
<1>3. /\ Good(r, {}, NamesOf(t), input, intermediate, aside)
      /\ ~r.fetch_internal_in_progress_ /\ KnowsEldest(r)
  BY <1>1, <1>2, NoRead DEF Inv, ReceiverInv, Gives
<1>4. PICK q : q = WithoutEldest(r)
  OBVIOUS
<1>5. /\ receiver' = [receiver EXCEPT ![t] = q] /\ input' = input /\ intermediate' = intermediate
      /\ aside' = aside
  BY <1>2, <1>4 DEF Gives, TakeEldest, Become
<1>6. CASE r.files_ = {}
  <2>1. q = r
    BY <1>4, <1>6 DEF WithoutEldest
  <2>2. InProgress' = InProgress
    BY <1>2, <1>5, <2>1, SameInProgress
  <2> QED  BY <1>5, <2>2 DEF Shown, Waiting
<1>7. CASE r.files_ # {}
  <2>1. PICK f : f = Eldest(r.files_)
    OBVIOUS
  <2>2. /\ q.in_progress_files_ = r.in_progress_files_ \cup {f}
        /\ f \in WaitingOf(r, NamesOf(t), intermediate, aside)
        /\ \A g \in WaitingOf(r, NamesOf(t), intermediate, aside) : f <= g
    <3>1. MayGive(r, f, NamesOf(t), input, intermediate, aside)
      BY <1>3, <1>7, <2>1 DEF MayGive, Inv, FilesInv, NamesOf
    <3> QED  BY <1>3, <1>4, <3>1, GoodTaken, EldestOfWaiting
  <2>3. InProgress' = InProgress \cup {f}
    <3>1. InProgress' = (InProgress \ NamesOf(t)) \cup q.in_progress_files_
      BY <1>5, InProgressBecomes
    <3>2. InProgress \cap NamesOf(t) = r.in_progress_files_
      BY <1>2, InProgressOf
    <3> QED  BY <2>2, <3>1, <3>2
  <2>4. f \in Waiting /\ Waiting' = Waiting \ {f} /\ f \in NamesOf(t)
    BY <1>2, <1>5, <2>2, <2>3, WaitingIs DEF Waiting
  <2>5. \A g \in Waiting : TypeOf[g] = TypeOf[f] => f <= g
    <3> SUFFICES ASSUME NEW g \in Waiting, TypeOf[g] = TypeOf[f] PROVE f <= g
      OBVIOUS
    <3>1. g \in NamesOf(t)
      BY <2>4 DEF NamesOf, Waiting, Inv, TypeInv
    <3> QED  BY <1>2, <2>2, <3>1, WaitingIs
  <2>6. Queue!Give(f) /\ f \in File
    BY <1>5, <2>3, <2>4, <2>5 DEF Queue!Give, NamesOf
  <2> QED  BY <2>6
<1> QED  BY <1>6, <1>7

(* The owner of a file takes it away before it lets go of it.              *)
LEMMA DeletedShown ==
    ASSUME Inv, NEW c \in Thread, NEW f \in File,
           AllLoaded(c, f) \/ LoadFails(c, f)
    PROVE  UNCHANGED Shown
<1>1. /\ intermediate' \in {intermediate, intermediate \ {f}} /\ thread[c].file = f
      /\ thread[c].pc = "load" /\ UNCHANGED <<input, receiver, aside>>
  BY DEF AllLoaded, LoadFails
<1>2. f \in InProgress
  <2>1. TypeOf[f] \in LogType /\ f \in receiver[TypeOf[f]].in_progress_files_
    BY <1>1, FileReceiverAssumption, Numbers DEF Inv, ThreadsInv, ThreadOK, Holds
  <2> QED  BY <2>1 DEF InProgress
<1>3. InProgress' = InProgress
  BY <1>1 DEF InProgress
<1> QED  BY <1>1, <1>2, <1>3 DEF Shown, Waiting

LEMMA ProcessedShown ==
    ASSUME Inv, NEW c \in Thread, NEW f \in File, Processed(c, f)
    PROVE  Queue!LetGo(f)
<1>1. PICK t \in LogType : t = TypeOf[f]
  BY FileReceiverAssumption
<1>2. PICK r \in Receiver : r = receiver[t]
  BY DEF Inv, TypeInv
<1>3. f \in r.in_progress_files_
  BY <1>1, <1>2, Numbers DEF Processed, Inv, ThreadsInv, ThreadOK, Holds
<1>4. PICK q : q = Released(r, f)
  OBVIOUS
<1>5. q.in_progress_files_ = r.in_progress_files_ \ {f}
  BY <1>4 DEF Released, Receiver
<1>6. /\ receiver' = [receiver EXCEPT ![t] = q] /\ input' = input /\ intermediate' = intermediate
      /\ aside' = aside \cup ({f} \cap intermediate)
  BY <1>1, <1>2, <1>4 DEF Processed, FileProcessed, Become
<1>7. InProgress \cap NamesOf(t) = r.in_progress_files_ /\ f \in NamesOf(t)
  BY <1>1, <1>2, InProgressOf DEF NamesOf
<1>8. InProgress' = InProgress \ {f}
  <2>1. InProgress' = (InProgress \ NamesOf(t)) \cup q.in_progress_files_
    BY <1>6, InProgressBecomes
  <2> QED  BY <1>5, <1>7, <2>1
<1>9. Waiting' = Waiting /\ f \in InProgress
  BY <1>3, <1>6, <1>7, <1>8 DEF Waiting
<1>10. aside' \in {aside, aside \cup {f}}
  BY <1>6
<1> QED  BY <1>6, <1>8, <1>9, <1>10 DEF Queue!LetGo

LEMMA StartShown == ASSUME Inv, Start PROVE Queue!Restart
<1>1. /\ receiver' = [t \in LogType |-> NewReceiver]
      /\ input' = input /\ intermediate' = intermediate /\ aside' = {}
  BY DEF Start, ReceiversRestart
<1>2. InProgress' = {}
  BY <1>1 DEF InProgress, NewReceiver
<1>3. Waiting' = intermediate
  BY <1>1, <1>2 DEF Waiting
<1>4. intermediate = Waiting \cup aside \cup (InProgress \cap intermediate)
  BY DEF Waiting, Inv, FilesInv
<1> QED  BY <1>1, <1>2, <1>3, <1>4 DEF Queue!Restart

LEMMA StepShown == Inv /\ [Next]_vars => [Queue!QueueNext]_Shown
<1> SUFFICES ASSUME Inv, [Next]_vars PROVE Queue!QueueNext \/ UNCHANGED Shown
  BY DEF Shown
<1>1. CASE UNCHANGED vars
  BY <1>1, NotShown DEF vars
<1>2. ASSUME NEW c \in Thread, NEW t \in LogType,
             Choose(c, t) \/ Lock(c, t) \/ List(c, t)
      PROVE  UNCHANGED Shown
  <2>1. UNCHANGED <<receiverVars, aside>>
    BY <1>2 DEF Choose, Lock, List
  <2> QED  BY <2>1, NotShown
<1>3. ASSUME NEW c \in Thread, NEW t \in LogType, Get(c, t) \/ Take(c, t)
      PROVE  (\E f \in File : Queue!Give(f)) \/ UNCHANGED Shown
  <2>1. Gives(c, t) \/ UNCHANGED <<receiverVars, aside>>
    BY <1>3 DEF Get, Take, Gives, GivesDirectly, Inv, ThreadsInv, ThreadOK
  <2> QED  BY <2>1, GivesShown, NotShown
<1>4. ASSUME NEW c \in Thread, NEW t \in LogType,
             Read(c, t) \/ EndScan(c, t) \/ ScanFails(c, t)
      PROVE  UNCHANGED Shown
  <2>1. \/ UNCHANGED <<receiverVars, aside>>
        \/ \E q \in {Reading(receiver[t]), ReadAll(receiver[t]), ReadFailed(receiver[t])} :
              receiver' = [receiver EXCEPT ![t] = q] /\ UNCHANGED <<input, intermediate, aside>>
    BY <1>4 DEF Read, EndScan, ScanFails, BeginFetch, EndFetch, FetchFails, Become
  <2> QED  BY <2>1, NotShown, ReadShown
<1>5. ASSUME NEW c \in Thread, NEW f \in File, Load(c, f) \/ Terminate(c, f)
      PROVE  UNCHANGED Shown
  <2>1. UNCHANGED <<receiverVars, aside>>
    BY <1>5 DEF Load, Terminate
  <2> QED  BY <2>1, NotShown
<1>6. ASSUME NEW t \in LogType, TopChanged(t) PROVE UNCHANGED Shown
  BY <1>6, NotShown DEF TopChanged
<1>7. CASE Interrupt \/ Deactivate
  BY <1>7, NotShown DEF Interrupt, Deactivate
<1>8. CASE Restart \/ Crash
  BY <1>8, StartShown DEF Restart, Crash, Queue!QueueNext
<1>9. ASSUME NEW f \in File, MoveIn(f) PROVE Queue!QueueNext
  BY <1>9, MoveInShown DEF Queue!QueueNext
<1>10. ASSUME NEW c \in Thread, NEW t \in LogType, NEW f \in File, Scan(c, t, f)
       PROVE  Queue!QueueNext \/ UNCHANGED Shown
  BY <1>10, ScanShown DEF Queue!QueueNext
<1>11. ASSUME NEW c \in Thread, NEW f \in File, AllLoaded(c, f) \/ LoadFails(c, f)
       PROVE  UNCHANGED Shown
  BY <1>11, DeletedShown
<1>12. ASSUME NEW c \in Thread, NEW f \in File, Processed(c, f) PROVE Queue!QueueNext
  BY <1>12, ProcessedShown DEF Queue!QueueNext
<1>13. ASSUME NEW c \in Thread, ThreadStep(c) PROVE Queue!QueueNext \/ UNCHANGED Shown
  <2>1. ASSUME NEW t \in LogType,
               \/ Choose(c, t) \/ Lock(c, t) \/ Get(c, t) \/ Read(c, t)
               \/ EndScan(c, t) \/ ScanFails(c, t) \/ Take(c, t) \/ List(c, t)
               \/ \E f \in File : Scan(c, t, f)
        PROVE  Queue!QueueNext \/ UNCHANGED Shown
    BY <1>2, <1>3, <1>4, <1>10, <2>1 DEF Queue!QueueNext
  <2>2. ASSUME NEW f \in File,
               \/ Load(c, f) \/ AllLoaded(c, f) \/ Terminate(c, f)
               \/ LoadFails(c, f) \/ Processed(c, f)
        PROVE  Queue!QueueNext \/ UNCHANGED Shown
    BY <1>5, <1>11, <1>12, <2>2
  <2> QED  BY <1>13, <2>1, <2>2 DEF ThreadStep
<1> QED  BY <1>1, <1>6, <1>7, <1>8, <1>9, <1>13 DEF Next

LEMMA InitShown == Init => Queue!QueueInit
<1> SUFFICES ASSUME Init PROVE Queue!QueueInit
  OBVIOUS
<1>1. InProgress = {}
  BY DEF Init, ReceiversStart, InProgress, NewReceiver
<1>2. Waiting = intermediate
  BY <1>1 DEF Waiting, Init
<1> QED  BY <1>1, <1>2 DEF Init, Queue!QueueInit

(* The receivers, their bounded memory and their reads of the directory    *)
(* give the eldest file of each type that waits, to one thread at a time:  *)
(* they implement the queue of files (ImplementsQueue).                    *)
THEOREM QueueImplemented == Spec => ImplementsQueue
<1>1. Inv /\ [Next]_vars => [Queue!QueueNext]_(Queue!queueVars)
  BY StepShown DEF Shown, Queue!queueVars
<1> QED
  BY <1>1, InitShown, InvariantHolds, PTL DEF Spec, ImplementsQueue, Queue!QueueSpec
=============================================================================
