--------------------------- MODULE LevelProfileMap --------------------------
(***************************************************************************)
(* A profile map on levels (PlainStorage3): profiles are written to a level *)
(* in memory; a full one is put in front of the read-only levels and a new *)
(* one takes its place; tasks dump such a level to a file, merge the files *)
(* and, when too much is in memory or too many levels were not merged yet, *)
(* writers wait for them.                                                  *)
(*                                                                         *)
(* A profile is the number of its write; the tombstone of a removal is one *)
(* too.  rw_level_lock_, held by a writer through its call, makes the call *)
(* one step; a reader takes the lists of levels first and the lock after.  *)
(***************************************************************************)
EXTENDS SequencesExt, Sums, ProfileUsers

CONSTANTS
    RWMax,          \* rwlevel_max_size_
    MaxUndumped,    \* max_undumped_size_
    MaxLevels0,     \* max_levels0_
    MaxWrites,      \* bound of the model: profiles and tombstones written
    MaxOld,         \* bound of the model: how many of them grow old
    MaxRestarts,    \* bound of the model: stops and crashes
    MaxFailures     \* bound of the model: merges that fail

ASSUME LevelMapAssumption ==
    /\ RWMax \in Nat \ {0} /\ RWMax <= MaxUndumped
    /\ MaxLevels0 \in Nat \ {0, 1}
    /\ MaxWrites \in Nat

VARIABLES
    nonblock,   \* mode_ = NONBLOCK_RUNTIME
    rw,         \* the profiles of rw_level
    levels,     \* map_holder_->levels, the newest first
    dumps,      \* the tasks that dump a level
    merge,      \* the merge task, "none" when merge_tasks_count_ is 0
    undumped,   \* undumped_size_
    levels0,    \* levels0_
    waiting,    \* who waits for undumped_size_change_
    snapshot,   \* the lists a reader has taken and not searched yet, or None
    removing,   \* the levels with to_remove whose files are still there
    status,     \* "up", "stopping", "dumping" (dump() waits for undumped_size_),
                \* "merging" (dump() waits for the merge), "down", "crashed",
                \* "torn" (begun after a crash among files to be removed)
    written,    \* how many profiles and tombstones were written
    old,        \* how many of them are past the expire time
    restarts,   \* how many stops and crashes there were
    failures    \* how many merges have failed

levelVars == <<nonblock, rw, levels, dumps, merge, undumped, levels0, waiting,
               snapshot, removing, status, written, old, restarts, failures>>

tasks == <<dumps, merge>>
counters == <<nonblock, removing, written, old, restarts, failures>>

NoProfiles == [k \in {} |-> None]

-----------------------------------------------------------------------------
(* Levels *)

(* area_size: a tombstone is smaller than a profile. *)
AreaSize(profiles) ==
    SumOver([k \in DOMAIN profiles |-> IF profiles[k].erased THEN 1 ELSE 2], DOMAIN profiles)

(* create_filter_iterator_: what is past the expire time becomes a tombstone *)
Unexpired(profiles) ==
    [k \in DOMAIN profiles |->
        [profiles[k] EXCEPT !.erased = profiles[k].erased \/ profiles[k].ver <= old]]

(* full_index_file_name is set when the level has been swapped for a file. *)
Dumped(level) == level.stored = "file"

(* merge_check_: two dumped levels 0. *)
MergeCheck(list) ==
    Cardinality({i \in DOMAIN list : list[i].index = 0 /\ Dumped(list[i])}) > 1

(* LevelHolderPtrLess *)
Before(one, two) ==
    one.index < two.index \/ (one.index = two.index /\ one.sub_index > two.sub_index)

(* std::lower_bound, insert *)
Insert(list, level) ==
    LET n == Cardinality({i \in DOMAIN list : Before(list[i], level)})
    IN  SubSeq(list, 1, n) \o <<level>> \o SubSeq(list, n + 1, Len(list))

(* std::remove_if: what is at the other places goes, the order stays.      *)
Kept(list, places) ==
    [n \in 1..Cardinality(places) |->
        list[CHOOSE i \in places : Cardinality({j \in places : j <= i}) = n]]

(* get_profile on a level, and on the list of them: the first that has it. *)
Nothing == [ver |-> 0, erased |-> TRUE]

Search(list, k) ==
    LET having == {i \in DOMAIN list : k \in DOMAIN list[i]}
    IN  IF having = {} THEN Nothing ELSE list[Min(having)][k]

Contents(list) == [i \in DOMAIN list |-> list[i].profiles]

(* Mutant: the older operation of two wins. *)
Merged_OldestFirst(list) ==
    [k \in UNION {DOMAIN list[i] : i \in DOMAIN list} |->
        list[Max({i \in DOMAIN list : k \in DOMAIN list[i]})][k]]

(* MergeIterator, OperationPackIterator: of each key the newest operation. *)
Merged(list) ==
    [k \in UNION {DOMAIN list[i] : i \in DOMAIN list} |-> Search(list, k)]

Visible == [k \in Key |-> Search(<<rw>> \o Contents(levels), k)]

(* What the next start loads: the levels whose files were renamed.          *)
FileOf(level) ==
    IF level.stored = "written"
    THEN [level EXCEPT !.stored = "file", !.profiles = level.file, !.file = NoProfiles]
    ELSE level

Files ==
    LET renamed == Kept(levels, {i \in DOMAIN levels : levels[i].stored # "memory"})
    IN  [i \in DOMAIN renamed |-> FileOf(renamed[i])]

OnDisk ==
    LET stored == [i \in DOMAIN levels |->
                      IF levels[i].stored = "memory" THEN NoProfiles ELSE FileOf(levels[i]).profiles]
    IN  [k \in Key |-> Search(stored, k)]

LevelInit ==
    /\ nonblock \in BOOLEAN
    /\ rw = NoProfiles
    /\ levels = <<>>
    /\ dumps = {}
    /\ merge = [step |-> "none"]
    /\ undumped = 0
    /\ levels0 = 0
    /\ waiting = {}
    /\ snapshot = [c \in Client |-> None]
    /\ removing = {}
    /\ status = "up"
    /\ written = 0
    /\ old = 0
    /\ restarts = 0
    /\ failures = 0

-----------------------------------------------------------------------------
(* Writers *)

NoRoom == undumped >= MaxUndumped \/ levels0 >= MaxLevels0
Active == status \in {"up", "stopping"}
Down == status \in {"down", "crashed", "torn"}

NewSubIndex == IF levels = <<>> THEN 0 ELSE levels[1].sub_index + 1

(* exchange_rw_level_i_: the profiles are taken out of the old writable    *)
(* level, so that those who still hold its list find nothing in it.        *)
Exchange(profiles) ==
    IF profiles = NoProfiles
    THEN UNCHANGED <<levels, dumps, levels0, snapshot>> /\ rw' = profiles
    ELSE /\ rw' = NoProfiles
         /\ levels' = <<[index |-> 0, sub_index |-> NewSubIndex,
                         profiles |-> profiles, stored |-> "memory",
                         file |-> NoProfiles]>> \o levels
         /\ levels0' = levels0 + 1
         /\ dumps' = dumps \cup {[sub_index |-> NewSubIndex, step |-> "write",
                                  upto |-> Max({profiles[k].ver : k \in DOMAIN profiles}),
                                  area |-> AreaSize(profiles), merge |-> FALSE]}
         /\ snapshot' = [c \in Client |->
                IF snapshot[c] = None THEN None ELSE [snapshot[c] EXCEPT !.emptied = TRUE]]

(* save_profile, remove_profile, once there is room.                       *)
Put(k, erased) ==
    /\ ~Down
    /\ ~NoRoom
    /\ written < MaxWrites
    /\ written' = written + 1
    /\ LET put == [ver |-> written + 1, erased |-> erased]
           profiles == [j \in DOMAIN rw \cup {k} |-> IF j = k THEN put ELSE rw[j]]
       IN  /\ undumped' = undumped + AreaSize(profiles) - AreaSize(rw)
           /\ IF AreaSize(profiles) >= RWMax
              THEN Exchange(profiles)
              ELSE rw' = profiles /\ UNCHANGED <<levels, dumps, levels0, snapshot>>
    /\ UNCHANGED <<nonblock, merge, waiting, removing, status, old, restarts, failures>>

(* No room: the call waits, or it throws (NotActive, Blocked).             *)
Refuses == NoRoom /\ (~Active \/ nonblock)

Wait(c) ==
    /\ NoRoom /\ ~Refuses
    /\ c \notin waiting
    /\ waiting' = waiting \cup {c}
    /\ UNCHANGED <<rw, levels, tasks, undumped, levels0, snapshot, status, counters>>

(* wait_preconditions of the calls with background priority.               *)
BackgroundNoRoom == undumped >= MaxUndumped \div 2 \/ levels0 >= MaxLevels0 \div 2

WaitBackground(c) ==
    /\ BackgroundNoRoom /\ Active
    /\ c \notin waiting
    /\ waiting' = waiting \cup {c}
    /\ UNCHANGED <<rw, levels, tasks, undumped, levels0, snapshot, status, counters>>

-----------------------------------------------------------------------------
(* Readers: get_profile, check_profile *)

TakeSnapshot(c) ==
    /\ snapshot[c] = None
    /\ snapshot' = [snapshot EXCEPT ![c] = [older |-> Contents(levels), emptied |-> FALSE]]
    /\ UNCHANGED <<rw, levels, tasks, undumped, levels0, waiting, status, counters>>

SearchSnapshot(c, k) ==
    Search((IF snapshot[c].emptied THEN <<>> ELSE <<rw>>) \o snapshot[c].older, k)

DropSnapshot(c) ==
    /\ snapshot[c] # None
    /\ snapshot' = [snapshot EXCEPT ![c] = None]
    /\ UNCHANGED <<rw, levels, tasks, undumped, levels0, waiting, status, counters>>

-----------------------------------------------------------------------------
(* DumpMemLevelTask: a dump that fails is begun again 10 seconds later, so *)
(* failing changes nothing here.                                           *)

DumpMove(task, step) == dumps' = (dumps \ {task}) \cup {[task EXCEPT !.step = step]}

DumpedLevel(task) ==
    CHOOSE i \in DOMAIN levels : levels[i].index = 0 /\ levels[i].sub_index = task.sub_index

(* The files are written beside the level and renamed.                     *)
WriteLevel(task) ==
    /\ task.step = "write"
    /\ LET i == DumpedLevel(task)
       IN  levels' = [levels EXCEPT ![i].stored = "written",
                                    ![i].file = Unexpired(levels[i].profiles)]
    /\ DumpMove(task, "swap")
    /\ UNCHANGED <<rw, merge, undumped, levels0, waiting, snapshot, status, counters>>

(* The files take the level's place, map_holder_change_lock_ held.         *)
SwapLevel(task) ==
    /\ task.step = "swap"
    /\ LET i == DumpedLevel(task)
       IN  levels' = [levels EXCEPT ![i].stored = "file", ![i].profiles = levels[i].file,
                                    ![i].file = NoProfiles]
    /\ dumps' = (dumps \ {task}) \cup
                {[task EXCEPT !.step = "count", !.merge = MergeCheck(levels')]}
    /\ UNCHANGED <<rw, merge, undumped, levels0, waiting, snapshot, status, counters>>

(* signal_by_undumped_size_ *)
SignalUndumped(before, after) ==
    \/ before >= MaxUndumped /\ after < MaxUndumped
    \/ before >= MaxUndumped \div 2 /\ after < MaxUndumped \div 2
    \/ before # 0 /\ after = 0

Broadcast(signal) == waiting' = IF signal THEN {} ELSE waiting

CountDumped(task) ==
    /\ task.step = "count"
    /\ undumped' = undumped - task.area
    /\ Broadcast(SignalUndumped(undumped, undumped'))
    /\ DumpMove(task, "enqueue")
    /\ UNCHANGED <<rw, levels, merge, levels0, snapshot, status, counters>>

(* One merge at a time: merge_tasks_count_ under its lock.                 *)
EnqueueMerge(task) ==
    /\ task.step = "enqueue"
    /\ dumps' = dumps \ {task}
    /\ merge' = IF task.merge /\ merge.step = "none" THEN [step |-> "queued"] ELSE merge
    /\ UNCHANGED <<rw, levels, undumped, levels0, waiting, snapshot, status, counters>>

-----------------------------------------------------------------------------
(* merge_levels_ *)

(* What a level of that index holds: rwlevel_max_size_, doubled.           *)
Capacity[index \in Nat] == IF index = 0 THEN RWMax ELSE 2 * Capacity[index - 1]

Areas(list, from, to) ==
    SumOver([i \in DOMAIN list |-> AreaSize(list[i].profiles)], from..to)

(* The place after the last level that is not dumped, of those up to n.    *)
FirstDumped(list, n) == Max({0} \cup {i \in 1..n : ~Dumped(list[i])}) + 1

(* An index is free before the n-th level, and what is picked before it    *)
(* fits into a lower one than its own.  A level that is not dumped has the  *)
(* index 0, which is what last_index begins with.                         *)
Gap(list, n) ==
    LET last == IF n = 1 THEN 0 ELSE list[n - 1].index
    IN  /\ Dumped(list[n])
        /\ list[n].index \notin {last, last + 1}
        /\ Areas(list, FirstDumped(list, n), n - 1) < Capacity[list[n].index - 1]

(* The levels after the last one that is not dumped, up to a gap that the  *)
(* merged level cannot reach.                                              *)
Picked(list) ==
    LET upto == Min({Len(list)} \cup {n - 1 : n \in {m \in DOMAIN list : Gap(list, m)}})
    IN  SubSeq(list, FirstDumped(list, upto), upto)

(* The index a level of this size has.                                     *)
IndexFor(area) == CHOOSE i \in 0..area :
    Capacity[i] >= area /\ \A j \in 0..(i - 1) : Capacity[j] < area

MergedLevel(picked) ==
    LET profiles == Unexpired(Merged(Contents(picked)))
        index == IndexFor(AreaSize(profiles))
        inside == index > picked[1].index   \* else it takes the first one's place
    IN  [index |-> IF inside THEN index ELSE picked[1].index,
         sub_index |-> IF inside THEN 0 ELSE picked[1].sub_index,
         profiles |-> profiles, stored |-> "file", file |-> NoProfiles]

StopMerge == status = "merging"

(* The levels are picked once, before the merged one is made of them.       *)
BeginMerge ==
    /\ merge.step = "queued"
    /\ \E picked \in {Picked(levels)} :
        merge' = IF Len(picked) > 1
                 THEN [step |-> "swap", picked |-> {<<picked[i].index, picked[i].sub_index>> :
                                                        i \in DOMAIN picked},
                       result |-> MergedLevel(picked)]
                 ELSE [step |-> "recheck"]
    /\ UNCHANGED <<rw, levels, dumps, undumped, levels0, waiting, snapshot, status, counters>>

(* stop_merge_ interrupts the writing of the merged level.                 *)
InterruptMerge ==
    /\ merge.step = "swap"
    /\ StopMerge
    /\ merge' = [step |-> "recheck"]
    /\ UNCHANGED <<rw, levels, dumps, undumped, levels0, waiting, snapshot, status, counters>>

(* A merge that cannot write its files is begun again 10 seconds later.    *)
FailMerge ==
    /\ merge.step = "swap"
    /\ failures < MaxFailures
    /\ failures' = failures + 1
    /\ merge' = [step |-> "recheck"]
    /\ UNCHANGED <<nonblock, rw, levels, dumps, undumped, levels0, waiting, snapshot, removing,
                   status, written, old, restarts>>

(* The files are renamed, the merged level takes the place of the levels   *)
(* it was made of, whose files are to be removed.                          *)
SwapMerged ==
    /\ merge.step = "swap"
    /\ removing' = removing \cup {level \in Range(levels) :
                                    <<level.index, level.sub_index>> \in merge.picked}
    /\ levels' = Insert(Kept(levels, {i \in DOMAIN levels :
                                        <<levels[i].index, levels[i].sub_index>> \notin merge.picked}),
                        merge.result)
    /\ merge' = [step |-> "count",
                 gone |-> Cardinality({p \in merge.picked : p[1] = 0}),
                 came |-> IF merge.result.index = 0 THEN 1 ELSE 0]
    /\ UNCHANGED <<nonblock, rw, dumps, undumped, levels0, waiting, snapshot, status,
                   written, old, restarts, failures>>

(* Mutant: the bound of the background calls only. *)
SignalLevels_BackgroundOnly(before, after) ==
    before >= MaxLevels0 \div 2 /\ after < MaxLevels0 \div 2

(* signal_by_levels_change_ *)
SignalLevels(before, after) ==
    \/ before >= MaxLevels0 /\ after < MaxLevels0
    \/ before >= MaxLevels0 \div 2 /\ after < MaxLevels0 \div 2

(* Mutant: the merged level itself is not counted. *)
CountMerged_ResultForgotten ==
    /\ merge.step = "count"
    /\ levels0' = levels0 - merge.gone
    /\ Broadcast(SignalLevels(levels0, levels0'))
    /\ merge' = [step |-> "recheck"]
    /\ UNCHANGED <<rw, levels, dumps, undumped, snapshot, status, counters>>

CountMerged ==
    /\ merge.step = "count"
    /\ levels0' = levels0 + merge.came - merge.gone
    /\ Broadcast(SignalLevels(levels0, levels0'))
    /\ merge' = [step |-> "recheck"]
    /\ UNCHANGED <<rw, levels, dumps, undumped, snapshot, status, counters>>

(* ~LevelHolder: the files of a merged level go when the last reference to  *)
(* it does.  merge_levels_ drops its own after counting, in no order that   *)
(* it chooses, and readers keep those of the lists they have taken.        *)
Unlink(level) ==
    /\ ~Down
    /\ level \in removing
    /\ merge.step # "count"
    /\ removing' = removing \ {level}
    /\ UNCHANGED <<nonblock, rw, levels, tasks, undumped, levels0, waiting, snapshot, status,
                   written, old, restarts, failures>>

ReferencesDropped == removing = {} \/ \E c \in Client : snapshot[c] # None

(* Mutant: levels that were dumped during the merge are not looked for. *)
Recheck_Ends ==
    /\ merge.step = "recheck"
    /\ ReferencesDropped
    /\ merge' = [step |-> "none"]
    /\ UNCHANGED <<rw, levels, dumps, undumped, levels0, waiting, snapshot, status, counters>>

(* Under merge_tasks_count_lock_, because a dump that finds a merge        *)
(* running leaves its levels to it.                                        *)
Recheck ==
    /\ merge.step = "recheck"
    /\ ReferencesDropped
    /\ merge' = [step |-> IF MergeCheck(levels) /\ ~StopMerge THEN "queued" ELSE "none"]
    /\ UNCHANGED <<rw, levels, dumps, undumped, levels0, waiting, snapshot, status, counters>>

-----------------------------------------------------------------------------
(* The process *)

(* Time passes: the oldest writes reach the expire time.                   *)
GrowOld ==
    /\ old < MaxOld /\ old < written
    /\ old' = old + 1
    /\ UNCHANGED <<nonblock, rw, levels, tasks, undumped, levels0, waiting, snapshot, removing,
                   status, written, restarts, failures>>

Deactivate ==
    /\ status = "up"
    /\ restarts < MaxRestarts
    /\ restarts' = restarts + 1
    /\ status' = "stopping"
    /\ Exchange(rw)
    /\ UNCHANGED <<nonblock, merge, undumped, waiting, removing, written, old, failures>>

(* Mutant: the writable level is not taken once more. *)
WaitObject_NoExchange ==
    /\ status = "stopping"
    /\ status' = "dumping"
    /\ waiting' = {}
    /\ UNCHANGED <<rw, levels, dumps, levels0, snapshot, merge, undumped, counters>>

(* wait_object: not active any more, the waiting calls are woken, dump()   *)
(* takes what is in the writable level.                                    *)
WaitObject ==
    /\ status = "stopping"
    /\ status' = "dumping"
    /\ waiting' = {}
    /\ Exchange(rw)
    /\ UNCHANGED <<merge, undumped, counters>>

(* Mutant: the dumps are not waited for. *)
AllDumped_NoWait ==
    /\ status = "dumping"
    /\ status' = "merging"
    /\ UNCHANGED <<rw, levels, tasks, undumped, levels0, waiting, snapshot, counters>>

(* The first wait of dump() is over: stop_merge_ is set.                   *)
AllDumped ==
    /\ status = "dumping"
    /\ undumped = 0
    /\ status' = "merging"
    /\ UNCHANGED <<rw, levels, tasks, undumped, levels0, waiting, snapshot, counters>>

(* The second wait is over, and with it the map and what merges and calls   *)
(* referred to: what has no file is lost; a merge enqueued from here on is  *)
(* not run.                                                                *)
AllMerged ==
    /\ status = "merging"
    /\ merge.step = "none"
    /\ removing = {}
    /\ status' = "down"
    /\ rw' = NoProfiles
    /\ levels' = Files
    /\ dumps' = {}
    /\ UNCHANGED <<merge, undumped, levels0, waiting, snapshot, counters>>

(* A crash: what was renamed is there at the next start, and what was not   *)
(* removed yet.                                                            *)
Crash ==
    /\ ~Down
    /\ restarts < MaxRestarts
    /\ restarts' = restarts + 1
    /\ status' = "crashed"
    /\ rw' = NoProfiles
    /\ levels' = Files
    /\ dumps' = {}
    /\ merge' = [step |-> "none"]
    /\ waiting' = {}
    /\ snapshot' = [c \in Client |-> None]
    /\ undumped' = 0
    /\ levels0' = 0
    /\ UNCHANGED <<nonblock, removing, written, old, failures>>

(* The constructor loads the levels from their files and merges them when  *)
(* it is due; activate_object.                                             *)
Start ==
    /\ status \in {"down", "crashed"}
    /\ removing = {}
    /\ status' = "up"
    /\ undumped' = 0
    /\ levels0' = Cardinality({i \in DOMAIN levels : levels[i].index = 0})
    /\ merge' = [step |-> IF MergeCheck(levels) THEN "queued" ELSE "none"]
    /\ UNCHANGED <<rw, levels, dumps, waiting, snapshot, counters>>

(* add_level_ for each file, as the directory has them: two levels with the *)
(* same index and sub_index get in either order.                           *)
Loaded(files) == {list \in [1..Cardinality(files) -> files] :
    /\ files \subseteq Range(list)
    /\ \A i, j \in DOMAIN list : i < j => ~Before(list[j], list[i])}

(* The same after a crash that left files to be removed: they are levels    *)
(* again.  The model ends with what such a start shows.                    *)
StartAmongRemoved ==
    /\ status = "crashed"
    /\ removing # {}
    /\ status' = "torn"
    /\ levels' \in Loaded(Range(levels) \cup removing)
    /\ removing' = {}
    /\ UNCHANGED <<nonblock, rw, tasks, undumped, levels0, waiting, snapshot, written, old,
                   restarts, failures>>

Dump == \E task \in dumps :
    WriteLevel(task) \/ SwapLevel(task) \/ CountDumped(task) \/ EnqueueMerge(task)
Merge == BeginMerge \/ InterruptMerge \/ FailMerge \/ SwapMerged \/ CountMerged \/ Recheck
    \/ \E level \in removing : Unlink(level)
Process == Deactivate \/ WaitObject \/ AllDumped \/ AllMerged \/ Crash \/ Start
    \/ StartAmongRemoved \/ GrowOld
=============================================================================
