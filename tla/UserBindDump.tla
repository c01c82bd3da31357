---------------------------- MODULE UserBindDump ----------------------------
(***************************************************************************)
(* The dump of the binding server (save_users_ and load_users_ of          *)
(* UserBindChunk), while calls go on, errors of the file system end it and *)
(* the process crashes.  A dump notes the files that are there, reads the  *)
(* holders of one kind after the other, from the oldest period to the      *)
(* newest, into temporary files, renames these, and deletes the old files. *)
(* It takes no lock of users: the reading of a holder ends when all users  *)
(* that are in it were read (FetchableHashTable), each at a time of its    *)
(* own, and one that is moved meanwhile may not be read at all.            *)
(***************************************************************************)
EXTENDS UserBindServer

CONSTANTS
    Numbers,        \* the random numbers in the names of files
    MaxCrashes      \* bound of the model

ASSUME DumpAssumption == Numbers \subseteq Nat /\ MaxCrashes \in Nat

VARIABLES
    disk,       \* the files of the chunk
    dump,       \* the dump that runs
    crashes,
    ready,      \* were the users loaded?
    since       \* for the properties: of each id, the bindings it had since
                \* the last complete dump began, and since this one did, and
                \* whether it was moved meanwhile

dumpVars == <<disk, dump, crashes, ready, since>>
allVars == <<vars, dumpVars>>

(* A file: the users of the holders of a kind and a period, and whether it  *)
(* ends in a line that cannot be read.  One number stands for the random    *)
(* ones of all the files of a dump.                                        *)
NoDump == [pc |-> "idle"]

DumpInit ==
    /\ Init
    /\ disk = {} /\ dump = NoDump /\ crashes = 0 /\ ready = TRUE
    /\ since = [i \in Id |-> [last |-> {NoUid}, now |-> {}, moved |-> FALSE,
                              lastMoved |-> FALSE]]

-----------------------------------------------------------------------------
Used == {f.number : f \in disk}

DumpBegins ==
    /\ dump = NoDump
    /\ \E n \in Numbers \ Used :
        dump' = [pc |-> "read", kind |-> "seen", number |-> n, old |-> disk,
                 todo |-> container["seen"], got |-> {}, tmp |-> {}]
    /\ UNCHANGED <<disk, crashes, ready>>

(* The temporary files with one more user.                                 *)
Written(k, h, i) ==
    LET p == holders[k][h].period
        same == {f \in dump.tmp : f.kind = k /\ f.period = p}
        users == IF same = {} THEN [j \in Id |-> None]
                 ELSE (CHOOSE f \in same : TRUE).users
    IN  (dump.tmp \ same) \cup
            {[kind |-> k, period |-> p, number |-> dump.number, torn |-> FALSE,
              users |-> [users EXCEPT ![i] = holders[k][h].users[i]]]}

Oldest(h) ==
    /\ h \in dump.todo
    /\ \A g \in dump.todo :
        holders[dump.kind][h].period <= holders[dump.kind][g].period

Present(h) == {i \in Id : holders[dump.kind][h].users[i] # None}

(* A user that was put into its holder again may be read again.            *)
DumpReads ==
    /\ dump.pc = "read"
    /\ \E h \in dump.todo : Oldest(h) /\ \E i \in Present(h) :
        dump' = [dump EXCEPT !.got = @ \cup {i}, !.tmp = Written(dump.kind, h, i)]
    /\ UNCHANGED <<disk, crashes, ready>>

DumpGoesOn ==
    /\ dump.pc = "read"
    /\ \/ \E h \in dump.todo :
            /\ Oldest(h) /\ Present(h) \subseteq dump.got
            /\ dump' = [dump EXCEPT !.todo = @ \ {h}, !.got = {}]
       \/ /\ dump.todo = {}
          /\ dump' = IF dump.kind = "seen"
                     THEN [dump EXCEPT !.kind = "bound", !.todo = container["bound"]]
                     ELSE [dump EXCEPT !.pc = "rename"]
    /\ UNCHANGED <<disk, crashes, ready>>

(* A cut line that can be read: without flags and counters, or with a       *)
(* number cut off.                                                         *)
Cut(k, user) ==
    IF k = "seen" THEN {}
    ELSE {[user EXCEPT !.cookie = FALSE, !.bad = 0, !.day = 0]} \cup
            {[user EXCEPT !.day = d] : d \in 0 .. user.day - 1}

(* Each line but the last is flushed when the next one is begun, and a      *)
(* failure of that is noticed.  When close() cannot write the last one, bad *)
(* is not set, and the file is taken as it is: without that line, which is  *)
(* an error to who reads it, or with a part of it.                         *)
Closed(f) ==
    {f, [f EXCEPT !.torn = TRUE]} \cup
    UNION {{[f EXCEPT !.users[i] = user] : user \in Cut(f.kind, f.users[i])} :
                i \in {j \in Id : f.users[j] # None}}

DumpRenames ==
    /\ dump.pc = "rename" /\ dump.tmp # {}
    /\ \E f \in dump.tmp : \E g \in Closed(f) :
        /\ disk' = disk \cup {g}
        /\ dump' = [dump EXCEPT !.tmp = @ \ {f}]
    /\ UNCHANGED <<crashes, ready>>

Deletable_AtOnce == dump.pc \in {"read", "rename"}
Deletable == dump.pc = "rename" /\ dump.tmp = {}

DumpDeletes ==
    /\ Deletable
    /\ \E f \in dump.old :
        /\ disk' = disk \ {f}
        /\ dump' = [dump EXCEPT !.old = @ \ {f}]
    /\ UNCHANGED <<crashes, ready>>

DumpEnds ==
    /\ dump.pc = "rename" /\ dump.tmp = {} /\ dump.old = {}
    /\ dump' = NoDump
    /\ UNCHANGED <<disk, crashes, ready>>

(* A file that cannot be opened, flushed between two lines, renamed or      *)
(* deleted ends the dump.                                                  *)
DumpFails ==
    /\ dump # NoDump
    /\ dump' = NoDump
    /\ UNCHANGED <<disk, crashes, ready>>

-----------------------------------------------------------------------------
(* The files are loaded from the last name to the first, a user of a file  *)
(* replaces the one that was loaded into the same holder before.           *)
Periods(k) == {f.period : f \in {g \in disk : g.kind = k}}

LoadedUser(k, p, i) ==
    LET saved == {f \in disk : f.kind = k /\ f.period = p /\ f.users[i] # None} IN
    IF saved = {} THEN None
    ELSE (CHOOSE f \in saved : \A g \in saved : f.number <= g.number).users[i]

Nth(k, n) ==
    CHOOSE p \in Periods(k) : Cardinality({q \in Periods(k) : q <= p}) = n

Loaded(k) ==
    [n \in 1 .. Cardinality(Periods(k)) |->
        [period |-> Nth(k, n), users |-> [i \in Id |-> LoadedUser(k, Nth(k, n), i)]]]

(* A file that cannot be read keeps the chunk from being made: the load is  *)
(* tried again and again, and the server is not ready.                     *)
Crash ==
    /\ crashes < MaxCrashes
    /\ crashes' = crashes + 1
    /\ ready' = (\A f \in disk : ~f.torn)
    /\ holders' = [k \in Kind |-> IF ready' THEN Loaded(k) ELSE <<>>]
    /\ container' = [k \in Kind |-> DOMAIN holders'[k]]
    /\ caller' = [c \in Caller |-> Idle]
    /\ dump' = NoDump
    /\ UNCHANGED <<clock, spent, disk>>

-----------------------------------------------------------------------------
(* The bookkeeping of the properties.                                      *)
Moving(i) == Underway(i) # {}

Noted ==
    since' = [i \in Id |->
        LET begins == dump = NoDump /\ dump' # NoDump
            ends == dump' = NoDump /\ dump # NoDump /\ dump.pc = "rename"
                    /\ dump.tmp = {} /\ dump.old = {} /\ crashes' = crashes
            now == IF begins THEN {Binding(i)} ELSE since[i].now
            moved == IF begins THEN Moving(i) ELSE since[i].moved \/ Moving(i)'
        IN  [last |-> (IF ends THEN now ELSE since[i].last) \cup {Binding(i)'},
             lastMoved |-> IF ends THEN moved
                           ELSE since[i].lastMoved \/ (disk' \subseteq disk /\ disk' # disk
                                                       /\ moved),
             now |-> IF dump' = NoDump THEN {} ELSE now \cup {Binding(i)'},
             moved |-> dump' # NoDump /\ moved]]

DumpStep ==
    \/ DumpBegins
    \/ DumpReads
    \/ DumpGoesOn
    \/ DumpRenames
    \/ DumpDeletes
    \/ DumpEnds
    \/ DumpFails

DumpNext ==
    /\ \/ ready /\ Next /\ UNCHANGED <<disk, dump, crashes, ready>>
       \/ ready /\ DumpStep /\ UNCHANGED vars
       \/ Crash
    /\ Noted

DumpSpec == DumpInit /\ [][DumpNext]_allVars

-----------------------------------------------------------------------------
(* An id that no call is busy with is in one holder at most: it is never   *)
(* both seen and bound, and no old copy of it stays behind when it is      *)
(* moved to the present, which would come back when the new one expires.   *)
(* (A start after a crash may load a copy of both.)                        *)
OneHome ==
    crashes = 0 =>
        \A i \in Id : Unlocked(i) =>
            \A k, l \in Kind :
                \A g \in With(k, container[k], i), h \in With(l, container[l], i) :
                    k = l /\ g = h

(* The clients see a directory: whatever holders are made, dropped, left   *)
(* and written to files meanwhile, an id in use is not forgotten and keeps *)
(* its user, until the process crashes.                                    *)
ImplementsDirectory ==
    /\ Directory!Init
    /\ [][crashes' = 0 => Directory!Step]_allVars

(* A start after a crash finds each id bound to a user it had since the    *)
(* last complete dump began: a dump that fails or is cut off anywhere      *)
(* takes nothing away of the one before.  (An id that was on its way from  *)
(* one holder to the next during a dump may be missing from its files.)    *)
(* Or it does not come up, on a file of which the last line was lost.       *)
(* This is about the first crash: a start after it may load two users of   *)
(* an id, and the older one may come back at the next.                     *)
LoadsWhatWasKnown ==
    [][Crash => \A i \in Id :
        \/ Binding(i)' \in since[i].last
        \/ Binding(i)' = NoUid /\ (since[i].lastMoved \/ ~ready')]_allVars

(* "can't save to file": a file that was not saved ends the dump, so that   *)
(* every start can read the files it finds.  This does not hold, and no run *)
(* has it: when close() is what fails, no start is ready until somebody     *)
(* removes the file.                                                       *)
EveryStartIsReady == ready
=============================================================================
