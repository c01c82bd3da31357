---------------------------- MODULE BillingServer ---------------------------
(***************************************************************************)
(* A billing server process: it loads the container's storage, serves bids *)
(* once the first configuration has come, dumps the container from time to *)
(* time while calls change it, and dumps it once more when it stops, after *)
(* the last call.  The process may die at any moment; what survives is the *)
(* storage directory, its "~" copy being written and its ".bak" copy.      *)
(*                                                                         *)
(* A directory is None or a function from file to content.  A file that is *)
(* being written is not told apart from one that is not there: neither is  *)
(* ever read, because only a complete copy is renamed.                     *)
(***************************************************************************)
EXTENDS BillingContainer

CONSTANTS
    MaxRestarts,    \* bound of the model: how often the process is restarted
    MaxDumps        \* bound of the model: how many dumps are begun

VARIABLES
    process,    \* "down" ("broken" when it died between the two renames of a
                \* dump), "loaded" (serving when config is bound), "stopping" (no
                \* new calls), "dumping" (for the last time), "stopped"
    disk,       \* the directories storage_root_, storage_root_~ and .bak
    dump,       \* the next step of the dump in progress, "idle" when none is
    restarts,   \* how often the process has ended so far
    dumps,      \* how many dumps have been begun
    dumped      \* history: the content of the last dump that was completed, or
                \* nothing once a server has begun without it

serverVars == <<config, books, imps, call, stat, booked, aborted,
                process, disk, dump, restarts, dumps, dumped>>

container == <<config, books, imps, call, stat, booked, aborted>>

NoDir == [dir \in {"root", "tmp", "bak"} |-> None]
NoBooks == [level \in Level |-> [id \in Id |-> NoDays]]
NoImps == [campaign \in Id |-> [ccg \in Id |-> 0]]
NoContent == [books |-> NoBooks, imps |-> NoImps]

ServerInit ==
    /\ Init
    /\ process = "down"
    /\ disk = NoDir
    /\ dump = "idle"
    /\ restarts = 0
    /\ dumps = 0
    /\ dumped = NoContent

-----------------------------------------------------------------------------
(* save_amounts_, load_amounts_: a line per day and the amount before.     *)

SaveAmounts(amounts) ==
    [id \in Id |-> IF amounts[id] = NoDays THEN None ELSE SaveHolder(amounts[id])]

LoadAmounts(file) ==
    [id \in Id |-> IF file[id] = None THEN NoDays ELSE LoadHolder(file[id])]

(* What is saved of a holder, and a directory: a file of every level and   *)
(* one of the rates.  An absent one is none of these.                      *)
HolderFile == [amounts : UNION {[S -> Int] : S \in SUBSET Date}, before : Int]

Directory ==
    [Level \cup {"rates"} -> [Id -> HolderFile \cup {None}] \cup [Id -> [Id -> Int]]]

ASSUME FileAssumption == None \notin HolderFile /\ None \notin Directory

Content(dir) ==
    [books |-> [level \in Level |-> LoadAmounts(dir[level])], imps |-> dir["rates"]]

(* load_ and the container's constructor: without a storage directory the  *)
(* server begins with empty books, whatever copies there are.              *)
Load ==
    /\ process \in {"down", "broken"}
    /\ process' = "loaded"
    /\ LET content == IF disk.root = None THEN NoContent ELSE Content(disk.root)
       IN  books' = content.books /\ imps' = content.imps
    /\ dumped' = IF disk.root = None THEN NoContent ELSE dumped
    /\ UNCHANGED <<config, call, stat, booked, aborted, disk, dump, restarts, dumps>>

(* get_accessor_: no call begins before the first configuration, and none  *)
(* after the server has begun to stop; those that run go on.               *)
Serve(b) ==
    /\ process \in {"loaded", "stopping", "dumping"}
    /\ call[b].pc = "new" => process = "loaded" /\ config # None
    /\ CallNext(b)
    /\ UNCHANGED <<process, disk, dump, restarts, dumps, dumped>>

(* A task that runs when the server begins to stop is waited for.          *)
UpdateConfig(new) ==
    /\ process \in {"loaded", "stopping"}
    /\ Config(new)
    /\ UNCHANGED <<process, disk, dump, restarts, dumps, dumped>>

UpdateStat ==
    /\ \/ process \in {"loaded", "stopping"} /\ \E source \in Stats : Stat(source)
       \/ process \in {"loaded", "stopping", "dumping"} /\ ReplaceAmounts
    /\ UNCHANGED <<process, disk, dump, restarts, dumps, dumped>>

Stop ==
    /\ process = "loaded"
    /\ process' = "stopping"
    /\ UNCHANGED <<container, disk, dump, restarts, dumps, dumped>>

-----------------------------------------------------------------------------
(* dump: under dump_lock_, one at a time. The periodic one runs while the  *)
(* server serves; the last one (wait_object) when calls and tasks are over.*)

(* Mutant: the statistics task is not waited for. *)
Quiet_Calls == \A b \in Bids : call[b].pc \in {"new", "done"}

Quiet == stat = None /\ \A b \in Bids : call[b].pc \in {"new", "done"}

(* The copies left over from earlier are removed, the "~" directory made.  *)
DumpBegin ==
    /\ dump = "idle"
    /\ dumps < MaxDumps
    /\ dumps' = dumps + 1
    /\ \/ process = "loaded" /\ UNCHANGED process
       \/ process = "stopping" /\ Quiet /\ process' = "dumping"
    /\ dump' = "account"
    /\ disk' = [disk EXCEPT !.tmp = [file \in Level \cup {"rates"} |-> None],
                            !.bak = None]
    /\ UNCHANGED <<container, restarts, dumped>>

AfterSave(level) ==
    CASE level = "account"  -> "campaign"
      [] level = "campaign" -> "ccg"
      [] level = "ccg"      -> "rates"

(* Each map is copied under its own lock: calls go on between two files.   *)
DumpAmounts(level) ==
    /\ dump = level
    /\ dump' = AfterSave(level)
    /\ disk' = [disk EXCEPT !.tmp[level] = SaveAmounts(books[level])]
    /\ UNCHANGED <<container, process, restarts, dumps, dumped>>

DumpRates ==
    /\ dump = "rates"
    /\ dump' = "rename"
    /\ disk' = [disk EXCEPT !.tmp["rates"] = imps]
    /\ UNCHANGED <<container, process, restarts, dumps, dumped>>

RenameRoot ==
    /\ dump = "rename"
    /\ dump' = "replace"
    /\ disk' = [disk EXCEPT !.bak = disk.root, !.root = None]
    /\ UNCHANGED <<container, process, restarts, dumps, dumped>>

(* Mutant: the directory that was there stays the storage. *)
RenameTmp_OldBack ==
    /\ dump = "replace"
    /\ dump' = "clean"
    /\ disk' = [disk EXCEPT !.root = IF disk.bak = None THEN disk.tmp ELSE disk.bak,
                            !.tmp = None]
    /\ dumped' = Content(disk.tmp)
    /\ UNCHANGED <<container, process, restarts, dumps>>

RenameTmp ==
    /\ dump = "replace"
    /\ dump' = "clean"
    /\ disk' = [disk EXCEPT !.root = disk.tmp, !.tmp = None]
    /\ dumped' = Content(disk.tmp)
    /\ UNCHANGED <<container, process, restarts, dumps>>

RemoveBak ==
    /\ dump = "clean"
    /\ dump' = "idle"
    /\ disk' = [disk EXCEPT !.bak = None]
    /\ process' = IF process = "dumping" THEN "stopped" ELSE process
    /\ UNCHANGED <<container, restarts, dumps, dumped>>

-----------------------------------------------------------------------------
(* The process ends: what it had in memory is gone, and a bid that was not *)
(* answered is sent again by its caller.                                   *)

Lost ==
    /\ restarts < MaxRestarts
    /\ restarts' = restarts + 1
    /\ config' = None
    /\ stat' = None
    /\ dump' = "idle"
    /\ process' = IF dump = "replace" THEN "broken" ELSE "down"
    /\ books' = NoBooks
    /\ imps' = NoImps
    /\ call' = [b \in Bids |-> IF call[b].pc = "done" THEN call[b] ELSE NewCall]
    /\ booked' = [b \in Bids |-> IF call[b].pc = "done" THEN booked[b] ELSE Zero]
    /\ aborted' = FALSE
    /\ UNCHANGED <<disk, dumps, dumped>>

Exit == process = "stopped" /\ Lost

Crash ==
    /\ process \in {"loaded", "stopping", "dumping"}
    /\ Lost

ServerNext ==
    \/ Load
    \/ \E b \in Bids : Serve(b)
    \/ \E new \in Configs : UpdateConfig(new)
    \/ UpdateStat
    \/ Stop
    \/ DumpBegin
    \/ \E level \in Level : DumpAmounts(level)
    \/ DumpRates
    \/ RenameRoot
    \/ RenameTmp
    \/ RemoveBak
    \/ Exit
    \/ Crash

ServerSpec == ServerInit /\ [][ServerNext]_serverVars

-----------------------------------------------------------------------------

(* A server that starts has the books of the last dump that was completed, *)
(* on every level, whenever the one before it died, also while it was      *)
(* writing the next dump; only when that died between the two renames, the *)
(* server begins empty, and the copy beside its storage has the books,      *)
(* which nobody loads and the next dump removes.                           *)
RestartRestoresDump ==
    [][Load => \/ books' = dumped.books /\ imps' = dumped.imps
               \/ /\ process = "broken"
                  /\ books' = NoBooks /\ imps' = NoImps
                  /\ Content(disk.bak) = dumped]_serverVars

(* "dump state to persistent storage": a server has, after a restart, what  *)
(* was dumped.  This does not hold, and no run has it: the one before it    *)
(* may have died between the renames.                                      *)
DumpedIsPersistent ==
    [][Load => books' = dumped.books /\ imps' = dumped.imps]_serverVars

(* A server that stops has dumped everything: no call and no statistics    *)
(* change the books behind the last dump, and a periodic dump that is      *)
(* still running when the server is told to stop is not taken for it.      *)
StopLosesNothing ==
    process = "stopped" => dumped = [books |-> books, imps |-> imps]
=============================================================================
