---------------------------- MODULE FileTransfer ----------------------------
(***************************************************************************)
(* The transfer of log files between servers (LogProcessing/SyncLogs with  *)
(* the commit mode of LogCommons/FileReceiver).  A feed route copies each  *)
(* file of a directory with rsync to one of its hosts, as "<name>.C", then *)
(* touches a commit file that names the host and deletes the file.  A      *)
(* second route copies the commit file to that host.  The receiver there   *)
(* takes a file when its commit file has come.  rsync may fail after the   *)
(* file was copied; the route then tries another host.                     *)
(*                                                                         *)
(* A file is a number, in the order of the names; the hosts are numbered   *)
(* in the order of RouteRoundRobinHelper::dst_map_.                        *)
(***************************************************************************)
EXTENDS Integers, FiniteSets

CONSTANTS
    File,
    Hosts,          \* the number of destination hosts
    TriesPerFile,   \* tries_per_file
    MaxFaults,      \* bound: failing calls and crashes
    None

ASSUME FileTransferAssumption ==
    /\ File \subseteq Nat
    /\ Hosts \in Nat \ {0} /\ TriesPerFile \in Nat \ {0}
    /\ MaxFaults \in Nat
    /\ None \notin Nat

Host == 0..(Hosts - 1)

VARIABLES
    pooled,         \* the route has a pool of threads (pool_threads)
    logged,         \* files that were written into the source directory
    source,         \* files in the source directory
    commits,        \* <<f, h>>: the commit file of f for h, beside them
    commitSent,     \* commit files that are copied and not yet deleted
    batch,          \* listed by process() and not begun yet
    mover,          \* of each file: the FeedRouteMover::move at work on it
    unlink_files,   \* sent, but still to be deleted (without a pool)
    dst_it_, available,                 \* RouteRoundRobinHelper
    uploaded,       \* of each host: the files that came as "<name>.C"
    committed,      \* of each host: the commit files that came
    handling,       \* of each host: the commit file that its receiver handles
    held,           \* of each host: the files its receiver took and still has
    processed,      \* of each file: how often one was processed
    touched,        \* files that once had a commit file
    late,           \* of each file: how often it was copied since then
    faults

senderVars == <<logged, source, batch, mover, unlink_files, dst_it_, available>>
commitVars == <<commits, commitSent>>
receiverVars == <<uploaded, committed, handling, held, processed>>
history == <<touched, late>>
vars == <<pooled, senderVars, commitVars, receiverVars, history, faults>>

Resting == [pc |-> "none", host |-> None, try |-> 0, exists |-> FALSE,
            second |-> FALSE]

Init ==
    /\ pooled \in BOOLEAN
    /\ logged = {} /\ source = {} /\ batch = {} /\ unlink_files = {}
    /\ commits = {} /\ commitSent = {}
    /\ mover = [f \in File |-> Resting]
    /\ dst_it_ = 0 /\ available = [h \in Host |-> TRUE]
    /\ uploaded = [h \in Host |-> {}] /\ committed = [h \in Host |-> {}]
    /\ handling = [h \in Host |-> None] /\ held = [h \in Host |-> {}]
    /\ processed = [f \in File |-> 0]
    /\ touched = {} /\ late = [f \in File |-> 0]
    /\ faults = 0

Fault == faults < MaxFaults /\ faults' = faults + 1

-----------------------------------------------------------------------------
(* A server closes a log file.                                             *)
Create(f) ==
    /\ f \notin logged
    /\ logged' = logged \cup {f}
    /\ source' = source \cup {f}
    /\ UNCHANGED <<pooled, batch, mover, unlink_files, dst_it_, available,
                   commitVars, receiverVars, history, faults>>

(* BasicFeedRouteProcessor::process: what is still to be deleted goes      *)
(* first; the directory is listed when nothing is left of that.            *)

Process ==
    /\ batch = {} /\ \A f \in File : mover[f] = Resting
    /\ \E kept \in SUBSET unlink_files :
        /\ IF kept = {} THEN UNCHANGED faults ELSE Fault
        /\ source' = source \ (unlink_files \ kept)
        /\ unlink_files' = kept
        /\ batch' = IF kept = {} THEN source' ELSE {}
    /\ UNCHANGED <<pooled, logged, mover, dst_it_, available, commitVars,
                   receiverVars, history>>

(* process_files_: every file to the pool, or one after the other.         *)
Begin(f) ==
    /\ f \in batch
    /\ \/ pooled
       \/ /\ \A g \in batch : f <= g
          /\ \A g \in File : mover[g] = Resting
    /\ batch' = batch \ {f}
    /\ mover' = [mover EXCEPT ![f].pc = "host"]
    /\ UNCHANGED <<pooled, logged, source, unlink_files, dst_it_, available,
                   commitVars, receiverVars, history, faults>>

(* The first host of the list that is available, from dst_it_ on           *)
HostAt(i) == (dst_it_ + i) % Hosts

FirstAvailable ==
    CHOOSE i \in Host : /\ available[HostAt(i)]
                        /\ \A j \in Host : j < i => ~available[HostAt(j)]

(* FeedRouteMover::move returns or throws; without a pool it is called for
   the next file only if it returned true.                                 *)
MoveEnds(f, moved) ==
    /\ mover' = [mover EXCEPT ![f] = Resting]
    /\ batch' = IF moved \/ pooled THEN batch ELSE {}

GetDestHost(f) ==
    /\ mover[f].pc = "host"
    /\ IF \E h \in Host : available[h]
       THEN /\ mover' = [mover EXCEPT ![f].pc = "send",
                                      ![f].host = HostAt(FirstAvailable)]
            /\ dst_it_' = HostAt(FirstAvailable + 1)
            /\ UNCHANGED batch
       ELSE MoveEnds(f, FALSE) /\ UNCHANGED dst_it_
    /\ UNCHANGED <<pooled, logged, source, unlink_files, available, commitVars,
                   receiverVars, history, faults>>

(* Mutant: the last try is taken for a success.                            *)
TryFails_LastMoved(f) ==
    /\ Fault
    /\ available' = [available EXCEPT ![mover[f].host] = FALSE]
    /\ UNCHANGED batch
    /\ mover' = [mover EXCEPT ![f] =
            IF mover[f].try + 1 < TriesPerFile
            THEN [Resting EXCEPT !.pc = "host", !.try = mover[f].try + 1]
            ELSE [Resting EXCEPT !.pc = "unlink"]]

(* An exception of the router: bad_host, and the next try.                 *)
TryFails(f) ==
    /\ Fault
    /\ available' = [available EXCEPT ![mover[f].host] = FALSE]
    /\ IF mover[f].try + 1 < TriesPerFile
       THEN /\ mover' = [mover EXCEPT ![f] =
                    [Resting EXCEPT !.pc = "host", !.try = mover[f].try + 1]]
            /\ UNCHANGED batch
       ELSE MoveEnds(f, FALSE)

Upload(f, h) ==
    /\ uploaded' = [uploaded EXCEPT ![h] = @ \cup {f}]
    /\ late' = IF f \in touched THEN [late EXCEPT ![f] = @ + 1] ELSE late

(* RSyncFileRouter::move: rsync prints nothing if the file is there
   already (AlreadyExists).                                                *)
Send(f) ==
    LET h == mover[f].host
    IN  /\ mover[f].pc = "send"
        /\ Upload(f, h)
        /\ mover' = [mover EXCEPT ![f].pc = "touch",
                                  ![f].exists = f \in uploaded[h]]
        /\ UNCHANGED <<pooled, logged, source, batch, unlink_files, dst_it_,
                       available, commitVars, committed, handling, held,
                       processed, touched, faults>>

(* The file was copied or was not.                                         *)
SendFails(f) ==
    /\ mover[f].pc = "send"
    /\ Upload(f, mover[f].host) \/ UNCHANGED <<uploaded, late>>
    /\ TryFails(f)
    /\ UNCHANGED <<pooled, logged, source, unlink_files, dst_it_, commitVars,
                   committed, handling, held, processed, touched>>

Commit(f, h) ==
    /\ commits' = commits \cup {<<f, h>>}
    /\ touched' = touched \cup {f}

(* The post command; if the file was there, both commands are run once
   more.                                                                   *)
Touch(f) ==
    LET m == mover[f]
    IN  /\ m.pc = "touch"
        /\ Commit(f, m.host)
        /\ mover' = [mover EXCEPT ![f] =
                IF m.exists /\ ~m.second
                THEN [m EXCEPT !.pc = "send", !.second = TRUE]
                ELSE [m EXCEPT !.pc = "unlink"]]
        /\ UNCHANGED <<pooled, logged, source, batch, unlink_files, dst_it_,
                       available, commitSent, receiverVars, late, faults>>

TouchFails(f) ==
    /\ mover[f].pc = "touch"
    /\ Commit(f, mover[f].host) \/ UNCHANGED <<commits, touched>>
    /\ TryFails(f)
    /\ UNCHANGED <<pooled, logged, source, unlink_files, dst_it_, commitSent,
                   receiverVars, late>>

Unlink(f) ==
    /\ mover[f].pc = "unlink"
    /\ source' = source \ {f}
    /\ MoveEnds(f, TRUE)
    /\ UNCHANGED <<pooled, logged, unlink_files, dst_it_, available, commitVars,
                   receiverVars, history, faults>>

(* The pool remembers the file in MoveState::unlink_files, which nobody
   reads: it is listed and sent again.                                     *)
UnlinkFails(f) ==
    /\ mover[f].pc = "unlink"
    /\ Fault
    /\ MoveEnds(f, FALSE)
    /\ unlink_files' = IF pooled THEN unlink_files ELSE {f}
    /\ UNCHANGED <<pooled, logged, source, dst_it_, available, commitVars,
                   receiverVars, history>>

(* Mutant: nobody looks when no host is available.                         *)
PeriodEnds_WhileOneServes(h) ==
    /\ ~available[h] /\ \E g \in Host : available[g]
    /\ available' = [available EXCEPT ![h] = TRUE]
    /\ UNCHANGED <<pooled, logged, source, batch, mover, unlink_files, dst_it_,
                   commitVars, receiverVars, history, faults>>

(* host_check_period is over.                                              *)
PeriodEnds(h) ==
    /\ ~available[h]
    /\ available' = [available EXCEPT ![h] = TRUE]
    /\ UNCHANGED <<pooled, logged, source, batch, mover, unlink_files, dst_it_,
                   commitVars, receiverVars, history, faults>>

(* The sender dies (a stop interrupts it at fewer places) and starts again.  *)
Crash ==
    /\ Fault
    /\ batch' = {} /\ unlink_files' = {}
    /\ mover' = [f \in File |-> Resting]
    /\ dst_it_' = 0 /\ available' = [h \in Host |-> TRUE]
    /\ UNCHANGED <<pooled, logged, source, commitVars, receiverVars, history>>

-----------------------------------------------------------------------------
(* The route of the commit files: RouteHostFromFileNameHelper, no post     *)
(* command.  What fails is done again.                                     *)

SendCommit(f, h) ==
    /\ <<f, h>> \in commits
    /\ committed' = [committed EXCEPT ![h] = @ \cup {f}]
    /\ commitSent' = commitSent \cup {<<f, h>>}
    /\ UNCHANGED <<pooled, senderVars, commits, uploaded, handling, held,
                   processed, history, faults>>

UnlinkCommit(f, h) ==
    /\ <<f, h>> \in commitSent
    /\ commitSent' = commitSent \ {<<f, h>>}
    /\ \/ commits' = commits \ {<<f, h>>} /\ UNCHANGED faults
       \/ Fault /\ UNCHANGED commits
    /\ UNCHANGED <<pooled, senderVars, receiverVars, history>>

-----------------------------------------------------------------------------
(* FileReceiver::fetch_files_handler_ at a commit file: the file is moved  *)
(* into the intermediate directory if it is there, then the commit file is *)
(* deleted.  A file whose name the receiver still has is an exception: the *)
(* next fetch_files tries it again.                                        *)

(* Mutant: the file is copied.                                             *)
Renamed_Copied(h, f) == uploaded

Renamed(h, f) == [uploaded EXCEPT ![h] = @ \ {f}]

HandleCommit(h, f) ==
    /\ handling[h] = None
    /\ f \in committed[h]
    /\ f \in uploaded[h] => f \notin held[h]
    /\ handling' = [handling EXCEPT ![h] = f]
    /\ held' = [held EXCEPT ![h] = @ \cup ({f} \cap uploaded[h])]
    /\ uploaded' = Renamed(h, f)
    /\ UNCHANGED <<pooled, senderVars, commitVars, committed, processed,
                   history, faults>>

DropCommit(h) ==
    /\ handling[h] # None
    /\ handling' = [handling EXCEPT ![h] = None]
    /\ \/ /\ committed' = [committed EXCEPT ![h] = @ \ {handling[h]}]
          /\ UNCHANGED faults
       \/ Fault /\ UNCHANGED committed
    /\ UNCHANGED <<pooled, senderVars, commitVars, uploaded, held, processed,
                   history>>

(* The file is processed there and deleted (LogLoading).                   *)
ProcessFile(h, f) ==
    /\ f \in held[h]
    /\ held' = [held EXCEPT ![h] = @ \ {f}]
    /\ processed' = [processed EXCEPT ![f] = @ + 1]
    /\ UNCHANGED <<pooled, senderVars, commitVars, uploaded, committed,
                   handling, history, faults>>

-----------------------------------------------------------------------------
Move(f) ==
    \/ Begin(f) \/ GetDestHost(f) \/ Send(f) \/ SendFails(f)
    \/ Touch(f) \/ TouchFails(f) \/ Unlink(f) \/ UnlinkFails(f)

Receive(h) ==
    DropCommit(h) \/ \E f \in File : HandleCommit(h, f) \/ ProcessFile(h, f)

CommitRoute(h) ==
    \E f \in File : SendCommit(f, h) \/ UnlinkCommit(f, h)

Next ==
    \/ Process
    \/ \E f \in File : Create(f) \/ Move(f)
    \/ \E h \in Host : PeriodEnds(h) \/ CommitRoute(h) \/ Receive(h)
    \/ Crash

Fairness ==
    /\ WF_vars(Process)
    /\ \A f \in File : WF_vars(Move(f))
    /\ \A h \in Host : WF_vars(PeriodEnds(h)) /\ WF_vars(Receive(h))
    /\ \A h \in Host, f \in File :
        WF_vars(SendCommit(f, h)) /\ WF_vars(UnlinkCommit(f, h))

Spec == Init /\ [][Next]_vars /\ Fairness

-----------------------------------------------------------------------------
(* Properties                                                              *)

(* A file that is deleted at its source has a copy at some host that is
   committed there or will be, or has been taken: neither a failing rsync, a
   failing post command nor a crash loses it.                              *)
NothingLost ==
    \A f \in logged :
        \/ f \in source
        \/ processed[f] > 0
        \/ \E h \in Host :
            \/ f \in held[h]
            \/ f \in uploaded[h]
               /\ (f \in committed[h] \/ <<f, h>> \in commits)

(* However often a copy was made whose acknowledgement was lost, a file
   comes to the receivers once: a second one takes a copy that was made after
   a commit file for it had been.  Each failure leads to two of those at
   most (the file is sent again, and once more because it was there).      *)
ProcessedOnce ==
    \A f \in File :
        /\ processed[f] + Cardinality({h \in Host : f \in held[h]})
             <= 1 + late[f]
        /\ late[f] <= 2 * faults

(* Every file is processed somewhere in the end: a host is tried again when
   its period is over, and what failed is repeated.                        *)
FilesArrive == <>[](\A f \in logged : processed[f] > 0)
=============================================================================
