----------------------------- MODULE LogLoading -----------------------------
(***************************************************************************)
(* The loading of log files (RequestLogLoader of RequestInfoManager with   *)
(* LogCommons/FileReceiverFacade over the receivers of FileReceiver; the   *)
(* loader of ExpressionMatcher has the same shape).  A task of each type   *)
(* moves files in; threads ask the facade for the eldest file of all       *)
(* types, give its records to the process and delete it.  The facade lists *)
(* a receiver as long as it may have files; one that gave its last file is *)
(* listed again when its top changes.  A stop interrupts a file between    *)
(* two records: the number of processed lines is written into its name.    *)
(***************************************************************************)
EXTENDS FileReceiver

CONSTANTS
    Thread,     \* the threads of process_files_worker
    Priority,   \* of each type of logs
    Records,    \* the number of records of each file
    MaxFaults   \* bound: failing calls of the file system, failing records
                \* and crashes

ASSUME LogLoadingAssumption ==
    /\ Priority \in [LogType -> Nat]
    /\ Records \in [File -> Nat]
    /\ MaxFaults \in Nat

VARIABLES
    interrupter,    \* active
    facade,         \* active
    listed,         \* the types in file_receivers_; the others are in
                    \* empty_file_receivers_
    key,            \* of each type: the time of FileReceiverHolder::key
    locked,         \* the types whose FileReceiverHolder::lock is held
    changed,        \* of each type: the new top on its way to the facade
    thread,
    lines,          \* processed_lines_count in the name of each file
    loaded,         \* how often the process was given each file's records
    aside,          \* released, but left in the intermediate directory
    faults

facadeVars == <<listed, key, locked, changed>>
vars == <<receiverVars, facadeVars, interrupter, facade, thread, lines,
          loaded, aside, faults>>

Idle == [pc |-> "idle", type |-> None, file |-> None, top |-> None,
         line |-> 0]

Busy(pc, t, f, top, line) ==
    [pc |-> pc, type |-> t, file |-> f, top |-> top, line |-> line]

InProgress == UNION {receiver[t].in_progress_files_ : t \in LogType}
Waiting == intermediate \ (InProgress \cup aside)

Init ==
    /\ intermediate \in SUBSET File
    /\ input = File \ intermediate
    /\ ReceiversStart
    /\ interrupter = TRUE /\ facade = TRUE
    /\ listed = LogType
    /\ key = [t \in LogType |-> 0]
    /\ locked = {}
    /\ changed = [t \in LogType |-> None]
    /\ thread = [c \in Thread |-> Idle]
    /\ lines = [f \in File |-> 0]
    /\ loaded = [f \in File |-> 0]
    /\ aside = {}
    /\ faults = 0

-----------------------------------------------------------------------------
(* CheckLogsTask: files of one type are moved in one after the other; each *)
(* that is the new top is told to the facade before the next.              *)

MoveIn(f) ==
    LET t == TypeOf[f]
        r == AddFile(receiver[t], f)
    IN  /\ interrupter
        /\ changed[t] = None
        /\ FetchFile(f)
        /\ changed' = [changed EXCEPT ![t] = IF Top(r) = f THEN f ELSE None]
        /\ UNCHANGED <<interrupter, facade, listed, key, locked, thread,
                       lines, loaded, aside, faults>>

(* on_top_changed                                                          *)
TopChanged(t) ==
    /\ changed[t] # None
    /\ t \notin locked
    /\ key' = [key EXCEPT ![t] =
                IF t \notin listed \/ changed[t] < key[t] THEN changed[t]
                ELSE @]
    /\ listed' = listed \cup {t}
    /\ changed' = [changed EXCEPT ![t] = None]
    /\ UNCHANGED <<receiverVars, interrupter, facade, locked, thread, lines,
                   loaded, aside, faults>>

-----------------------------------------------------------------------------
(* FileReceiverFacade::get_eldest                                          *)

Step(c, pc, t, f, top, line) ==
    thread' = [thread EXCEPT ![c] = Busy(pc, t, f, top, line)]

Enter(c) == thread' = [thread EXCEPT ![c] = Idle]

(* The order of file_receivers_; equal keys come in any order.             *)
NotAfter(t, u) ==
    \/ Priority[t] > Priority[u]
    \/ Priority[t] = Priority[u] /\ key[t] <= key[u]

Choose(c, t) ==
    /\ thread[c].pc = "idle"
    /\ facade
    /\ t \in listed
    /\ \A u \in listed : NotAfter(t, u)
    /\ Step(c, "lock", t, None, None, 0)
    /\ UNCHANGED <<receiverVars, facadeVars, interrupter, facade, lines,
                   loaded, aside, faults>>

Lock(c, t) ==
    /\ thread[c].pc = "lock" /\ thread[c].type = t
    /\ t \notin locked
    /\ locked' = locked \cup {t}
    /\ Step(c, "get", t, None, None, 0)
    /\ UNCHANGED <<receiverVars, listed, key, changed, interrupter, facade,
                   lines, loaded, aside, faults>>

(* FileReceiver::get_eldest_ and get_eldest_i_                             *)
Get(c, t) ==
    /\ thread[c].pc = "get" /\ thread[c].type = t
    /\ \/ /\ GivesDirectly(receiver[t])
          /\ TakeEldest(t)
          /\ Step(c, "list", t, Taken(t), Top(WithoutEldest(receiver[t])), 0)
       \/ /\ ~GivesDirectly(receiver[t])
          /\ Step(c, "read", t, None, None, 0)
          /\ UNCHANGED receiverVars
    /\ UNCHANGED <<facadeVars, interrupter, facade, lines, loaded, aside,
                   faults>>

(* fetch_intermediate_dir_: the state may have become known meanwhile.     *)
Read(c, t) ==
    /\ thread[c].pc = "read" /\ thread[c].type = t
    /\ \/ /\ KnowsEldest(receiver[t])
          /\ Step(c, "take", t, None, None, 0)
          /\ UNCHANGED receiverVars
       \/ /\ BeginFetch(t)
          /\ Step(c, "scan", t, None, None, 0)
    /\ UNCHANGED <<facadeVars, interrupter, facade, lines, loaded, aside,
                   faults>>

(* A file that was left lying is found again.                              *)
Scan(c, t, f) ==
    /\ thread[c].pc = "scan" /\ thread[c].type = t
    /\ interrupter
    /\ HandleEntry(t, f)
    /\ aside' = aside \ {g \in {f} :
                            g \notin receiver[t].in_progress_files_
                                     \cup receiver[t].processed_files_}
    /\ UNCHANGED <<facadeVars, interrupter, facade, thread, lines, loaded,
                   faults>>

EndScan(c, t) ==
    /\ thread[c].pc = "scan" /\ thread[c].type = t
    /\ EndFetch(t)
    /\ Step(c, "take", t, None, None, 0)
    /\ UNCHANGED <<facadeVars, interrupter, facade, lines, loaded, aside,
                   faults>>

(* Interrupted, or another exception: get_eldest ends with it.             *)
ScanFails(c, t) ==
    /\ thread[c].pc = "scan" /\ thread[c].type = t
    /\ \/ /\ ~interrupter /\ unread[t] # {}
          /\ UNCHANGED faults
       \/ /\ faults < MaxFaults
          /\ faults' = faults + 1
    /\ FetchFails(t)
    /\ locked' = locked \ {t}
    /\ Enter(c)
    /\ UNCHANGED <<listed, key, changed, interrupter, facade, lines, loaded,
                   aside>>

Take(c, t) ==
    /\ thread[c].pc = "take" /\ thread[c].type = t
    /\ TakeEldest(t)
    /\ Step(c, "list", t, Taken(t), Top(WithoutEldest(receiver[t])), 0)
    /\ UNCHANGED <<facadeVars, interrupter, facade, lines, loaded, aside,
                   faults>>

(* The end of get_eldest: the holder is sorted in again or is put with the
   empty ones.                                                             *)
List(c, t) ==
    LET f == thread[c].file
        top == thread[c].top
        gaveLast == top = None \/ f = None
    IN  /\ thread[c].pc = "list" /\ thread[c].type = t
        /\ listed' = IF gaveLast THEN listed \ {t} ELSE listed
        /\ key' = [key EXCEPT ![t] = IF gaveLast THEN @ ELSE top]
        /\ locked' = locked \ {t}
        /\ IF f = None THEN Enter(c)
           ELSE Step(c, "load", t, f, None, lines[f])
        /\ UNCHANGED <<receiverVars, changed, interrupter, facade, lines,
                       loaded, aside, faults>>

-----------------------------------------------------------------------------
(* LogRecordFetcherBase::process and process_file_                         *)

Load(c, f) ==
    /\ thread[c].pc = "load" /\ thread[c].file = f
    /\ thread[c].line < Records[f]
    /\ interrupter
    /\ loaded' = [loaded EXCEPT ![f] = @ + 1]
    /\ Step(c, "load", thread[c].type, f, None, thread[c].line + 1)
    /\ UNCHANGED <<receiverVars, facadeVars, interrupter, facade, lines,
                   aside, faults>>

Release(c, f) == Step(c, "release", thread[c].type, f, None, 0)

(* The file is deleted; a failure is only reported.                        *)
AllLoaded(c, f) ==
    /\ thread[c].pc = "load" /\ thread[c].file = f
    /\ thread[c].line = Records[f]
    /\ \/ intermediate' = intermediate \ {f} /\ UNCHANGED faults
       \/ /\ faults < MaxFaults
          /\ faults' = faults + 1
          /\ UNCHANGED intermediate
    /\ Release(c, f)
    /\ UNCHANGED <<input, receiver, unread, facadeVars, interrupter, facade,
                   lines, loaded, aside>>

(* Mutant: the name is made of what the file was found with.               *)
MovedBack_NameKept(f, line) == lines

MovedBack(f, line) == [lines EXCEPT ![f] = line]

(* file_move_back_to_input_dir_: it stays in the intermediate directory,
   under a name with the lines that are processed.                         *)
Terminate(c, f) ==
    /\ thread[c].pc = "load" /\ thread[c].file = f
    /\ thread[c].line < Records[f]
    /\ ~interrupter
    /\ \/ /\ lines' = MovedBack(f, thread[c].line)
          /\ UNCHANGED faults
       \/ /\ faults < MaxFaults
          /\ faults' = faults + 1
          /\ UNCHANGED lines
    /\ Release(c, f)
    /\ UNCHANGED <<receiverVars, facadeVars, interrupter, facade, loaded,
                   aside>>

(* An exception: the file goes to the errors, unless that fails too.       *)
LoadFails(c, f) ==
    /\ thread[c].pc = "load" /\ thread[c].file = f
    /\ faults < MaxFaults
    /\ faults' = faults + 1
    /\ intermediate' \in {intermediate \ {f}, intermediate}
    /\ Release(c, f)
    /\ UNCHANGED <<input, receiver, unread, facadeVars, interrupter, facade,
                   lines, loaded, aside>>

(* The FileGuard is destroyed.                                             *)
Processed(c, f) ==
    /\ thread[c].pc = "release" /\ thread[c].file = f
    /\ FileProcessed(f)
    /\ aside' = aside \cup ({f} \cap intermediate)
    /\ Enter(c)
    /\ UNCHANGED <<facadeVars, interrupter, facade, lines, loaded, faults>>

-----------------------------------------------------------------------------
(* The process: its active objects are deactivated in some order; it ends  *)
(* when the threads have, or at any moment, and starts again.              *)

Interrupt ==
    /\ interrupter /\ interrupter' = FALSE
    /\ UNCHANGED <<receiverVars, facadeVars, facade, thread, lines, loaded,
                   aside, faults>>

Deactivate ==
    /\ facade /\ facade' = FALSE
    /\ UNCHANGED <<receiverVars, facadeVars, interrupter, thread, lines,
                   loaded, aside, faults>>

Start ==
    /\ ReceiversRestart
    /\ interrupter' = TRUE /\ facade' = TRUE
    /\ listed' = LogType
    /\ key' = [t \in LogType |-> 0]
    /\ locked' = {}
    /\ changed' = [t \in LogType |-> None]
    /\ thread' = [c \in Thread |-> Idle]
    /\ aside' = {}
    /\ UNCHANGED <<lines, loaded>>

Restart ==
    /\ ~interrupter /\ ~facade
    /\ thread = [c \in Thread |-> Idle]
    /\ changed = [t \in LogType |-> None]
    /\ Start
    /\ UNCHANGED faults

Crash ==
    /\ faults < MaxFaults
    /\ faults' = faults + 1
    /\ Start

ThreadStep(c) ==
    \/ \E t \in LogType :
        \/ Choose(c, t) \/ Lock(c, t) \/ Get(c, t) \/ Read(c, t)
        \/ EndScan(c, t) \/ ScanFails(c, t) \/ Take(c, t) \/ List(c, t)
        \/ \E f \in File : Scan(c, t, f)
    \/ \E f \in File :
        \/ Load(c, f) \/ AllLoaded(c, f) \/ Terminate(c, f)
        \/ LoadFails(c, f) \/ Processed(c, f)

Next ==
    \/ \E c \in Thread : ThreadStep(c)
    \/ \E f \in File : MoveIn(f)
    \/ \E t \in LogType : TopChanged(t)
    \/ Interrupt \/ Deactivate \/ Restart \/ Crash

Fairness ==
    /\ \A c \in Thread : WF_vars(ThreadStep(c))
    /\ \A f \in File : WF_vars(MoveIn(f))
    /\ \A t \in LogType : WF_vars(TopChanged(t))

Spec == Init /\ [][Next]_vars /\ Fairness

-----------------------------------------------------------------------------
(* Properties                                                              *)

(* A receiver that has files to give is listed by the facade, or its new top
   is on its way there: a thread that saw it empty cannot unlist it after a
   file was moved in, so no file is left lying for want of another one.    *)
AboutToUnlist(t) ==
    \E c \in Thread :
        /\ thread[c].pc = "list" /\ thread[c].type = t
        /\ thread[c].top = None \/ thread[c].file = None

HolderListed ==
    \A t \in LogType :
        Waiting \cap NamesOf(t) # {} =>
            \/ changed[t] # None
            \/ t \in listed /\ ~AboutToUnlist(t)

(* The receivers, their bounded memory and their reads of the directory
   under way give the eldest file of each type that waits, to one thread at a
   time: they implement the queue of files (get_eldest, fetch_file_,
   file_processed_).                                                       *)
Queue == INSTANCE FileQueue WITH
            new <- input, waiting <- Waiting, held <- InProgress

ImplementsQueue == Queue!QueueSpec

(* A stop and a restart go on in a file where it was left: no record of it
   is skipped, and none is given twice unless a call of the file system fails
   or the process dies (processed_lines_count of the names).               *)
Done(f) ==
    LET c == CHOOSE d \in Thread : thread[d].pc = "load"
                                   /\ thread[d].file = f
    IN  IF \E d \in Thread : thread[d].pc = "load" /\ thread[d].file = f
        THEN thread[c].line
        ELSE IF f \in input \cup intermediate THEN lines[f] ELSE Records[f]

RecordsOnce ==
    \A f \in File :
        IF faults = 0
        THEN \/ loaded[f] = Done(f)
             \/ \E c \in Thread : thread[c].pc = "release"
                                  /\ thread[c].file = f
        ELSE f \in input \cup intermediate => loaded[f] >= Done(f)

(* The files that have come are processed in the end or are left lying, or
   the process is stopped: no thread, lock or listing of the facade holds
   them up for ever.                                                       *)
FilesAreLoaded ==
    (input \cup intermediate) \ aside # {} ~>
        (input \cup intermediate) \ aside = {} \/ ~interrupter \/ ~facade
=============================================================================
