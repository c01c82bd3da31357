---------------------------- MODULE FileReceiver ----------------------------
(***************************************************************************)
(* The receivers of log files (LogCommons/FileReceiver), one for each type *)
(* of logs.  A file is moved from the input directory into the             *)
(* intermediate directory of its type and given to a thread, the eldest    *)
(* first.  A receiver keeps at most MaxFiles names in memory; when it has  *)
(* dropped names, or has just started, it reads the directory again while  *)
(* files go on being moved in and processed.                               *)
(*                                                                         *)
(* A file is a number, in the order of the names.  Names are unique.       *)
(***************************************************************************)
EXTENDS Integers, FiniteSets

CONSTANTS
    LogType,
    File,
    TypeOf,
    MaxFiles,   \* max_files_to_store_
    None        \* the empty name

ASSUME FileReceiverAssumption ==
    /\ File \subseteq Nat \ {0}
    /\ TypeOf \in [File -> LogType]
    /\ MaxFiles \in Nat \ {0}
    /\ None \notin Nat

(* UNDEFINED_STATE_MARK: comes before every name                           *)
Undefined == 0

VARIABLES
    input,          \* files uploaded into the input directories
    intermediate,   \* files in the intermediate directories
    receiver,       \* of each type: the members of its FileReceiver
    unread          \* of each type: what the read of the directory has still
                    \* to hand over

receiverVars == <<input, intermediate, receiver, unread>>

NewReceiver ==
    [files_ |-> {}, oldest_not_in_files_ |-> Undefined,
     in_progress_files_ |-> {}, processed_files_ |-> {},
     fetch_internal_in_progress_ |-> FALSE, backup |-> None]

NamesOf(t) == {f \in File : TypeOf[f] = t}

Eldest(names) == CHOOSE f \in names : \A g \in names : f <= g
Youngest(names) == CHOOSE f \in names : \A g \in names : g <= f

-----------------------------------------------------------------------------
(* The members under files_lock_                                           *)

(* The empty name stands for no name at all, so it comes after every one.  *)
Lower(oldest, f) == IF oldest = None \/ oldest > f THEN f ELSE oldest

AddFile(r, f) ==
    LET names == r.files_ \cup {f}
        last == Youngest(names)
    IN  IF Cardinality(names) <= MaxFiles
        THEN [r EXCEPT !.files_ = names]
        ELSE [r EXCEPT !.files_ = names \ {last},
                       !.oldest_not_in_files_ = Lower(@, last)]

Top(r) ==
    IF r.files_ = {} THEN r.oldest_not_in_files_
    ELSE IF r.oldest_not_in_files_ = None THEN Eldest(r.files_)
    ELSE Lower(r.oldest_not_in_files_, Eldest(r.files_))

KnowsEldest(r) ==
    r.oldest_not_in_files_ # None =>
        r.files_ # {} /\ r.oldest_not_in_files_ >= Eldest(r.files_)

GivesDirectly(r) == ~r.fetch_internal_in_progress_ /\ KnowsEldest(r)

WithoutEldest(r) ==
    IF r.files_ = {} THEN r
    ELSE LET f == Eldest(r.files_)
         IN  [r EXCEPT !.files_ = @ \ {f},
                       !.in_progress_files_ = @ \cup {f}]

(* Mutant: processed_files_ is not kept.                                   *)
Released_Forgotten(r, f) == [r EXCEPT !.in_progress_files_ = @ \ {f}]

Released(r, f) ==
    [r EXCEPT !.in_progress_files_ = @ \ {f},
              !.processed_files_ =
                IF r.fetch_internal_in_progress_ THEN @ \cup {f} ELSE @]

Reading(r) ==
    [r EXCEPT !.fetch_internal_in_progress_ = TRUE,
              !.backup = r.oldest_not_in_files_,
              !.oldest_not_in_files_ = None]

Found(r, f) ==
    IF f \in r.in_progress_files_ \cup r.processed_files_ THEN r
    ELSE AddFile(r, f)

ReadAll(r) ==
    [r EXCEPT !.processed_files_ = {},
              !.fetch_internal_in_progress_ = FALSE,
              !.backup = None]

(* Mutant: the state before the read is not restored.                      *)
ReadFailed_NotRestored(r) ==
    [r EXCEPT !.fetch_internal_in_progress_ = FALSE, !.backup = None]

(* processed_files_ is left as it is.                                      *)
ReadFailed(r) ==
    [r EXCEPT !.oldest_not_in_files_ = Lower(@, r.backup),
              !.fetch_internal_in_progress_ = FALSE,
              !.backup = None]

-----------------------------------------------------------------------------
(* The operations                                                          *)

Become(t, r) == receiver' = [receiver EXCEPT ![t] = r]

(* fetch_file_: a file is moved in.  A read of the directory that is under
   way may come upon it or not.                                            *)
FetchFile(f) ==
    LET t == TypeOf[f]
    IN  /\ f \in input
        /\ input' = input \ {f}
        /\ intermediate' = intermediate \cup {f}
        /\ Become(t, AddFile(receiver[t], f))
        /\ \/ UNCHANGED unread
           \/ /\ receiver[t].fetch_internal_in_progress_
              /\ unread' = [unread EXCEPT ![t] = @ \cup {f}]

BeginFetch(t) ==
    /\ ~KnowsEldest(receiver[t])
    /\ Become(t, Reading(receiver[t]))
    /\ unread' = [unread EXCEPT ![t] = intermediate \cap NamesOf(t)]
    /\ UNCHANGED <<input, intermediate>>

(* fetch_intermediate_dir_handler_, in the order of the directory: any     *)
HandleEntry(t, f) ==
    /\ f \in unread[t]
    /\ unread' = [unread EXCEPT ![t] = @ \ {f}]
    /\ Become(t, Found(receiver[t], f))
    /\ UNCHANGED <<input, intermediate>>

EndFetch(t) ==
    /\ unread[t] = {}
    /\ Become(t, ReadAll(receiver[t]))
    /\ UNCHANGED <<input, intermediate, unread>>

FetchFails(t) ==
    /\ unread' = [unread EXCEPT ![t] = {}]
    /\ Become(t, ReadFailed(receiver[t]))
    /\ UNCHANGED <<input, intermediate>>

TakeEldest(t) ==
    /\ Become(t, WithoutEldest(receiver[t]))
    /\ UNCHANGED <<input, intermediate, unread>>

(* What TakeEldest gives                                                   *)
Taken(t) ==
    IF receiver[t].files_ = {} THEN None ELSE Eldest(receiver[t].files_)

FileProcessed(f) ==
    /\ Become(TypeOf[f], Released(receiver[TypeOf[f]], f))
    /\ UNCHANGED <<input, intermediate, unread>>

ReceiversStart ==
    /\ receiver = [t \in LogType |-> NewReceiver]
    /\ unread = [t \in LogType |-> {}]

ReceiversRestart ==
    /\ receiver' = [t \in LogType |-> NewReceiver]
    /\ unread' = [t \in LogType |-> {}]
    /\ UNCHANGED <<input, intermediate>>
=============================================================================
