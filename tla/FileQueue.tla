----------------------------- MODULE FileQueue -----------------------------
(***************************************************************************)
(* What the receivers of log files promise: of each type of logs the       *)
(* eldest file that waits is given, to one owner at a time, and a file     *)
(* that an owner has taken away never comes back.  A file that its owner   *)
(* leaves lying is set aside; it may be found again, and a restart makes   *)
(* it wait like the files that were held.                                  *)
(***************************************************************************)
EXTENDS Naturals

CONSTANTS
    File,       \* numbers: the order of the names is that of their times
    TypeOf      \* the type of logs of each file

VARIABLES
    new,        \* not seen yet
    waiting,    \* may be given
    held,       \* given to an owner
    aside       \* left lying by an owner

queueVars == <<new, waiting, held, aside>>

QueueInit ==
    /\ new \subseteq File
    /\ waiting = File \ new
    /\ held = {} /\ aside = {}

Put(f) ==
    /\ f \in new
    /\ new' = new \ {f}
    /\ waiting' = waiting \cup {f}
    /\ UNCHANGED <<held, aside>>

Give(f) ==
    /\ f \in waiting
    /\ \A g \in waiting : TypeOf[g] = TypeOf[f] => f <= g
    /\ waiting' = waiting \ {f}
    /\ held' = held \cup {f}
    /\ UNCHANGED <<new, aside>>

LetGo(f) ==
    /\ f \in held
    /\ held' = held \ {f}
    /\ aside' \in {aside, aside \cup {f}}
    /\ UNCHANGED <<new, waiting>>

FindAgain(f) ==
    /\ f \in aside
    /\ aside' = aside \ {f}
    /\ waiting' = waiting \cup {f}
    /\ UNCHANGED <<new, held>>

(* An owner may have taken its file away just before the stop or crash.    *)
Restart ==
    /\ waiting' \in {waiting \cup aside \cup kept : kept \in SUBSET held}
    /\ held' = {} /\ aside' = {}
    /\ UNCHANGED new

QueueNext ==
    \/ \E f \in File : Put(f) \/ Give(f) \/ LetGo(f) \/ FindAgain(f)
    \/ Restart

QueueSpec == QueueInit /\ [][QueueNext]_queueVars
=============================================================================
