---------------------------- MODULE ProfileStore ----------------------------
(***************************************************************************)
(* What a profile map promises, whatever it is made of: a key shows the    *)
(* last profile saved for it, or nothing after a removal; what a crash     *)
(* leaves of a key is a state the key once had, never older than what an   *)
(* earlier crash would have left, unless copies of it were being removed,  *)
(* any of which may come back; an ordinary stop loses nothing; and time    *)
(* takes away the profiles that nobody has saved for long, no other.       *)
(***************************************************************************)
EXTENDS Integers

CONSTANTS
    Key,
    Version     \* numbers of writes

VARIABLES
    store,      \* what a reader is shown of each key
    durable,    \* what a start after a crash would show of it
    old,        \* the writes up to this one are past the expire time
    removed,    \* the keys of which older copies are being removed
    life        \* "running", or "stopped" or "crashed" until the next start,
                \* "torn" when that has found copies which were being removed

storeVars == <<store, durable, old, removed, life>>

Entry == [ver : Version, erased : BOOLEAN]

(* What a key shows before anything is written to it. *)
Nothing == [ver |-> 0, erased |-> TRUE]

StoreInit ==
    /\ store = [k \in Key |-> Nothing]
    /\ durable = store
    /\ old = 0
    /\ removed = {}
    /\ life = "running"

(* The same write, or nothing in its place once it is past the expire time *)
SameOrExpired(before, after) ==
    /\ after.ver = before.ver
    /\ after.erased = before.erased \/ (after.erased /\ after.ver <= old)

Write(k) ==
    /\ LET entry == store'[k]
       IN  /\ entry \in Entry
           /\ \A key \in Key : store[key].ver < entry.ver
           /\ store' = [store EXCEPT ![k] = entry]
    /\ UNCHANGED <<durable, old, removed, life>>

Age == old' > old /\ UNCHANGED <<store, durable, removed, life>>

(* Writing to the disk in any portions and order, dropping what expired.   *)
Persist ==
    /\ \A k \in Key :
        LET shown == store[k]
            kept == durable[k]
            keeps == durable'[k]
        IN  /\ SameOrExpired(shown, store'[k])
            /\ kept.ver <= keeps.ver /\ keeps.ver <= shown.ver
            /\ keeps.ver = shown.ver => SameOrExpired(shown, keeps)
            /\ keeps.ver = kept.ver => SameOrExpired(kept, keeps)
    /\ removed' \subseteq Key
    /\ UNCHANGED <<old, life>>

Stop ==
    /\ life = "running"
    /\ removed = {}
    /\ life' = "stopped"
    /\ durable = store
    /\ UNCHANGED <<store, durable, old, removed>>

Crash ==
    /\ life = "running"
    /\ life' = "crashed"
    /\ store' = durable
    /\ UNCHANGED <<durable, old, removed>>

Start ==
    /\ life \in {"stopped", "crashed"}
    /\ removed = {}
    /\ life' = "running"
    /\ UNCHANGED <<store, durable, old, removed>>

(* A copy that was being removed is older, or as it was before it expired; *)
(* the keys that have none show what they did.                             *)
StartTorn ==
    /\ life = "crashed"
    /\ life' = "torn"
    /\ \A k \in Key :
        \/ store'[k] = store[k]
        \/ /\ k \in removed
           /\ store'[k] \in Entry
           /\ store'[k].ver < store[k].ver \/ SameOrExpired(store'[k], store[k])
    /\ durable' = store'
    /\ removed' = {}
    /\ UNCHANGED old

StoreNext ==
    \/ life = "running" /\ (Persist \/ \E k \in Key : Write(k))
    \/ Age \/ Stop \/ Crash \/ Start \/ StartTorn

StoreSpec == StoreInit /\ [][StoreNext]_storeVars
=============================================================================
