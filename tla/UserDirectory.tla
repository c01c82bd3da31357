--------------------------- MODULE UserDirectory ---------------------------
(***************************************************************************)
(* What the binding server promises to its clients: a directory of user    *)
(* ids by external id.  An id that is known keeps its user, until a client *)
(* rewrites it or nobody has used it for the time a binding is kept.       *)
(***************************************************************************)
EXTENDS Integers

CONSTANTS
    Id, Uid, NoUid,
    Expire      \* bound_expire_time, in periods

VARIABLES
    user,       \* the user of an id, or NoUid
    used,       \* the time of the last use of an id
    today

Init ==
    /\ user = [i \in Id |-> NoUid]
    /\ used = [i \in Id |-> 0]
    /\ today = 0

Use(i, t) ==
    /\ t <= today
    /\ used' = [used EXCEPT ![i] = IF t > @ THEN t ELSE @]
    /\ UNCHANGED today

Bind(i, u, t) ==
    /\ user[i] = NoUid
    /\ user' = [user EXCEPT ![i] = u]
    /\ t <= today /\ used' = [used EXCEPT ![i] = t]
    /\ UNCHANGED today

Keep(i, t) == Use(i, t) /\ user[i] # NoUid /\ UNCHANGED user

Rewrite(i, u, t) ==
    /\ user[i] # NoUid
    /\ user' = [user EXCEPT ![i] = u]
    /\ Use(i, t)

Forget(forgotten) ==
    /\ \A i \in forgotten : user[i] # NoUid /\ used[i] + 1 <= today - Expire
    /\ user' = [i \in Id |-> IF i \in forgotten THEN NoUid ELSE user[i]]
    /\ used' = [i \in Id |-> IF i \in forgotten THEN 0 ELSE used[i]]
    /\ UNCHANGED today

DayPasses == today' = today + 1 /\ UNCHANGED <<user, used>>

Next ==
    \/ DayPasses
    \/ \E i \in Id, t \in 0 .. today :
        \/ Keep(i, t)
        \/ \E u \in Uid : Bind(i, u, t) \/ Rewrite(i, u, t)
    \/ \E forgotten \in SUBSET Id : Forget(forgotten)

Step == UNCHANGED <<user, used, today>> \/ Next

Spec == Init /\ [][Step]_<<user, used, today>>
=============================================================================
