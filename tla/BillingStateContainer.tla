------------------------ MODULE BillingStateContainer -----------------------
(***************************************************************************)
(* CampaignManager's view of the billing servers for one campaign group:   *)
(* which server is asked (get_service_index_), which servers are disabled  *)
(* because they refused or failed, whether the group may be selected at    *)
(* all, and the RecheckCCGTask that brings disabled servers and the group  *)
(* back.  Requests of other groups share nothing with these but the locks. *)
(*                                                                         *)
(* A configuration has a Campaign object of its own for the group, with    *)
(* the flag the selection looks at; 1 is the first one.  Times are not     *)
(* counted: an entry of disabled_indexes is "recent" or, after             *)
(* REENABLE_INDEX_TIME, "old"; the planned switch time is reached at some  *)
(* time, and so is the time of a recheck.                                  *)
(***************************************************************************)
EXTENDS Integers

CONSTANTS
    ServerCount,    \* billing_servers_.size()
    Checkers,       \* threads that call check_available_bid
    Confirmers,     \* threads that call confirm_bid
    Amount,         \* the amount of a bid to confirm
    MaxUseCount,    \* calls after which the server is switched (100)
    MaxTryCount,    \* calls of one check_available_bid (10)
    MaxConfigs,     \* bound of the model: configurations that come
    None

ASSUME ServerCountAssumption == ServerCount \in Nat \ {0}
ASSUME CountAssumption == MaxUseCount \in Nat \ {0} /\ MaxTryCount \in Nat \ {0}
ASSUME ConfigsAssumption == MaxConfigs \in Nat \ {0} /\ Amount \in Nat
ASSUME NoneAssumption == None \notin Nat

VARIABLES
    state,      \* the CCGState: [active_index, use_count, disabled, ccg_setter,
                \* switch_due]; the last one is now > planned_server_switch_time
    available,  \* per configuration: the flag of its Campaign object
    current,    \* the configuration requests are served with
    thread,     \* per thread: its call
    task,       \* the RecheckCCGTask: its step, and the setter it has read
    recheck,    \* is the group in recheck_ccgs_?
    add_recheck, \* is it in add_recheck_ccgs_?
    stray       \* not of the program: a recheck has passed by the campaign requests
                \* are served with, since it was last deactivated

vars == <<state, available, current, thread, task, recheck, add_recheck, stray>>

Server == 0..(ServerCount - 1)
Campaign == 1..MaxConfigs
Threads == Checkers \cup Confirmers

Idle == [pc |-> "idle", campaign |-> None, index |-> None, tries |-> 0,
         forced |-> FALSE, bad |-> {}, left |-> 0]

Init ==
    /\ state = [active_index |-> 0, use_count |-> -1, ccg_setter |-> None,
                disabled |-> [s \in Server |-> "no"], switch_due |-> FALSE]
    /\ available = [c \in Campaign |-> TRUE]
    /\ current = 1
    /\ thread = [t \in Threads |-> Idle]
    /\ task = [pc |-> "idle", setter |-> None]
    /\ recheck = FALSE
    /\ add_recheck = FALSE
    /\ stray = FALSE

-----------------------------------------------------------------------------
(* get_service_index_, under lock_                                         *)

Disabled(st) == {s \in Server : st.disabled[s] # "no"}

(* The first use of a group starts with a random server.                   *)
Started(st) ==
    IF st.use_count = -1
    THEN {[st EXCEPT !.active_index = s, !.use_count = 0, !.switch_due = FALSE] : s \in Server}
    ELSE {st}

(* Mutant: the loop ends one server too early. *)
NextIndexes_OneLess(st, bad) ==
    {i \in 1..(ServerCount - 1) : (st.active_index + i) % ServerCount \notin bad}

(* How far the servers that are not bad are ahead of the active one.       *)
NextIndexes(st, bad) ==
    {i \in 1..ServerCount : (st.active_index + i) % ServerCount \notin bad}

Result(st, index, planned) == [state |-> st, index |-> index, planned |-> planned]

(* The active server is used once more.                                    *)
UseAgain(st) == [st EXCEPT !.use_count = @ + 1]

UseFrom(st, s) == [st EXCEPT !.active_index = s, !.use_count = 1, !.switch_due = FALSE]

(* The first server that is not bad, beginning with the one after the      *)
(* active server.                                                          *)
NextServers(st, bad) ==
    {(st.active_index + i) % ServerCount :
        i \in {i \in NextIndexes(st, bad) : \A j \in NextIndexes(st, bad) : i <= j}}

(* The next state of the group, the server to call (None for -1) and       *)
(* whether a recheck was planned (fill_planned_server_switch_time_).       *)
ServiceIndex(st, bad) ==
    IF st.active_index \notin bad /\ st.use_count < MaxUseCount /\ ~st.switch_due
    THEN {Result(UseAgain(st), st.active_index, FALSE)}
    ELSE IF NextIndexes(st, bad) = {}
    THEN {Result([st EXCEPT !.use_count = 1], None, FALSE)}
    ELSE {Result(UseFrom(st, s), s, TRUE) : s \in NextServers(st, bad)}

GetServiceIndex(st, bad) ==
    {[r EXCEPT !.planned = @ \/ st.use_count = -1] :
        r \in UNION {ServiceIndex(started, bad) : started \in Started(st)}}

-----------------------------------------------------------------------------
(* check_available_bid and confirm_bid                                     *)

(* The selection passes by a campaign that is not available.               *)
BeginCheck(t) ==
    /\ thread[t].pc = "idle"
    /\ available[current]
    /\ thread' = [thread EXCEPT ![t].pc = "choose", ![t].campaign = current]
    /\ UNCHANGED <<state, available, current, task, recheck, add_recheck, stray>>

BeginConfirm(t) ==
    /\ thread[t].pc = "idle"
    /\ thread' = [thread EXCEPT ![t].pc = "choose", ![t].campaign = current, ![t].left = Amount]
    /\ UNCHANGED <<state, available, current, task, recheck, add_recheck, stray>>

(* What a call does with the server it got.                                *)
Chosen(t, index) ==
    IF index # None
    THEN IF t \in Checkers /\ thread[t].tries >= MaxTryCount
         THEN Idle
         ELSE [thread[t] EXCEPT !.pc = "call", !.index = index]
    ELSE IF t \in Checkers \/ thread[t].forced
         THEN [thread[t] EXCEPT !.pc = "deactivate"]
         ELSE [thread[t] EXCEPT !.forced = TRUE]

(* Only a check leaves its setter in the state of the group; a confirm in  *)
(* forced mode has its own list of bad servers.                            *)
Choose(t) ==
    /\ thread[t].pc = "choose"
    /\ LET st == IF t \in Checkers THEN [state EXCEPT !.ccg_setter = thread[t].campaign]
                 ELSE state
           bad == IF thread[t].forced THEN thread[t].bad ELSE Disabled(st)
       IN  \E r \in GetServiceIndex(st, bad) :
             /\ state' = r.state
             /\ add_recheck' = (add_recheck \/ r.planned)
             /\ thread' = [thread EXCEPT ![t] = Chosen(t, r.index)]
    /\ UNCHANGED <<available, current, task, recheck, stray>>

(* disabled_indexes.insert: an entry that is there keeps its time.         *)
Disable(s) ==
    state' = [state EXCEPT !.disabled[s] = IF @ = "no" THEN "recent" ELSE @]

(* The server allows the bid, or it does not, or the call fails.           *)
CallCheck(t) ==
    /\ t \in Checkers /\ thread[t].pc = "call"
    /\ \/ thread' = [thread EXCEPT ![t] = Idle] /\ UNCHANGED state
       \/ /\ thread' = [thread EXCEPT ![t].pc = "choose", ![t].tries = @ + 1]
          /\ Disable(thread[t].index)
    /\ UNCHANGED <<available, current, task, recheck, add_recheck, stray>>

(* A server that answers takes a part of the amount, in forced mode all of *)
(* it, and tells whether the group is still available. The call ends with  *)
(* any answer: what is tested is the pointer to the result, not its value. *)
AnswerConfirm(t) ==
    /\ t \in Confirmers /\ thread[t].pc = "call"
    /\ \E left \in 0..thread[t].left, allowed \in BOOLEAN :
         /\ thread[t].forced => left = 0
         /\ left = 0 /\ ~thread[t].forced => allowed
         /\ thread' = [thread EXCEPT ![t] =
              IF allowed THEN Idle ELSE [@ EXCEPT !.pc = "deactivate", !.left = left]]
    /\ UNCHANGED <<state, available, current, task, recheck, add_recheck, stray>>

FailConfirm(t) ==
    /\ t \in Confirmers /\ thread[t].pc = "call"
    /\ IF thread[t].forced
       THEN /\ thread' = [thread EXCEPT ![t].pc = "choose", ![t].bad = @ \cup {thread[t].index}]
            /\ UNCHANGED state
       ELSE /\ thread' = [thread EXCEPT ![t].pc = "choose"]
            /\ Disable(thread[t].index)
    /\ UNCHANGED <<available, current, task, recheck, add_recheck, stray>>

(* ccg_set_available_(false): first the flag, then, under its own lock,    *)
(* the recheck.                                                            *)
Deactivate(t) ==
    /\ thread[t].pc = "deactivate"
    /\ available' = [available EXCEPT ![thread[t].campaign] = FALSE]
    /\ thread' = [thread EXCEPT ![t].pc = "plan"]
    /\ stray' = (stray /\ thread[t].campaign # current)
    /\ UNCHANGED <<state, current, task, recheck, add_recheck>>

(* Mutant: the recheck is left to the next switch of servers. *)
PlanRecheck_OnSwitchOnly(t) ==
    /\ thread[t].pc = "plan"
    /\ thread' = [thread EXCEPT ![t] = Idle]
    /\ UNCHANGED <<state, available, current, task, recheck, add_recheck, stray>>

PlanRecheck(t) ==
    /\ thread[t].pc = "plan"
    /\ add_recheck' = TRUE
    /\ thread' = [thread EXCEPT ![t] = Idle]
    /\ UNCHANGED <<state, available, current, task, recheck, stray>>

-----------------------------------------------------------------------------
(* run_recheck_ccgs_                                                       *)

Fetch ==
    /\ task.pc = "idle" /\ add_recheck
    /\ recheck' = TRUE
    /\ add_recheck' = FALSE
    /\ UNCHANGED <<state, available, current, thread, task, stray>>

(* Mutant: the servers stay disabled. *)
Reenable_SetterOnly ==
    /\ task.pc = "idle" /\ recheck
    /\ task' = [pc |-> "switch", setter |-> state.ccg_setter]
    /\ UNCHANGED <<state, available, current, thread, recheck, add_recheck, stray>>

Reenable ==
    /\ task.pc = "idle" /\ recheck
    /\ task' = [pc |-> "switch", setter |-> state.ccg_setter]
    /\ state' = [state EXCEPT !.disabled =
                    [s \in Server |-> IF @[s] = "old" THEN "no" ELSE @[s]]]
    /\ UNCHANGED <<available, current, thread, recheck, add_recheck, stray>>

Switch ==
    /\ task.pc = "switch"
    /\ \E r \in GetServiceIndex(state, Disabled(state)) :
         /\ state' = r.state
         /\ add_recheck' = (add_recheck \/ r.planned)
    /\ task' = [task EXCEPT !.pc = "set"]
    /\ UNCHANGED <<available, current, thread, recheck, stray>>

(* Mutant: the group is passed by and stays in the list. *)
SetAvailable_PassedBy ==
    /\ task.pc = "set"
    /\ task' = [pc |-> "idle", setter |-> None]
    /\ UNCHANGED <<state, available, current, thread, recheck, add_recheck, stray>>

SetAvailable ==
    /\ task.pc = "set"
    /\ available' = [c \in Campaign |-> available[c] \/ c = task.setter]
    /\ recheck' = FALSE
    /\ stray' = ~available'[current]
    /\ task' = [pc |-> "idle", setter |-> None]
    /\ UNCHANGED <<state, current, thread, add_recheck>>

-----------------------------------------------------------------------------
(* Time, and the configurations that come.                                 *)

Age(s) ==
    /\ state.disabled[s] = "recent"
    /\ state' = [state EXCEPT !.disabled[s] = "old"]
    /\ UNCHANGED <<available, current, thread, task, recheck, add_recheck, stray>>

SwitchTime ==
    /\ state.use_count # -1 /\ ~state.switch_due
    /\ state' = [state EXCEPT !.switch_due = TRUE]
    /\ UNCHANGED <<available, current, thread, task, recheck, add_recheck, stray>>

NewConfig ==
    /\ current < MaxConfigs
    /\ current' = current + 1
    /\ stray' = FALSE
    /\ UNCHANGED <<state, available, thread, task, recheck, add_recheck>>

Call(t) ==
    \/ Choose(t)
    \/ CallCheck(t)
    \/ AnswerConfirm(t)
    \/ FailConfirm(t)
    \/ Deactivate(t)
    \/ PlanRecheck(t)

Recheck == Fetch \/ Reenable \/ Switch \/ SetAvailable

Next ==
    \/ \E t \in Checkers : BeginCheck(t)
    \/ \E t \in Confirmers : BeginConfirm(t)
    \/ \E t \in Threads : Call(t)
    \/ Recheck
    \/ \E s \in Server : Age(s)
    \/ SwitchTime
    \/ NewConfig

(* Threads go on, calls end (the pool's timeout is 2 seconds), the task is *)
(* scheduled every 100 ms, time passes, and requests keep coming for a     *)
(* group that can be selected.                                             *)
Fairness ==
    /\ \A t \in Threads : WF_vars(Call(t))
    /\ \A t \in Checkers : WF_vars(BeginCheck(t))
    /\ WF_vars(Fetch) /\ WF_vars(Reenable) /\ WF_vars(Switch) /\ WF_vars(SetAvailable)
    /\ \A s \in Server : WF_vars(Age(s))
    /\ WF_vars(SwitchTime)

Spec == Init /\ [][Next]_vars
FairSpec == Spec /\ Fairness

-----------------------------------------------------------------------------

CCGState ==
    [active_index : Server, use_count : -1..MaxUseCount, ccg_setter : Campaign \cup {None},
     disabled : [Server -> {"no", "recent", "old"}], switch_due : BOOLEAN]

ThreadState ==
    [pc : {"idle", "choose", "call", "deactivate", "plan"}, campaign : Campaign \cup {None},
     index : Server \cup {None}, tries : 0..MaxTryCount, forced : BOOLEAN,
     bad : SUBSET Server, left : 0..Amount]

StateTypeOK ==
    /\ state \in CCGState
    /\ available \in [Campaign -> BOOLEAN]
    /\ current \in Campaign
    /\ thread \in [Threads -> ThreadState]
    /\ \A t \in Threads :
          /\ thread[t].pc # "idle" => thread[t].campaign \in Campaign
          /\ thread[t].pc = "call" => thread[t].index \in Server
    /\ task \in [pc : {"idle", "switch", "set"}, setter : Campaign \cup {None}]
    /\ recheck \in BOOLEAN /\ add_recheck \in BOOLEAN /\ stray \in BOOLEAN

(* A group is given up only when no server is left: a check when every     *)
(* server is disabled, a confirm when every server failed in forced mode,  *)
(* though other threads move the active server between two calls.          *)
NoServerOverlooked ==
    [][\A t \in Threads :
          thread[t].pc = "choose" /\ thread'[t].pc = "deactivate" =>
              (IF thread[t].forced THEN thread[t].bad ELSE Disabled(state)) = Server]_vars

(* "periodically recheck campaigns": a group that cannot be selected, and  *)
(* so will see no request that could bring it back, is in the list of the  *)
(* recheck task or on its way there, unless the recheck that came had the  *)
(* setter of no check, or of one under an older configuration.             *)
UnavailableIsRechecked ==
    ~available[current] /\ ~stray =>
        \/ recheck \/ add_recheck
        \/ \E t \in Threads : thread[t].pc = "plan"

(* A group that was deactivated is selected again, or a new configuration  *)
(* comes, or the recheck passes it by.                                     *)
DeactivatedComesBack ==
    \A c \in Campaign :
        current = c /\ ~available[c] ~> available[c] \/ current # c \/ stray

(* A server that refused or failed is asked again, unless the recheck      *)
(* passed the group by: with no server and no request nothing plans one.   *)
DisabledIsRetried ==
    \A s \in Server : state.disabled[s] # "no" ~> state.disabled[s] = "no" \/ stray
=============================================================================
