-------------------- MODULE BillingStateContainer_proofs --------------------
(***************************************************************************)
(* Proofs about BillingStateContainer, for any number of servers, threads  *)
(* and configurations: its type invariant, that no server is overlooked    *)
(* before a group is given up, that a group that cannot be selected has a  *)
(* recheck coming unless one passed it by, and that none does as long as   *)
(* groups are only checked.                                                *)
(***************************************************************************)
EXTENDS BillingStateContainer, TLAPS

(* What get_service_index_ returns: a state of the group that differs in   *)
(* its active server and the time to leave it, and a server that is not    *)
(* bad, or none when all servers are.                                      *)
LEMMA Modulo ==
    ASSUME NEW a \in Server, NEW s \in Server
    PROVE  \E i \in 1..ServerCount : (a + i) % ServerCount = s
<1>1. CASE a < s
  <2>1. s - a \in 1..ServerCount /\ a + (s - a) = s
    BY <1>1, ServerCountAssumption DEF Server
  <2>2. s % ServerCount = s
    BY ServerCountAssumption DEF Server
  <2> QED  BY <2>1, <2>2
<1>2. CASE s <= a
  <2>1. /\ s - a + ServerCount \in 1..ServerCount
        /\ a + (s - a + ServerCount) = s + ServerCount
    BY <1>2, ServerCountAssumption DEF Server
  <2>2. (s + ServerCount) % ServerCount = s
    BY ServerCountAssumption, SMTT(30) DEF Server
  <2> QED  BY <2>1, <2>2
<1> QED  BY <1>1, <1>2, ServerCountAssumption DEF Server

LEMMA ModuloType ==
    ASSUME NEW i \in Int PROVE i % ServerCount \in Server
BY ServerCountAssumption DEF Server

LEMMA ServiceIndexResult ==
    ASSUME NEW st \in CCGState, NEW bad \in SUBSET Server,
           NEW r \in GetServiceIndex(st, bad)
    PROVE  /\ r.state \in CCGState
           /\ r.state.disabled = st.disabled
           /\ r.state.ccg_setter = st.ccg_setter
           /\ r.index \in Server \cup {None}
           /\ r.index = None => bad = Server
           /\ r.planned \in BOOLEAN
<1>1. PICK started \in Started(st) : \E result \in ServiceIndex(started, bad) :
            r = [result EXCEPT !.planned = @ \/ st.use_count = -1]
  BY DEF GetServiceIndex
<1>0. PICK result \in ServiceIndex(started, bad) :
            r = [result EXCEPT !.planned = @ \/ st.use_count = -1]
  BY <1>1
<1>2. /\ started \in CCGState /\ started.use_count \in 0..MaxUseCount
      /\ started.disabled = st.disabled /\ started.ccg_setter = st.ccg_setter
  <2>1. CASE st.use_count = -1
    <3>1. PICK s \in Server : started = [st EXCEPT !.active_index = s, !.use_count = 0,
                                                   !.switch_due = FALSE]
      BY <2>1 DEF Started
    <3>2. 0 \in -1..MaxUseCount /\ 0 \in 0..MaxUseCount
      BY CountAssumption
    <3> QED  BY <3>1, <3>2 DEF CCGState
  <2>2. CASE st.use_count # -1
    BY <2>2, CountAssumption DEF Started, CCGState
  <2> QED  BY <2>1, <2>2
<1>3. CASE result = Result(UseAgain(started), started.active_index, FALSE)
           /\ started.use_count < MaxUseCount
  BY <1>0, <1>2, <1>3, NoneAssumption, CountAssumption
     DEF Result, UseAgain, CCGState, Server
<1>4. CASE result = Result([started EXCEPT !.use_count = 1], None, FALSE)
           /\ NextIndexes(started, bad) = {}
  <2>1. ASSUME NEW s \in Server PROVE s \in bad
    <3>1. PICK i \in 1..ServerCount : (started.active_index + i) % ServerCount = s
      BY <1>2, Modulo DEF CCGState
    <3> QED  BY <1>4, <3>1 DEF NextIndexes
  <2>2. bad = Server
    BY <2>1
  <2> QED
    BY <1>0, <1>2, <1>4, <2>2, CountAssumption DEF Result, CCGState
<1>5. ASSUME NEW s \in NextServers(started, bad),
             result = Result(UseFrom(started, s), s, TRUE)
      PROVE  /\ r.state \in CCGState
             /\ r.state.disabled = st.disabled
             /\ r.state.ccg_setter = st.ccg_setter
             /\ r.index \in Server /\ r.planned \in BOOLEAN
  <2>1. s \in Server
    BY <1>2, ModuloType DEF NextServers, NextIndexes, CCGState, Server
  <2>2. r.state = UseFrom(started, s) /\ r.index = s /\ r.planned \in BOOLEAN
    BY <1>0, <1>5 DEF Result
  <2>3. 1 \in -1..MaxUseCount
    BY CountAssumption
  <2> QED
    BY <1>2, <2>1, <2>2, <2>3 DEF UseFrom, CCGState
<1>6. \/ /\ result = Result(UseAgain(started), started.active_index, FALSE)
         /\ started.use_count < MaxUseCount
      \/ /\ result = Result([started EXCEPT !.use_count = 1], None, FALSE)
         /\ NextIndexes(started, bad) = {}
      \/ \E s \in NextServers(started, bad) : result = Result(UseFrom(started, s), s, TRUE)
  BY <1>0 DEF ServiceIndex
<1>7. None \notin Server
  BY NoneAssumption, ServerCountAssumption DEF Server
<1> QED
  BY <1>3, <1>4, <1>5, <1>6, <1>7

-----------------------------------------------------------------------------
(* Type correctness. A check that calls a server has not used up its tries. *)

TypeInv ==
    /\ StateTypeOK
    /\ \A t \in Checkers : thread[t].pc = "call" => thread[t].tries < MaxTryCount

LEMMA IdleType == Idle \in ThreadState
BY CountAssumption, ConfigsAssumption DEF Idle, ThreadState

LEMMA InitType == Init => TypeInv
<1> SUFFICES ASSUME Init PROVE TypeInv
  OBVIOUS
<1>1. state \in CCGState
  BY CountAssumption, ServerCountAssumption DEF Init, CCGState, Server
<1>2. thread \in [Threads -> ThreadState] /\ \A t \in Threads : thread[t].pc = "idle"
  BY IdleType DEF Init, Idle
<1>3. current \in Campaign
  BY ConfigsAssumption DEF Init, Campaign
<1> QED
  BY <1>1, <1>2, <1>3 DEF Init, TypeInv, StateTypeOK, Threads

(* The states of the threads but t are what they were.                     *)
LEMMA ThreadUpdate ==
    ASSUME TypeInv, NEW t \in Threads, NEW new \in ThreadState,
           thread' = [thread EXCEPT ![t] = new],
           new.pc # "idle" => new.campaign \in Campaign,
           new.pc = "call" => new.index \in Server,
           t \in Checkers /\ new.pc = "call" => new.tries < MaxTryCount
    PROVE  /\ thread' \in [Threads -> ThreadState]
           /\ \A u \in Threads :
                 /\ thread'[u].pc # "idle" => thread'[u].campaign \in Campaign
                 /\ thread'[u].pc = "call" => thread'[u].index \in Server
           /\ \A u \in Checkers : thread'[u].pc = "call" => thread'[u].tries < MaxTryCount
BY DEF TypeInv, StateTypeOK, Threads

LEMMA ChosenType ==
    ASSUME TypeInv, NEW t \in Threads, thread[t].pc = "choose",
           NEW index \in Server \cup {None}
    PROVE  /\ Chosen(t, index) \in ThreadState
           /\ Chosen(t, index).pc # "idle" => Chosen(t, index).campaign \in Campaign
           /\ Chosen(t, index).pc = "call" => Chosen(t, index).index \in Server
           /\ t \in Checkers /\ Chosen(t, index).pc = "call" =>
                 Chosen(t, index).tries < MaxTryCount
<1>1. thread[t] \in ThreadState /\ thread[t].campaign \in Campaign
  BY DEF TypeInv, StateTypeOK
<1>2. CASE index # None /\ t \in Checkers /\ thread[t].tries >= MaxTryCount
  BY <1>2, IdleType DEF Chosen, Idle
<1>3. CASE index # None /\ ~(t \in Checkers /\ thread[t].tries >= MaxTryCount)
  <2>1. Chosen(t, index) = [thread[t] EXCEPT !.pc = "call", !.index = index]
    BY <1>3 DEF Chosen
  <2>2. t \in Checkers => thread[t].tries < MaxTryCount
    BY <1>1, <1>3, CountAssumption DEF ThreadState
  <2> QED  BY <1>1, <1>3, <2>1, <2>2 DEF ThreadState
<1>4. CASE index = None /\ (t \in Checkers \/ thread[t].forced)
  BY <1>1, <1>4 DEF Chosen, ThreadState
<1>5. CASE index = None /\ ~(t \in Checkers \/ thread[t].forced)
  BY <1>1, <1>5 DEF Chosen, ThreadState
<1> QED  BY <1>2, <1>3, <1>4, <1>5

LEMMA DisableType ==
    ASSUME TypeInv, NEW s \in Server, Disable(s)
    PROVE  state' \in CCGState
BY DEF TypeInv, StateTypeOK, Disable, CCGState

LEMMA NextType == TypeInv /\ [Next]_vars => TypeInv'
<1> SUFFICES ASSUME TypeInv, [Next]_vars PROVE TypeInv'
  OBVIOUS
<1> USE DEF TypeInv, StateTypeOK
<1>1. ASSUME NEW t \in Checkers, BeginCheck(t) PROVE TypeInv'
  <2> DEFINE new == [thread[t] EXCEPT !.pc = "choose", !.campaign = current]
  <2>1. new \in ThreadState /\ new.pc = "choose" /\ new.campaign = current
    <3>1. thread[t] \in ThreadState /\ current \in Campaign
      BY <1>1 DEF Threads
    <3> QED  BY <3>1 DEF ThreadState
  <2>2. thread' = [thread EXCEPT ![t] = new]
    BY <1>1 DEF BeginCheck
  <2> HIDE DEF new
  <2> QED  BY <1>1, <2>1, <2>2, ThreadUpdate DEF BeginCheck, Threads
<1>2. ASSUME NEW t \in Confirmers, BeginConfirm(t) PROVE TypeInv'
  <2> DEFINE new == [thread[t] EXCEPT !.pc = "choose", !.campaign = current, !.left = Amount]
  <2>1. new \in ThreadState /\ new.pc = "choose" /\ new.campaign = current
    <3>1. thread[t] \in ThreadState /\ current \in Campaign /\ Amount \in 0..Amount
      BY <1>2, ConfigsAssumption DEF Threads
    <3> QED  BY <3>1 DEF ThreadState
  <2>2. thread' = [thread EXCEPT ![t] = new]
    BY <1>2 DEF BeginConfirm
  <2> HIDE DEF new
  <2> QED  BY <1>2, <2>1, <2>2, ThreadUpdate DEF BeginConfirm, Threads
<1>3. ASSUME NEW t \in Threads, Choose(t) PROVE TypeInv'
  <2> DEFINE st == IF t \in Checkers THEN [state EXCEPT !.ccg_setter = thread[t].campaign]
                   ELSE state
             bad == IF thread[t].forced THEN thread[t].bad ELSE Disabled(st)
  <2>1. st \in CCGState /\ bad \in SUBSET Server
    <3>1. thread[t] \in ThreadState /\ thread[t].campaign \in Campaign
      BY <1>3 DEF Choose
    <3>2. st \in CCGState
      BY <3>1 DEF CCGState
    <3>3. Disabled(st) \in SUBSET Server
      BY DEF Disabled
    <3>4. thread[t].bad \in SUBSET Server
      BY <3>1 DEF ThreadState
    <3> QED  BY <3>2, <3>3, <3>4
  <2>2. PICK r \in GetServiceIndex(st, bad) :
            /\ state' = r.state
            /\ add_recheck' = (add_recheck \/ r.planned)
            /\ thread' = [thread EXCEPT ![t] = Chosen(t, r.index)]
    BY <1>3 DEF Choose
  <2> HIDE DEF st, bad
  <2>3. r.state \in CCGState /\ r.index \in Server \cup {None} /\ r.planned \in BOOLEAN
    BY <2>1, <2>2, ServiceIndexResult
  <2>4. thread[t].pc = "choose"
    BY <1>3 DEF Choose
  <2> QED  BY <1>3, <2>2, <2>3, <2>4, ChosenType, ThreadUpdate DEF Choose
<1>4. ASSUME NEW t \in Threads, CallCheck(t) PROVE TypeInv'
  <2>1. CASE thread' = [thread EXCEPT ![t] = Idle] /\ UNCHANGED state
    BY <1>4, <2>1, IdleType, ThreadUpdate DEF CallCheck, Idle
  <2>2. CASE /\ thread' = [thread EXCEPT ![t].pc = "choose", ![t].tries = @ + 1]
             /\ Disable(thread[t].index)
    <3> DEFINE new == [thread[t] EXCEPT !.pc = "choose", !.tries = @ + 1]
    <3>0. /\ thread[t] \in ThreadState /\ thread[t].campaign \in Campaign
          /\ thread[t].tries < MaxTryCount
      BY <1>4 DEF CallCheck
    <3>4. thread[t].tries + 1 \in 0..MaxTryCount
      BY <3>0, CountAssumption DEF ThreadState
    <3>1. new \in ThreadState /\ new.pc = "choose" /\ new.campaign \in Campaign
      BY <3>0, <3>4 DEF ThreadState
    <3>2. thread' = [thread EXCEPT ![t] = new]
      BY <2>2
    <3>3. state' \in CCGState
      BY <1>4, <2>2, DisableType DEF CallCheck
    <3> HIDE DEF new
    <3> QED  BY <1>4, <3>1, <3>2, <3>3, ThreadUpdate DEF CallCheck
  <2> QED  BY <1>4, <2>1, <2>2 DEF CallCheck
<1>5. ASSUME NEW t \in Threads, AnswerConfirm(t) PROVE TypeInv'
  <2>1. PICK left \in 0..thread[t].left, allowed \in BOOLEAN :
            thread' = [thread EXCEPT ![t] =
                IF allowed THEN Idle ELSE [@ EXCEPT !.pc = "deactivate", !.left = left]]
    BY <1>5 DEF AnswerConfirm
  <2> DEFINE new == IF allowed THEN Idle
                    ELSE [thread[t] EXCEPT !.pc = "deactivate", !.left = left]
  <2>2. thread[t] \in ThreadState /\ thread[t].pc = "call"
    BY <1>5 DEF AnswerConfirm
  <2>3. left \in 0..Amount
    BY <2>1, <2>2, ConfigsAssumption DEF ThreadState
  <2>4. /\ new \in ThreadState /\ new.pc # "call"
        /\ new.pc # "idle" => new.campaign \in Campaign
    BY <2>2, <2>3, IdleType DEF ThreadState, Idle
  <2>5. thread' = [thread EXCEPT ![t] = new]
    BY <2>1
  <2> HIDE DEF new
  <2> QED  BY <1>5, <2>4, <2>5, ThreadUpdate DEF AnswerConfirm
<1>6. ASSUME NEW t \in Threads, FailConfirm(t) PROVE TypeInv'
  <2>1. CASE thread[t].forced
    <3> DEFINE new == [thread[t] EXCEPT !.pc = "choose", !.bad = @ \cup {thread[t].index}]
    <3>1. new \in ThreadState /\ new.pc = "choose" /\ new.campaign \in Campaign
      BY <1>6 DEF FailConfirm, ThreadState
    <3>2. thread' = [thread EXCEPT ![t] = new] /\ UNCHANGED state
      BY <1>6, <2>1 DEF FailConfirm
    <3> HIDE DEF new
    <3> QED  BY <1>6, <3>1, <3>2, ThreadUpdate DEF FailConfirm
  <2>2. CASE ~thread[t].forced
    <3> DEFINE new == [thread[t] EXCEPT !.pc = "choose"]
    <3>1. new \in ThreadState /\ new.pc = "choose" /\ new.campaign \in Campaign
      BY <1>6 DEF FailConfirm, ThreadState
    <3>2. thread' = [thread EXCEPT ![t] = new] /\ state' \in CCGState
      BY <1>6, <2>2, DisableType DEF FailConfirm
    <3> HIDE DEF new
    <3> QED  BY <1>6, <3>1, <3>2, ThreadUpdate DEF FailConfirm
  <2> QED  BY <2>1, <2>2
<1>7. ASSUME NEW t \in Threads, Deactivate(t) PROVE TypeInv'
  <2> DEFINE new == [thread[t] EXCEPT !.pc = "plan"]
  <2>1. new \in ThreadState /\ new.pc = "plan" /\ new.campaign \in Campaign
    BY <1>7 DEF Deactivate, ThreadState
  <2>2. thread' = [thread EXCEPT ![t] = new]
    BY <1>7 DEF Deactivate
  <2> HIDE DEF new
  <2> QED  BY <1>7, <2>1, <2>2, ThreadUpdate DEF Deactivate
<1>8. ASSUME NEW t \in Threads, PlanRecheck(t) PROVE TypeInv'
  BY <1>8, IdleType, ThreadUpdate DEF PlanRecheck, Idle
<1>9. CASE Fetch
  BY <1>9 DEF Fetch
<1>10. CASE Reenable
  BY <1>10 DEF Reenable, CCGState
<1>11. CASE Switch
  <2>1. PICK r \in GetServiceIndex(state, Disabled(state)) :
            state' = r.state /\ add_recheck' = (add_recheck \/ r.planned)
    BY <1>11 DEF Switch
  <2>2. Disabled(state) \in SUBSET Server
    BY DEF Disabled
  <2>3. r.state \in CCGState /\ r.planned \in BOOLEAN
    BY <2>1, <2>2, ServiceIndexResult
  <2> QED  BY <1>11, <2>1, <2>3 DEF Switch
<1>12. CASE SetAvailable
  BY <1>12 DEF SetAvailable
<1>13. ASSUME NEW s \in Server, Age(s) PROVE TypeInv'
  BY <1>13 DEF Age, CCGState
<1>14. CASE SwitchTime
  BY <1>14 DEF SwitchTime, CCGState
<1>15. CASE NewConfig
  <2>1. current' \in Campaign
    BY <1>15, ConfigsAssumption DEF NewConfig, Campaign
  <2> QED  BY <1>15, <2>1 DEF NewConfig
<1>16. CASE UNCHANGED vars
  BY <1>16 DEF vars
<1> QED
  BY <1>1, <1>2, <1>3, <1>4, <1>5, <1>6, <1>7, <1>8, <1>9, <1>10, <1>11, <1>12, <1>13,
     <1>14, <1>15, <1>16 DEF Next, Call, Recheck

LEMMA TypeInvariant == Spec => []TypeInv
<1>1. Init => TypeInv
  BY InitType
<1>2. TypeInv /\ [Next]_vars => TypeInv'
  BY NextType
<1> QED  BY <1>1, <1>2, PTL DEF Spec

(* The state of the group, the requests and the recheck task are always    *)
(* well-typed: every index a call uses is that of a server.                *)
THEOREM TypeCorrect == Spec => []StateTypeOK
<1>1. TypeInv => StateTypeOK
  BY DEF TypeInv
<1> QED  BY <1>1, TypeInvariant, PTL

-----------------------------------------------------------------------------
(* No server is overlooked. Only get_service_index_ gives a group up, and  *)
(* it finds none when all servers are bad.                                 *)

LEMMA GivenUp ==
    ASSUME TypeInv, NEW t \in Threads, Choose(t), thread'[t].pc = "deactivate"
    PROVE  (IF thread[t].forced THEN thread[t].bad ELSE Disabled(state)) = Server
<1> DEFINE st == IF t \in Checkers THEN [state EXCEPT !.ccg_setter = thread[t].campaign]
                 ELSE state
           bad == IF thread[t].forced THEN thread[t].bad ELSE Disabled(st)
<1>1. /\ thread[t] \in ThreadState /\ thread[t].campaign \in Campaign
      /\ thread \in [Threads -> ThreadState] /\ state \in CCGState
  BY DEF Choose, TypeInv, StateTypeOK
<1>2. st \in CCGState /\ st.disabled = state.disabled
  BY <1>1 DEF CCGState
<1>3. Disabled(st) = Disabled(state) /\ Disabled(st) \in SUBSET Server
  BY <1>2 DEF Disabled
<1>4. bad \in SUBSET Server
  BY <1>1, <1>3 DEF ThreadState
<1>5. PICK r \in GetServiceIndex(st, bad) : thread' = [thread EXCEPT ![t] = Chosen(t, r.index)]
  BY DEF Choose
<1> HIDE DEF st, bad
<1>6. r.index = None => bad = Server
  BY <1>2, <1>4, <1>5, ServiceIndexResult
<1>7. thread'[t] = Chosen(t, r.index)
  BY <1>1, <1>5
<1>8. r.index = None
  BY <1>7, <1>1 DEF Chosen, Idle, ThreadState
<1> QED  BY <1>3, <1>6, <1>8 DEF bad

LEMMA OthersKeep ==
    ASSUME TypeInv, NEW u \in Threads, NEW t \in Threads, u # t, Call(u)
    PROVE  thread'[t] = thread[t]
BY DEF Call, Choose, CallCheck, AnswerConfirm, FailConfirm, Deactivate, PlanRecheck,
       TypeInv, StateTypeOK

(* A group is given up only when no server is left to ask, for any number  *)
(* of servers and of threads that move the active server meanwhile.        *)
THEOREM GivenUpOnlyWithoutServers == Spec => NoServerOverlooked
<1> DEFINE Overlooked(t) ==
        thread[t].pc = "choose" /\ thread'[t].pc = "deactivate" =>
            (IF thread[t].forced THEN thread[t].bad ELSE Disabled(state)) = Server
<1>1. ASSUME TypeInv, [Next]_vars, NEW t \in Threads PROVE Overlooked(t)
  <2> SUFFICES ASSUME thread[t].pc = "choose", thread'[t].pc = "deactivate"
               PROVE  (IF thread[t].forced THEN thread[t].bad ELSE Disabled(state)) = Server
    OBVIOUS
  <2>1. thread \in [Threads -> ThreadState]
    BY <1>1 DEF TypeInv, StateTypeOK
  <2>2. ASSUME NEW u \in Checkers, BeginCheck(u) PROVE FALSE
    BY <2>1, <2>2 DEF BeginCheck
  <2>3. ASSUME NEW u \in Confirmers, BeginConfirm(u) PROVE FALSE
    BY <2>1, <2>3 DEF BeginConfirm
  <2>4. ASSUME NEW u \in Threads, Call(u) PROVE Choose(t)
    <3>1. u = t
      BY <1>1, <2>4, OthersKeep
    <3> QED
      BY <2>4, <3>1 DEF Call, CallCheck, AnswerConfirm, FailConfirm, Deactivate, PlanRecheck
  <2>5. UNCHANGED thread => FALSE
    OBVIOUS
  <2>6. Choose(t)
    BY <1>1, <2>2, <2>3, <2>4, <2>5
       DEF Next, Recheck, Fetch, Reenable, Switch, SetAvailable, Age, SwitchTime, NewConfig, vars
  <2> QED  BY <1>1, <2>6, GivenUp
<1>2. TypeInv /\ [Next]_vars => [\A t \in Threads : Overlooked(t)]_vars
  BY <1>1
<1> QED
  BY <1>2, TypeInvariant, PTL DEF Spec, NoServerOverlooked

-----------------------------------------------------------------------------
(* A group that cannot be selected has a recheck coming, unless one passed *)
(* it by. A configuration that has not come yet has its group available,   *)
(* because no call works on it.                                            *)

FutureInv ==
    /\ \A t \in Threads : thread[t].pc # "idle" => thread[t].campaign <= current
    /\ \A c \in Campaign : c > current => available[c]

RecheckInv == FutureInv /\ UnavailableIsRechecked

(* A step of a thread that goes on with its own campaign.                  *)
LEMMA KeepsFuture ==
    ASSUME TypeInv, FutureInv, NEW t \in Threads, NEW new,
           thread' = [thread EXCEPT ![t] = new], UNCHANGED <<available, current>>,
           new.pc # "idle" => thread[t].pc # "idle" /\ new.campaign = thread[t].campaign
    PROVE  FutureInv'
<1>1. current \in Campaign /\ current \in Int /\ thread \in [Threads -> ThreadState]
  BY DEF TypeInv, StateTypeOK, Campaign
<1>2. \A u \in Threads : thread'[u] = IF u = t THEN new ELSE thread[u]
  BY <1>1
<1> QED  BY <1>1, <1>2 DEF FutureInv

(* A step that drops no recheck.                                           *)
LEMMA KeepsRecheck ==
    ASSUME UnavailableIsRechecked, UNCHANGED <<available, current, stray>>,
           recheck => recheck',
           add_recheck => add_recheck' \/ recheck',
           \A t \in Threads : thread[t].pc = "plan" => thread'[t].pc = "plan" \/ add_recheck'
    PROVE  UnavailableIsRechecked'
BY DEF UnavailableIsRechecked

LEMMA NextRecheck ==
    ASSUME TypeInv, TypeInv', RecheckInv, [Next]_vars
    PROVE  RecheckInv'
<1> USE DEF RecheckInv
<1>0. /\ thread \in [Threads -> ThreadState] /\ current \in Campaign
      /\ available \in [Campaign -> BOOLEAN]
  BY DEF TypeInv, StateTypeOK
<1> USE <1>0
<1>19. ASSUME NEW t \in Threads, NEW new, thread' = [thread EXCEPT ![t] = new],
             thread[t].pc = "idle", new.campaign = current,
             UNCHANGED <<available, current, recheck, add_recheck, stray>>
      PROVE  RecheckInv'
  <2>1. \A u \in Threads : thread'[u] = IF u = t THEN new ELSE thread[u]
    BY <1>19
  <2>2. current \in Int
    BY DEF Campaign
  <2>3. FutureInv'
    BY <1>19, <2>1, <2>2 DEF FutureInv
  <2> QED  BY <1>19, <2>3, KeepsRecheck
<1>1. ASSUME NEW t \in Checkers, BeginCheck(t) PROVE RecheckInv'
  <2> DEFINE new == [thread[t] EXCEPT !.pc = "choose", !.campaign = current]
  <2>1. thread' = [thread EXCEPT ![t] = new] /\ thread[t] \in ThreadState /\ t \in Threads
    BY <1>1 DEF BeginCheck, Threads
  <2>2. new.campaign = current
    BY <2>1 DEF ThreadState
  <2> HIDE DEF new
  <2> QED  BY <1>19, <1>1, <2>1, <2>2 DEF BeginCheck
<1>2. ASSUME NEW t \in Confirmers, BeginConfirm(t) PROVE RecheckInv'
  <2> DEFINE new == [thread[t] EXCEPT !.pc = "choose", !.campaign = current, !.left = Amount]
  <2>1. thread' = [thread EXCEPT ![t] = new] /\ thread[t] \in ThreadState /\ t \in Threads
    BY <1>2 DEF BeginConfirm, Threads
  <2>2. new.campaign = current
    BY <2>1 DEF ThreadState
  <2> HIDE DEF new
  <2> QED  BY <1>19, <1>2, <2>1, <2>2 DEF BeginConfirm
<1>3. ASSUME NEW t \in Threads, Choose(t) PROVE RecheckInv'
  <2> DEFINE st == IF t \in Checkers THEN [state EXCEPT !.ccg_setter = thread[t].campaign]
                   ELSE state
             bad == IF thread[t].forced THEN thread[t].bad ELSE Disabled(st)
  <2>1. PICK r \in GetServiceIndex(st, bad) :
            /\ add_recheck' = (add_recheck \/ r.planned)
            /\ thread' = [thread EXCEPT ![t] = Chosen(t, r.index)]
    BY <1>3 DEF Choose
  <2> HIDE DEF st, bad
  <2>2. /\ thread[t] \in ThreadState /\ thread[t].pc = "choose"
        /\ UNCHANGED <<available, current, stray, recheck>>
    BY <1>3 DEF Choose
  <2>3. Chosen(t, r.index).pc # "idle" =>
            Chosen(t, r.index).campaign = thread[t].campaign
    BY <2>2 DEF Chosen, Idle, ThreadState
  <2>4. FutureInv'
    BY <2>1, <2>2, <2>3, KeepsFuture
  <2>5. UnavailableIsRechecked'
    BY <2>1, <2>2, KeepsRecheck
  <2> QED  BY <2>4, <2>5
<1>4. ASSUME NEW t \in Threads, NEW new, thread' = [thread EXCEPT ![t] = new],
             thread[t].pc \notin {"idle", "plan"},
             new.pc # "idle" => new.campaign = thread[t].campaign,
             UNCHANGED <<available, current, recheck, add_recheck, stray>>
      PROVE  RecheckInv'
  BY <1>4, KeepsFuture, KeepsRecheck
<1>5. ASSUME NEW t \in Threads, CallCheck(t) PROVE RecheckInv'
  <2>1. CASE thread' = [thread EXCEPT ![t] = Idle]
    BY <1>4, <1>5, <2>1 DEF CallCheck, Idle
  <2>2. CASE thread' = [thread EXCEPT ![t].pc = "choose", ![t].tries = @ + 1]
    <3> DEFINE new == [thread[t] EXCEPT !.pc = "choose", !.tries = @ + 1]
    <3>1. thread' = [thread EXCEPT ![t] = new] /\ new.campaign = thread[t].campaign
      <4>1. thread[t] \in ThreadState
        OBVIOUS
      <4> QED  BY <2>2, <4>1 DEF ThreadState
    <3> HIDE DEF new
    <3> QED  BY <1>4, <1>5, <3>1 DEF CallCheck
  <2> QED  BY <1>5, <2>1, <2>2 DEF CallCheck
<1>6. ASSUME NEW t \in Threads, AnswerConfirm(t) PROVE RecheckInv'
  <2>1. PICK left \in 0..thread[t].left, allowed \in BOOLEAN :
            thread' = [thread EXCEPT ![t] =
                IF allowed THEN Idle ELSE [@ EXCEPT !.pc = "deactivate", !.left = left]]
    BY <1>6 DEF AnswerConfirm
  <2> DEFINE new == IF allowed THEN Idle
                    ELSE [thread[t] EXCEPT !.pc = "deactivate", !.left = left]
  <2>2. thread' = [thread EXCEPT ![t] = new]
    BY <2>1
  <2>3. thread[t] \in ThreadState
    OBVIOUS
  <2>4. new.pc # "idle" => new.campaign = thread[t].campaign
    BY <2>3 DEF ThreadState, Idle
  <2> HIDE DEF new
  <2> QED  BY <1>4, <1>6, <2>2, <2>4 DEF AnswerConfirm
<1>7. ASSUME NEW t \in Threads, FailConfirm(t) PROVE RecheckInv'
  <2> DEFINE new == IF thread[t].forced
                    THEN [thread[t] EXCEPT !.pc = "choose", !.bad = @ \cup {thread[t].index}]
                    ELSE [thread[t] EXCEPT !.pc = "choose"]
  <2>1. thread' = [thread EXCEPT ![t] = new]
    BY <1>7 DEF FailConfirm
  <2>2. thread[t] \in ThreadState
    OBVIOUS
  <2>3. new.campaign = thread[t].campaign
    BY <2>2 DEF ThreadState
  <2> HIDE DEF new
  <2> QED  BY <1>4, <1>7, <2>1, <2>3 DEF FailConfirm
<1>8. ASSUME NEW t \in Threads, Deactivate(t) PROVE RecheckInv'
  <2>1. /\ thread[t] \in ThreadState /\ thread[t].campaign \in Campaign
        /\ thread[t].campaign <= current
    BY <1>8 DEF Deactivate, FutureInv, TypeInv, StateTypeOK
  <2>2. /\ thread' = [thread EXCEPT ![t] = [thread[t] EXCEPT !.pc = "plan"]]
        /\ available' = [available EXCEPT ![thread[t].campaign] = FALSE]
        /\ stray' = (stray /\ thread[t].campaign # current)
        /\ UNCHANGED <<current, recheck, add_recheck>>
    BY <1>8 DEF Deactivate
  <2>3. /\ thread'[t].pc = "plan" /\ thread'[t].campaign = thread[t].campaign
        /\ \A u \in Threads : u # t => thread'[u] = thread[u]
    BY <2>1, <2>2 DEF ThreadState
  <2>4. FutureInv'
    BY <2>1, <2>2, <2>3 DEF FutureInv, Campaign
  <2>5. UnavailableIsRechecked'
    BY <2>3 DEF UnavailableIsRechecked
  <2> QED  BY <2>4, <2>5
<1>9. ASSUME NEW t \in Threads, PlanRecheck(t) PROVE RecheckInv'
  <2>1. FutureInv'
    BY <1>9, KeepsFuture DEF PlanRecheck, Idle
  <2>2. UnavailableIsRechecked'
    BY <1>9 DEF PlanRecheck, UnavailableIsRechecked
  <2> QED  BY <2>1, <2>2
<1>10. ASSUME UNCHANGED <<available, current, thread, stray>>,
              recheck => recheck', add_recheck => add_recheck' \/ recheck'
       PROVE  RecheckInv'
  <2>1. FutureInv'
    BY <1>10 DEF FutureInv
  <2> QED  BY <1>10, <2>1, KeepsRecheck
<1>11. CASE Fetch
  BY <1>10, <1>11 DEF Fetch
<1>12. CASE Reenable
  BY <1>10, <1>12 DEF Reenable
<1>13. CASE Switch
  BY <1>10, <1>13 DEF Switch
<1>14. CASE SetAvailable
  <2>1. UnavailableIsRechecked'
    BY <1>14 DEF SetAvailable, UnavailableIsRechecked
  <2>2. FutureInv'
    BY <1>14 DEF SetAvailable, FutureInv
  <2> QED  BY <2>1, <2>2
<1>15. ASSUME NEW s \in Server, Age(s) PROVE RecheckInv'
  BY <1>10, <1>15 DEF Age
<1>16. CASE SwitchTime
  BY <1>10, <1>16 DEF SwitchTime
<1>17. CASE NewConfig
  <2>1. /\ current' = current + 1 /\ current' \in Campaign /\ current \in Int
        /\ UNCHANGED <<thread, available>>
    BY <1>17, ConfigsAssumption DEF NewConfig, Campaign
  <2>2. \A t \in Threads : thread[t].pc # "idle" => thread[t].campaign \in Int
    BY DEF TypeInv, StateTypeOK, Campaign
  <2>3. FutureInv'
    BY <2>1, <2>2 DEF FutureInv, Campaign
  <2>4. available'[current']
    BY <2>1 DEF FutureInv, Campaign
  <2> QED  BY <2>3, <2>4 DEF UnavailableIsRechecked
<1>18. CASE UNCHANGED vars
  BY <1>10, <1>18 DEF vars
<1> QED
  BY <1>1, <1>2, <1>3, <1>5, <1>6, <1>7, <1>8, <1>9, <1>11, <1>12, <1>13,
     <1>14, <1>15, <1>16, <1>17, <1>18 DEF Next, Call, Recheck

(* A group that cannot be selected has a recheck coming, unless a recheck  *)
(* has passed it by since it was deactivated: for any number of servers,   *)
(* of checks, of confirms and of configurations.                           *)
THEOREM UnavailableGroupIsRechecked == Spec => []UnavailableIsRechecked
<1>1. Init => RecheckInv
  <2> SUFFICES ASSUME Init PROVE RecheckInv
    OBVIOUS
  <2>1. \A t \in Threads : thread[t].pc = "idle"
    BY DEF Init, Idle
  <2>2. current \in Campaign /\ \A c \in Campaign : available[c]
    BY ConfigsAssumption DEF Init, Campaign
  <2> QED  BY <2>1, <2>2 DEF RecheckInv, FutureInv, UnavailableIsRechecked
<1>2. TypeInv /\ TypeInv' /\ RecheckInv /\ [Next]_vars => RecheckInv'
  BY NextRecheck
<1>3. RecheckInv => UnavailableIsRechecked
  BY DEF RecheckInv
<1> QED  BY <1>1, <1>2, <1>3, TypeInvariant, PTL DEF Spec

-----------------------------------------------------------------------------
(* A group that is only checked, in one configuration. The recheck sets    *)
(* the campaign available that the last check has left in the state of the *)
(* group, so a recheck is of use only after a check left one.              *)

HasSetter == state.ccg_setter = 1

Planned(t) == thread[t].pc \in {"call", "deactivate", "plan"}

SetterInv ==
    /\ recheck \/ add_recheck => HasSetter
    /\ task.pc # "idle" => HasSetter /\ task.setter = 1
    /\ \A t \in Threads : Planned(t) => HasSetter
    /\ ~stray

LEMMA Only ==
    ASSUME MaxConfigs = 1
    PROVE  Campaign = {1}
BY DEF Campaign

LEMMA NextSetter ==
    ASSUME MaxConfigs = 1, Confirmers = {}, TypeInv, TypeInv', SetterInv, [Next]_vars
    PROVE  SetterInv'
<1> USE DEF TypeInv, StateTypeOK
<1>0. Threads = Checkers /\ Campaign = {1} /\ thread \in [Threads -> ThreadState]
      /\ current = 1 /\ current' = 1 /\ HasSetter \in BOOLEAN
  BY Only DEF Threads, HasSetter
<1> USE <1>0
<1>1. ASSUME NEW t \in Checkers, BeginCheck(t) PROVE SetterInv'
  BY <1>1 DEF BeginCheck, SetterInv, HasSetter, Planned
<1>2. ASSUME NEW t \in Threads, Choose(t) PROVE SetterInv'
  <2> DEFINE st == [state EXCEPT !.ccg_setter = thread[t].campaign]
             bad == IF thread[t].forced THEN thread[t].bad ELSE Disabled(st)
  <2>1. thread[t].campaign = 1 /\ thread[t] \in ThreadState
    BY <1>2 DEF Choose
  <2>2. st \in CCGState /\ st.ccg_setter = 1
    BY <2>1 DEF CCGState
  <2>3. bad \in SUBSET Server
    BY <2>1 DEF ThreadState, Disabled
  <2>4. PICK r \in GetServiceIndex(st, bad) :
            /\ state' = r.state
            /\ add_recheck' = (add_recheck \/ r.planned)
            /\ thread' = [thread EXCEPT ![t] = Chosen(t, r.index)]
    BY <1>2 DEF Choose
  <2> HIDE DEF st, bad
  <2>5. HasSetter'
    BY <2>2, <2>3, <2>4, ServiceIndexResult DEF HasSetter
  <2> QED  BY <1>2, <2>5 DEF Choose, SetterInv, HasSetter
<1>3. ASSUME NEW t \in Threads, CallCheck(t) PROVE SetterInv'
  <2>1. state' \in CCGState /\ state'.ccg_setter = state.ccg_setter
    BY <1>3 DEF CallCheck, Disable, CCGState
  <2>2. /\ thread[t].pc = "call" /\ thread'[t].pc \in {"idle", "choose"}
        /\ \A u \in Threads : u # t => thread'[u] = thread[u]
    <3>1. CASE thread' = [thread EXCEPT ![t] = Idle]
      BY <1>3, <3>1 DEF CallCheck, Idle
    <3>2. CASE thread' = [thread EXCEPT ![t].pc = "choose", ![t].tries = @ + 1]
      <4>1. thread[t] \in ThreadState
        OBVIOUS
      <4>2. thread' = [thread EXCEPT ![t] = [thread[t] EXCEPT !.pc = "choose", !.tries = @ + 1]]
        BY <3>2
      <4> QED  BY <1>3, <4>1, <4>2 DEF CallCheck, ThreadState
    <3> QED  BY <1>3, <3>1, <3>2 DEF CallCheck
  <2>3. UNCHANGED <<available, current, task, recheck, add_recheck, stray>>
    BY <1>3 DEF CallCheck
  <2> QED  BY <2>1, <2>2, <2>3 DEF SetterInv, HasSetter, Planned
<1>4. ASSUME NEW t \in Threads, Deactivate(t) PROVE SetterInv'
  <2>1. /\ thread[t].pc = "deactivate" /\ thread'[t].pc = "plan"
        /\ \A u \in Threads : u # t => thread'[u] = thread[u]
    BY <1>4 DEF Deactivate
  <2> QED  BY <1>4, <2>1 DEF Deactivate, SetterInv, HasSetter, Planned
<1>5. ASSUME NEW t \in Threads, PlanRecheck(t) PROVE SetterInv'
  <2>1. /\ thread[t].pc = "plan" /\ thread'[t].pc = "idle"
        /\ \A u \in Threads : u # t => thread'[u] = thread[u]
    BY <1>5 DEF PlanRecheck, Idle
  <2> QED  BY <1>5, <2>1 DEF PlanRecheck, SetterInv, HasSetter, Planned
<1>6. CASE Fetch
  BY <1>6 DEF Fetch, SetterInv, HasSetter, Planned
<1>7. CASE Reenable
  <2>1. state'.ccg_setter = state.ccg_setter
    BY <1>7 DEF Reenable, CCGState
  <2>2. HasSetter /\ task'.setter = 1
    BY <1>7 DEF Reenable, SetterInv, HasSetter
  <2> QED  BY <1>7, <2>1, <2>2 DEF Reenable, SetterInv, HasSetter, Planned
<1>8. CASE Switch
  <2>1. PICK r \in GetServiceIndex(state, Disabled(state)) :
            state' = r.state /\ add_recheck' = (add_recheck \/ r.planned)
    BY <1>8 DEF Switch
  <2>2. Disabled(state) \in SUBSET Server
    BY DEF Disabled
  <2>3. state'.ccg_setter = state.ccg_setter
    BY <2>1, <2>2, ServiceIndexResult
  <2>4. HasSetter /\ task.setter = 1
    BY <1>8 DEF Switch, SetterInv
  <2>6. task'.setter = task.setter
    BY <1>8 DEF Switch
  <2> QED  BY <1>8, <2>3, <2>4, <2>6 DEF Switch, SetterInv, HasSetter, Planned
<1>9. CASE SetAvailable
  <2>1. available'[1]
    BY <1>9 DEF SetAvailable, SetterInv
  <2> QED  BY <1>9, <2>1 DEF SetAvailable, SetterInv, HasSetter, Planned
<1>10. ASSUME NEW s \in Server, Age(s) PROVE SetterInv'
  <2>1. state'.ccg_setter = state.ccg_setter
    BY <1>10 DEF Age, CCGState
  <2> QED  BY <1>10, <2>1 DEF Age, SetterInv, HasSetter, Planned
<1>11. CASE SwitchTime
  <2>1. state'.ccg_setter = state.ccg_setter
    BY <1>11 DEF SwitchTime, CCGState
  <2> QED  BY <1>11, <2>1 DEF SwitchTime, SetterInv, HasSetter, Planned
<1>12. CASE NewConfig
  BY <1>12 DEF NewConfig
<1>13. CASE UNCHANGED vars
  BY <1>13 DEF vars, SetterInv, HasSetter, Planned
<1>14. \A t \in Threads : ~AnswerConfirm(t) /\ ~FailConfirm(t)
  BY DEF AnswerConfirm, FailConfirm
<1>15. \A t \in Confirmers : ~BeginConfirm(t)
  OBVIOUS
<1> QED
  BY <1>1, <1>2, <1>3, <1>4, <1>5, <1>6, <1>7, <1>8, <1>9, <1>10, <1>11, <1>12, <1>13,
     <1>14, <1>15 DEF Next, Call, Recheck

(* As long as groups are only checked and the configuration stays, no      *)
(* recheck passes a group by: one that cannot be selected always has a     *)
(* recheck coming, however many servers and threads there are.             *)
THEOREM CheckedGroupIsRechecked ==
    ASSUME MaxConfigs = 1, Confirmers = {}
    PROVE  Spec => [](UnavailableIsRechecked /\ ~stray)
<1>1. Init => SetterInv
  BY ConfigsAssumption DEF Init, SetterInv, HasSetter, Planned, Idle, Campaign
<1>2. TypeInv /\ TypeInv' /\ SetterInv /\ [Next]_vars => SetterInv'
  BY NextSetter
<1>3. SetterInv => ~stray
  BY DEF SetterInv
<1> QED  BY <1>1, <1>2, <1>3, TypeInvariant, UnavailableGroupIsRechecked, PTL DEF Spec
=============================================================================
