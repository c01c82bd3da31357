------------------------ MODULE RequestInfoContainer ------------------------
(***************************************************************************)
(* What the RequestInfoManagers know of one request and tell their         *)
(* RequestActionProcessors of it: RequestInfoContainer, with the           *)
(* operations by which a request moves to the owner of another user id.    *)
(*                                                                         *)
(* The records of a request, its notices, impressions, clicks, actions and *)
(* post impression actions come in any order and more than once, all to    *)
(* the owner of the request's user.  An operation is one transaction on    *)
(* the profile; what it delegates is counted in told at once, for the      *)
(* counts do not depend on the order of the calls.  An operation for       *)
(* another owner, or for this one once the transaction is closed, waits in *)
(* operations and is taken in any order.                                   *)
(***************************************************************************)
EXTENDS Integers, FiniteSets, BagsExt, Bags

CONSTANTS
    Owner,        \* the RequestInfoManagers
    Entry,        \* the one that gets the log records of the request
    User,         \* user ids
    RequestUser,  \* the user of the request
    Homes,        \* the possible distributions of the users to the owners
    Trackings,    \* the possible tracking flags of the request
    PostAction,   \* names of post impression actions
    Arrivals,     \* how many records of each kind may come together
    Nothing

ASSUME OwnerAssumption ==
    /\ Entry \in Owner /\ RequestUser \in User /\ Nothing \notin User
    /\ Homes \subseteq {h \in [User -> Owner] : h[RequestUser] = Entry}
    /\ Trackings \subseteq [notice : BOOLEAN, impression : BOOLEAN, action : BOOLEAN]
    /\ Arrivals \subseteq [{"request", "notice", "impression", "foreign", "click", "action"}
                               \cup PostAction -> Nat]

VARIABLES
    home,         \* user_id_distribution_hash: the owner of each user id
    tracking,     \* enabled_notice, enabled_impression_tracking, enabled_action_tracking
    profile,      \* request_map_ of each owner, for this request
    operations,   \* what is handed to the RequestOperationProcessor: a bag
    told,         \* calls of RequestActionProcessor by kind and RequestState
    arrived       \* log records so far

requestVars == <<home, tracking, profile, operations, told, arrived>>

State == {"normal", "fraud", "moved", "resave", "duplicate"}
Kind == {"request", "impression", "click", "action", "post"}
Record == {"request", "notice", "impression", "foreign", "click", "action"} \cup PostAction

(* RequestInfoProfile *)
Profile ==
    [request_done : BOOLEAN, user_id : User \cup {Nothing}, fraud : {"normal", "fraud", "moved"},
     notice_received : BOOLEAN, notice_non_considered : BOOLEAN,
     impression_verified : BOOLEAN, impression_non_considered : Nat,
     click_done : BOOLEAN, click_non_considered : Nat,
     actions_done : Nat, actions_non_considered : Nat,
     post_impression_actions : SUBSET PostAction]

(* The names of post impression actions are no kinds of records. *)
ASSUME RecordAssumption ==
    PostAction \cap {"request", "notice", "impression", "foreign", "click", "action"} = {}

(* What is not there is not taken for a profile. *)
ASSUME ProfileAssumption == Nothing \notin Profile /\ IsFiniteSet(PostAction)

(* create_empty_stub, clear_action_fields *)
Stub ==
    [request_done |-> FALSE, user_id |-> Nothing, fraud |-> "normal",
     notice_received |-> FALSE, notice_non_considered |-> FALSE,
     impression_verified |-> FALSE, impression_non_considered |-> 0,
     click_done |-> FALSE, click_non_considered |-> 0,
     actions_done |-> 0, actions_non_considered |-> 0,
     post_impression_actions |-> {}]

-----------------------------------------------------------------------------
(* An operation on a profile is a function of s: the profile p, what it    *)
(* has told so far and the operations it hands on.                         *)

TellTimes(s, kind, state, n) == [s EXCEPT !.told[kind][state] = @ + n]
Tell(s, kind, state) == TellTimes(s, kind, state, 1)
TellIf(s, cond, kind, state) == IF cond THEN Tell(s, kind, state) ELSE s

Moved(p) == p # Nothing /\ p.fraud = "moved"

Named(p, user) == IF user = Nothing THEN p ELSE [p EXCEPT !.user_id = user]

(* A profile marked RS_MOVED hands its operations on to the user it went   *)
(* to; if moving is disabled (the operation came by a move) it is skipped  *)
(* and a stub takes its place.                                             *)
Forward(s, op) == [s EXCEPT !.operations = BagAdd(@, [op EXCEPT !.user = s.p.user_id])]

Opened(p) == IF p = Nothing \/ Moved(p) THEN Stub ELSE p

Op(type, user, arg) == [type |-> type, user |-> user, arg |-> arg]

(* process_action_buf_, for n actions: those before the click wait.        *)
ProcessActions(s, n) ==
    IF ~s.p.click_done THEN [s EXCEPT !.p.actions_non_considered = @ + n]
    ELSE IF tracking.action
    THEN TellTimes([s EXCEPT !.p.actions_done = @ + n], "action", "normal", n)
    ELSE s

ProcessAction(s, moveable) ==
    IF Moved(s.p) /\ moveable THEN Forward(s, Op("action", Nothing, Nothing))
    ELSE ProcessActions([s EXCEPT !.p = Opened(@)], 1)

ClickDone(p) ==
    [p EXCEPT !.click_done = TRUE, !.click_non_considered = 0, !.actions_non_considered = 0]

(* Mutant: the click of a request rolled back is not rolled back.          *)
FirstClick_OfFraudCounts(s) == Tell([s EXCEPT !.p = ClickDone(s.p)], "click", "normal")

(* The click of a request that is rolled back is rolled back with it.      *)
FirstClick(s) ==
    TellIf(Tell([s EXCEPT !.p = ClickDone(s.p)], "click", "normal"),
           s.p.fraud = "fraud", "click", "fraud")

(* process_click_buf_: a click before the verified impression waits, the   *)
(* first one after it is told, and with it what has waited for it.         *)
ProcessClick(s, moveable) ==
    IF Moved(s.p) /\ moveable THEN Forward(s, Op("click", Nothing, Nothing))
    ELSE LET p == Opened(s.p)
             others == TellTimes(FirstClick(s), "click", "duplicate", p.click_non_considered)
         IN  IF ~p.impression_verified
             THEN [s EXCEPT !.p = [p EXCEPT !.click_non_considered = @ + 1]]
             ELSE IF p.click_done THEN Tell(s, "click", "duplicate")
             ELSE ProcessActions(others, p.actions_non_considered)

(* process_impression_post_action_buf_, for the names one after another:   *)
(* each counts once.                                                       *)
ProcessPostActions(s, names) ==
    LET new == names \ s.p.post_impression_actions
        noted == [s EXCEPT !.p.post_impression_actions = @ \cup names]
    IN  IF s.p.impression_verified THEN TellTimes(noted, "post", "normal", Cardinality(new))
        ELSE noted

ProcessPostAction(s, name, moveable) ==
    IF Moved(s.p) /\ moveable THEN Forward(s, Op("post", Nothing, name))
    ELSE ProcessPostActions([s EXCEPT !.p = Opened(@)], {name})

(* Mutant: a click is taken out although none waits.                       *)
Verified_ClickTaken(p, user) ==
    [(IF p.impression_non_considered = 0 THEN Named(p, user) ELSE p) EXCEPT
        !.impression_verified = TRUE, !.impression_non_considered = 0,
        !.click_non_considered = @ - 1, !.post_impression_actions = {}]

(* The profile of an impression that is verified: the first waiting click  *)
(* is taken out, to be processed next.                                     *)
Verified(p, user) ==
    [(IF p.impression_non_considered = 0 THEN Named(p, user) ELSE p) EXCEPT
        !.impression_verified = TRUE, !.impression_non_considered = 0,
        !.click_non_considered = IF @ > 0 THEN @ - 1 ELSE 0,
        !.post_impression_actions = {}]

(* process_impression_buf_, an impression on a profile that has its        *)
(* request and its notice: the impressions that have waited are duplicates.*)
VerifyImpression(s, user, moveable) ==
    LET p == s.p
        first == Tell([s EXCEPT !.p = Verified(p, user)], "impression", "normal")
        others == TellTimes(first, "impression", "duplicate", p.impression_non_considered)
        clicked == IF p.click_non_considered > 0 THEN ProcessClick(others, moveable) ELSE others
    IN  ProcessPostActions(clicked, p.post_impression_actions)

(* Mutant: the request is not taken back where it leaves.                  *)
MoveByImpression_NotRolledBack(s, user) ==
    LET p == [s.p EXCEPT !.fraud = "moved", !.user_id = user, !.request_done = FALSE]
    IN  [s EXCEPT !.p = p, !.operations = BagAdd(@, Op("change", user, p))]

(* An impression with another user id moves the request to that user.      *)
MoveByImpression(s, user) ==
    LET p == [s.p EXCEPT !.fraud = "moved", !.user_id = user, !.request_done = FALSE]
    IN  Tell([s EXCEPT !.p = p, !.operations = BagAdd(@, Op("change", user, p))],
             "request", "moved")

WaitImpression(s, user) ==
    LET p == IF s.p = Nothing THEN Stub ELSE s.p
    IN  [s EXCEPT !.p = [(IF p.impression_non_considered = 0 THEN Named(p, user) ELSE p)
                         EXCEPT !.impression_non_considered = @ + 1]]

(* An impression of a profile that is moved or has its impression.         *)
SecondImpression(s, moveable) ==
    IF Moved(s.p) /\ moveable THEN Forward(s, Op("impression", Nothing, Nothing))
    ELSE Tell(s, "impression", "duplicate")

ProcessImpression(s, user, moveable) ==
    IF s.p = Nothing THEN WaitImpression(s, user)
    ELSE IF Moved(s.p) \/ s.p.impression_verified THEN SecondImpression(s, moveable)
    ELSE IF moveable /\ s.p.request_done /\ user # Nothing /\ user # s.p.user_id
    THEN MoveByImpression(s, user)
    ELSE IF s.p.notice_received THEN VerifyImpression(s, user, moveable)
    ELSE WaitImpression(s, user)

(* Mutant: the impression that waited for the notice keeps waiting.        *)
NoticeReceived_ImpressionWaits(s, moveable) == [s EXCEPT !.p.notice_received = TRUE]

(* The notice of a request: an impression that waits for it is verified,   *)
(* one that is not tracked counts with the notice.                         *)
NoticeReceived(s, moveable) ==
    LET p == [s.p EXCEPT !.notice_received = TRUE]
    IN  IF p.impression_non_considered > 0
        THEN ProcessImpression(
                 [s EXCEPT !.p = [p EXCEPT !.impression_non_considered = @ - 1]],
                 p.user_id, moveable)
        ELSE IF ~tracking.impression
        THEN ProcessImpression([s EXCEPT !.p = p], Nothing, moveable)
        ELSE [s EXCEPT !.p = p]

(* process_notice_buf_: notices carry no user id. *)
ProcessNotice(s, moveable) ==
    IF Moved(s.p) /\ moveable THEN Forward(s, Op("notice", Nothing, Nothing))
    ELSE LET p == Opened(s.p)
         IN  IF ~p.request_done THEN [s EXCEPT !.p = [p EXCEPT !.notice_non_considered = TRUE]]
             ELSE IF p.notice_received THEN s
             ELSE NoticeReceived(s, moveable)

(* A request whose stub names another user is not processed here: it goes  *)
(* to that user with all that waits for it.                                *)
MoveByRequest(s) ==
    LET p == [s.p EXCEPT !.request_done = TRUE, !.fraud = "normal"]
    IN  [s EXCEPT !.p = [p EXCEPT !.fraud = "moved"],
                  !.operations = BagAdd(@, Op("change", p.user_id, p))]

RequestDone(s, user, moveable) ==
    LET p == IF s.p = Nothing THEN Stub ELSE s.p
        done == Tell([s EXCEPT !.p = [p EXCEPT !.request_done = TRUE, !.user_id = user,
                                               !.notice_non_considered = FALSE]],
                     "request", "normal")
    IN  IF p.notice_non_considered \/ ~tracking.notice
        THEN ProcessNotice(done, moveable)
        ELSE done

(* process_request_buf_ *)
ProcessRequest(s, user, moveable) ==
    IF s.p # Nothing /\ (s.p.request_done \/ Moved(s.p)) THEN s
    ELSE IF moveable /\ s.p # Nothing /\ s.p.user_id \notin {Nothing, user}
    THEN MoveByRequest(s)
    ELSE RequestDone(s, user, moveable)

(* process_fraud_rollback_buf_ *)
ProcessFraudRollback(s) ==
    IF s.p = Nothing \/ s.p.fraud # "normal" THEN s
    ELSE LET p == s.p
             request == TellIf(s, p.request_done, "request", "fraud")
             impression == TellIf(request, p.request_done /\ p.impression_verified,
                                  "impression", "fraud")
             click == TellIf(impression, p.request_done /\ p.click_done, "click", "fraud")
         IN  [click EXCEPT !.p.fraud = "fraud"]

-----------------------------------------------------------------------------
(* change_request_user_id_: the profile that moved is taken apart into the *)
(* records it stands for, what has overtaken it and waits here in a stub   *)
(* is added, and all of them are processed anew on an empty profile. (The  *)
(* sum of the actions counts the arriving ones twice and forgets those     *)
(* that wait here, lines 1850-1851; the names of post impression actions   *)
(* that wait here are not looked at.)                                      *)

Waits(moved, old) ==
    LET stub == Opened(old)
        actions == moved.actions_non_considered + moved.actions_done
    IN  [notice |-> \/ moved.notice_received \/ moved.notice_non_considered
                    \/ stub.notice_non_considered,
         impressions |-> moved.impression_non_considered + stub.impression_non_considered,
         clicks |-> (IF moved.click_done THEN 1 ELSE 0)
                       + moved.click_non_considered + stub.click_non_considered,
         actions |-> IF old = Nothing \/ Moved(old) THEN actions ELSE 2 * actions]

(* The request is told anew: as RS_RESAVE if the sender has told it.       *)
RequestMoved(s, moved) ==
    LET first == RequestDone([s EXCEPT !.p = Nothing], moved.user_id, FALSE)
    IN  IF moved.fraud = "normal" THEN first
        ELSE [first EXCEPT !.told.request.normal = s.told.request.normal,
                           !.told.request.resave = @ + 1]

Less1(n) == IF n > 0 THEN n - 1 ELSE 0

ChangeRequestUser(s, moved) ==
    LET waits == Waits(moved, s.p)
        request == RequestMoved(s, moved)
        restored == [request EXCEPT !.p.impression_non_considered =
                                        IF waits.impressions > 0 \/ waits.clicks > 0
                                        THEN Less1(waits.impressions) ELSE @,
                                    !.p.click_non_considered =
                                        IF waits.clicks > 0 THEN waits.clicks - 1 ELSE @]
        impression == ProcessImpression(restored, moved.user_id, FALSE)
        notice == IF waits.notice THEN ProcessNotice(impression, FALSE) ELSE impression
        click == IF waits.clicks > 0 THEN ProcessClick(notice, FALSE) ELSE notice
        post == ProcessPostActions(click, moved.post_impression_actions)
    IN  ProcessActions(post, waits.actions)

-----------------------------------------------------------------------------
(* One transaction of owner o.                                             *)

At(o) == [p |-> profile[o], told |-> told, operations |-> operations]

SaveProfile(o, s) ==
    /\ profile' = [profile EXCEPT ![o] = s.p]
    /\ told' = s.told
    /\ operations' = s.operations

Arrive(record) ==
    /\ arrived' = [arrived EXCEPT ![record] = @ + 1]
    /\ arrived' \in Arrivals
    /\ UNCHANGED <<home, tracking>>

(* process_request *)
RequestRecord ==
    /\ Arrive("request")
    /\ SaveProfile(Entry, ProcessRequest(At(Entry), RequestUser, TRUE))

(* process_impression of a notice, of an impression without a user id or   *)
(* with that of the request, and of one with another user id. (A request   *)
(* whose impressions are not tracked is not moved: "tests with disabled    *)
(* impression track - can't be delegated", RequestInfoContainerTest.cpp.)  *)
Notice ==
    /\ Arrive("notice")
    /\ SaveProfile(Entry, ProcessNotice(At(Entry), TRUE))

Impression ==
    /\ Arrive("impression")
    /\ \E user \in {Nothing, RequestUser} :
          SaveProfile(Entry, ProcessImpression(At(Entry), user, TRUE))

ForeignImpression ==
    /\ tracking.impression
    /\ Arrive("foreign")
    /\ \E user \in User \ {RequestUser} :
          SaveProfile(Entry, ProcessImpression(At(Entry), user, TRUE))

(* process_action: AT_CLICK, AT_ACTION *)
Click ==
    /\ Arrive("click")
    /\ SaveProfile(Entry, ProcessClick(At(Entry), TRUE))

Action ==
    /\ Arrive("action")
    /\ SaveProfile(Entry, ProcessAction(At(Entry), TRUE))

(* process_impression_post_action *)
Post ==
    \E name \in PostAction :
       /\ Arrive(name)
       /\ SaveProfile(Entry, ProcessPostAction(At(Entry), name, TRUE))

(* AT_FRAUD_ROLLBACK: UserFraudProtectionContainer calls it for requests   *)
(* whose impression its container has told.                                *)
FraudRollback(o) ==
    /\ profile[o] # Nothing /\ profile[o].impression_verified
    /\ profile[o].fraud = "normal"
    /\ SaveProfile(o, ProcessFraudRollback(At(o)))
    /\ UNCHANGED <<home, tracking, arrived>>

(* RequestOperationProxy: an operation reaches the owner of its user id,   *)
(* at once or by a file.                                                   *)
Processed(s, op) ==
    CASE op.type = "change" -> ChangeRequestUser(s, op.arg)
      [] op.type = "notice" -> ProcessNotice(s, FALSE)
      [] op.type = "impression" -> ProcessImpression(s, op.user, FALSE)
      [] op.type = "click" -> ProcessClick(s, FALSE)
      [] op.type = "action" -> ProcessAction(s, FALSE)
      [] op.type = "post" -> ProcessPostAction(s, op.arg, FALSE)

Operation(op) ==
    LET o == home[op.user]
        taken == [At(o) EXCEPT !.operations = BagRemove(@, op)]
    IN  /\ SaveProfile(o, Processed(taken, op))
        /\ UNCHANGED <<home, tracking, arrived>>

RequestInit ==
    /\ home \in Homes
    /\ tracking \in Trackings
    /\ profile = [o \in Owner |-> Nothing]
    /\ operations = EmptyBag
    /\ told = [kind \in Kind |-> [state \in State |-> 0]]
    /\ arrived = [record \in Record |-> 0]

RequestNext ==
    \/ RequestRecord
    \/ Notice
    \/ Impression
    \/ ForeignImpression
    \/ Click
    \/ Action
    \/ Post
    \/ \E o \in Owner : FraudRollback(o)
    \/ \E op \in BagToSet(operations) : Operation(op)

RequestSpec == RequestInit /\ [][RequestNext]_requestVars

-----------------------------------------------------------------------------
(* Type invariant: the counters of a profile, unsigned in the code, never  *)
(* fall below zero, whatever is taken out of them on the way.              *)
RequestsTypeOK ==
    /\ home \in Homes /\ tracking \in Trackings
    /\ \A o \in Owner : profile[o] \in Profile \cup {Nothing}
    /\ told \in [Kind -> [State -> Nat]]
    /\ arrived \in [Record -> Nat]
    /\ \A op \in BagToSet(operations) : op.user \in User

(* A request that may have moved has had one request record: a stub may    *)
(* have taken the place of the profile RS_MOVED, and would tell a second   *)
(* one anew (RequestsAreTakenOnce).                                        *)
OneRequestMoves == arrived["foreign"] > 0 => arrived["request"] <= 1

(* The users of the request meet: all of them are at home with the owner   *)
(* that gets its records, or none but its own user.  Or else, when the     *)
(* request moves on from a second user, at home here, to a third one, what *)
(* is on its way to the second ends in a stub that nobody looks for        *)
(* (ClicksAreDelegated).                                                   *)
Together(h) == \A user \in User : h[user] = Entry
OwnersMeet == Together(home) \/ \A user \in User \ {RequestUser} : home[user] # Entry

(* What the calls amount to: RS_NORMAL and RS_RESAVE book, RS_FRAUD and    *)
(* RS_MOVED take back.                                                     *)
Net(kind) ==
    told[kind].normal + told[kind].resave - told[kind].fraud - told[kind].moved

RolledBack == \E o \in Owner : profile[o] # Nothing /\ profile[o].fraud = "fraud"

Impressions == arrived.impression + arrived.foreign
Noticed == arrived.request > 0 /\ (tracking.notice => arrived.notice > 0)
Shown == Noticed /\ (tracking.impression => Impressions > 0)
Clicked == Shown /\ arrived.click > 0

One(cond) == IF cond THEN 1 ELSE 0

OutcomeOfRequest == Net("request") = One(arrived.request > 0 /\ ~RolledBack)

OutcomeOfImpression ==
    /\ Net("impression") = One(Shown /\ ~RolledBack)
    /\ Shown /\ arrived.foreign = 0 =>
          told.impression.duplicate \in
             IF tracking.impression THEN {arrived.impression - 1}
             ELSE {arrived.impression, Less1(arrived.impression)}

OutcomeOfClick ==
    /\ Net("click") = One(Clicked /\ ~RolledBack)
    /\ told.click.duplicate = IF Clicked THEN arrived.click - 1 ELSE 0

OutcomeOfActions ==
    arrived.foreign = 0 =>
       told.action.normal = IF Clicked /\ tracking.action THEN arrived.action ELSE 0

OutcomeOfPostActions ==
    arrived.foreign = 0 =>
       told.post.normal = IF Shown THEN Cardinality({name \in PostAction : arrived[name] > 0}) ELSE 0

(* Once nothing is on its way between the RequestInfoManagers, what the    *)
(* processors were told of the request depends on the records that came    *)
(* and not on their order, their repetition or a move to another user:     *)
(* one request, one impression once the notice and the impression that     *)
(* the request tracks are there, one click once there is an impression,    *)
(* the others as duplicates (process_*_buf_, change_request_user_id_).     *)
(* That is what holds while OneRequestMoves and OwnersMeet do.             *)
OutcomeIsOrderFree ==
    OneRequestMoves /\ OwnersMeet /\ operations = EmptyBag =>
       /\ OutcomeOfRequest
       /\ OutcomeOfImpression
       /\ OutcomeOfClick
       /\ OutcomeOfActions
       /\ OutcomeOfPostActions

(* A rollback of a fraudulent request leaves nothing booked, not even for  *)
(* a click that comes after it (process_fraud_rollback_buf_ and the fraud  *)
(* state looked at by process_click_buf_), while OneRequestMoves.          *)
FraudNetsToZero ==
    OneRequestMoves /\ RolledBack => \A kind \in {"request", "impression", "click"} : Net(kind) = 0

(* At no time, moves and rollbacks under way included, is a request, its   *)
(* impression or its click booked twice or taken back without having been  *)
(* booked; what is moved counts as RS_NORMAL once in all its life, while   *)
(* OneRequestMoves.                                                        *)
BookedAtMostOnce ==
    OneRequestMoves => \A kind \in {"request", "impression", "click"} :
        Net(kind) \in 0..1 /\ told[kind].normal <= 1

(* "if request and impression will be received log it"                     *)
(* (RequestInfoContainer.cpp:3166): once the request is clicked, each of   *)
(* its actions is told once, moved to another user or not.                 *)
ActionsAreAllLogged ==
    operations = EmptyBag /\ Clicked /\ tracking.action
       => told.action.normal = arrived.action

(* "DOUBLES TEST (2*REQ -> 2*IMP -> 2*CLICK -> 2*ACT)"                     *)
(* (RequestInfoContainerTest.cpp:1333, run with and without delegation):   *)
(* a request that is logged twice is told as RS_NORMAL once.  This does not *)
(* hold, and no run has it: a stub may stand where the request has moved.   *)
RequestsAreTakenOnce == told["request"]["normal"] <= 1

(* "container should delegate all operations excluding requests"           *)
(* (RequestInfoContainerTest.cpp:1224): once nothing is on its way, a      *)
(* click on a request shown was told, whomever the request moved to.  This  *)
(* does not hold, and no run has it: a third user may have the request.     *)
ClicksAreDelegated ==
    operations = EmptyBag /\ OneRequestMoves /\ Clicked => told["click"]["normal"] = 1
=============================================================================
