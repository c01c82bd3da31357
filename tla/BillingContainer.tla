-------------------------- MODULE BillingContainer --------------------------
(***************************************************************************)
(* A billing server: books and limits of accounts, campaigns and creative  *)
(* groups, and the calls that check and change them.  A call takes the     *)
(* lock of one map at a time, so calls, configuration updates and the      *)
(* statistics task interleave between any two levels.                      *)
(*                                                                         *)
(* Abstracted: amounts never overflow (AmountLedger has that); clicks go   *)
(* the way of imps; the free budget of the CTR optimizer is zero, so rate  *)
(* amounts only accumulate; statistics replace the entities of one level   *)
(* under one lock (REPLACE_PORTION_SIZE_ is 100 entities per lock).        *)
(***************************************************************************)
EXTENDS DeliveryLimits

CONSTANTS
    Id,          \* ids of accounts, campaigns and creative groups
    Bids,        \* the confirm_bid calls that are made, each of them once
    Configs,     \* the configurations the campaign server may send
    Stats,       \* the statistics the database may hold
    Now,         \* get_time_of_day() when the statistics are applied
    StatDelay,   \* stat_delay_, in parts of a day
    MaxOffset    \* the largest time offset: 14 hours, in parts of a day

Level == {"account", "campaign", "ccg"}

EntityId(b, level) ==
    CASE level = "account"  -> b.account_id
      [] level = "campaign" -> b.campaign_id
      [] level = "ccg"      -> b.ccg_id

Requested(b, level) == IF level = "account" THEN b.account_amount ELSE b.amount

(* What the campaign server sends: of an account a budget, of a campaign   *)
(* or group its delivery limits, and None for an id it does not know.      *)
ConfigTraits(level) ==
    IF level = "account"
    THEN [budget : Int, time_offset : Int, active : BOOLEAN]
    ELSE [budget : Int \cup {None}, daily_budget : Int \cup {None},
          delivery_pacing : {"F", "D", "U"}, date_end : Int,
          time_offset : Int, active : BOOLEAN]

ASSUME ConfigAssumption ==
    \A new \in Configs :
        /\ DOMAIN new = Level
        /\ \A level \in Level : new[level] \in [Id -> ConfigTraits(level) \cup {None}]

ASSUME IdAssumption == Id \subseteq Nat

(* Whatever configuration is in force, a bid is booked on a day.           *)
ASSUME BidAssumption ==
    /\ IsFiniteSet(Bids)
    /\ Bids \subseteq [id : Nat, time : Int, account_id : Id, campaign_id : Id, ccg_id : Id,
                       account_amount : Int, amount : Int, imps : Int, forced : BOOLEAN]
    /\ \A b \in Bids :
          /\ b.time \div DayLength \in Date
          /\ \A new \in Configs, level \in Level :
                LET limits == new[level][EntityId(b, level)]
                IN  limits # None => (b.time + limits.time_offset) \div DayLength \in Date

(* Statistics tell whole amounts of days, prev_day before all of them (the *)
(* assertion in replace_amount_); without a prev_day there is no amount    *)
(* before (set_prev_day_amount of BillStatDBSource).                       *)
ASSUME StatAssumption ==
    /\ Now \in Int /\ StatDelay \in Int /\ MaxOffset \in Int
    /\ \A source \in Stats :
          /\ DOMAIN source = Level
          /\ \A level \in Level, id \in Id :
                LET s == source[level][id]
                IN  /\ DOMAIN source[level] = Id
                    /\ s # NoSource =>
                          /\ DOMAIN s = {"prev_day", "prev_days_amount", "day_amounts"}
                          /\ s.prev_day \in Date \cup {0}
                          /\ s.prev_days_amount \in Int
                          /\ DOMAIN s.day_amounts \subseteq Date
                          /\ s.day_amounts \in [DOMAIN s.day_amounts -> Int]
                          /\ \A d \in DOMAIN s.day_amounts : s.prev_day < d
                          /\ s.prev_day = 0 => s.prev_days_amount = 0

VARIABLES
    config,    \* config_: None until the first configuration arrives
    books,     \* State::accounts, campaigns and ccgs; no days is no entry
    imps,      \* State::ccg_rate_amounts of a campaign and a group
    call,      \* the progress of every confirm_bid call
    stat,      \* the statistics task
    booked,    \* history: what each call has added to the books
    aborted    \* the assertion in revert_confirmed_bid_ has failed

vars == <<config, books, imps, call, stat, booked, aborted>>

Zero == [level \in Level |-> 0]
NoAccount == [budget |-> 0, time_offset |-> 0, active |-> FALSE]
NoLimits == [budget |-> None, daily_budget |-> None, delivery_pacing |-> "F",
             adv_tz_date_end |-> 0, time_offset |-> 0, active |-> FALSE]
Traits(level) == IF level = "account" THEN NoAccount ELSE NoLimits
NoTraits == [level \in Level |-> Traits(level)]

NewCall == [pc |-> "new", limits |-> NoTraits, available |-> Zero,
            confirmed |-> Zero, revert |-> Zero, ok |-> TRUE, imps |-> 0]

Init ==
    /\ config = None
    /\ books = [level \in Level |-> [id \in Id |-> NoDays]]
    /\ imps = [campaign \in Id |-> [ccg \in Id |-> 0]]
    /\ call = [b \in Bids |-> NewCall]
    /\ stat = None
    /\ booked = [b \in Bids |-> Zero]
    /\ aborted = FALSE

-----------------------------------------------------------------------------
(* config: the new limits are the server's part of those received. *)

Adapt(level, traits) ==
    IF traits = None THEN None
    ELSE IF level = "account" THEN AdaptAccount(traits)
    ELSE AdaptDeliveryLimits(traits)

Config(new) ==
    /\ ~aborted
    /\ config' = [level \in Level |-> [id \in Id |-> Adapt(level, new[level][id])]]
    /\ UNCHANGED <<books, imps, call, stat, booked, aborted>>

(* resolve_bid, and for a forced bid the default traits of what it misses. *)
Limits(b, level) ==
    IF config # None /\ config[level][EntityId(b, level)] # None
    THEN config[level][EntityId(b, level)]
    ELSE Traits(level)

Resolved(b) ==
    config # None /\ \A level \in Level : config[level][EntityId(b, level)] # None

(* check_available_bid; the advertiser is the account. *)
CheckAvailableBid(b) ==
    /\ Resolved(b)
    /\ \A level \in Level : Limits(b, level).active
    /\ AccountAvailable(Limits(b, "account"), books["account"][b.account_id])
    /\ \A level \in {"campaign", "ccg"} :
          Available(Limits(b, level), books[level][EntityId(b, level)], b.time)

-----------------------------------------------------------------------------
(* confirm_bid *)

(* Without a configuration, or with an entity that is not in it, a bid     *)
(* that is not forced is answered at once and nothing is booked.           *)
Begin(b) ==
    /\ ~aborted
    /\ call[b].pc = "new"
    /\ call' = [call EXCEPT ![b] =
          IF b.forced \/ Resolved(b)
          THEN [@ EXCEPT !.pc = "account",
                         !.limits = [level \in Level |-> Limits(b, level)],
                         !.available = [level \in Level |-> Requested(b, level)],
                         !.imps = b.imps]
          ELSE [@ EXCEPT !.pc = "done", !.ok = FALSE]]
    /\ UNCHANGED <<config, books, imps, stat, booked, aborted>>

(* recalc_remind_amounts_: every level goes down to the smallest share     *)
(* confirmed so far; the levels in done give back what they have above it. *)
MinShare(b, c, done) ==
    First({Unit} \cup {Share(c.confirmed[level], Requested(b, level)) :
                          level \in {l \in done : Requested(b, l) # 0}})

RecalcRemindAmounts(b, c, done) ==
    LET target == [level \in Level |->
                      MulFloor(MinShare(b, c, done), Requested(b, level))]
    IN  [c EXCEPT
          !.revert = [level \in Level |->
              IF level \in done /\ target[level] # c.confirmed[level]
              THEN c.confirmed[level] - target[level]
              ELSE @[level]],
          !.available = [level \in Level |->
              IF level \in done THEN 0 ELSE target[level]]]

Book(b, level, amount) ==
    /\ books' = IF amount = 0 THEN books
                ELSE [books EXCEPT ![level][EntityId(b, level)] =
                        AddAmount(@, AdvDate(call[b].limits[level], b.time), amount)]
    /\ booked' = [booked EXCEPT ![b][level] = @ + amount]

Done(level) ==
    CASE level = "account"  -> {"account"}
      [] level = "campaign" -> {"account", "campaign"}
      [] level = "ccg"      -> Level

After(level) ==
    CASE level = "account"  -> "campaign"
      [] level = "campaign" -> "ccg"
      [] level = "ccg"      -> "rate"

(* One level is confirmed, result saying how much of what is available; a  *)
(* failure of a bid that is not forced takes the other levels with it.     *)
Confirm(b, level, result) ==
    LET c == [call[b] EXCEPT !.pc = After(level),
                             !.confirmed[level] = result.confirmed,
                             !.ok = @ /\ result.ok]
    IN  /\ ~aborted
        /\ call[b].pc = level
        /\ call[b].available[level] # 0
        /\ Book(b, level, result.confirmed)
        /\ call' = [call EXCEPT ![b] =
              IF result.ok \/ b.forced THEN c
              ELSE RecalcRemindAmounts(b, c, Done(level))]
        /\ UNCHANGED <<config, imps, stat, aborted>>

ConfirmAccount(b) ==
    Confirm(b, "account",
        ConfirmAccountAmount(call[b].limits["account"], books["account"][b.account_id],
                             call[b].available["account"], b.forced))

ConfirmBid(b, level) ==
    Confirm(b, level,
        ConfirmAmount(call[b].limits[level], books[level][EntityId(b, level)],
                      b.time, call[b].available[level], b.forced))

(* Nothing is available for the level. *)
Skip(b, level) ==
    /\ ~aborted
    /\ call[b].pc = level
    /\ call[b].available[level] = 0
    /\ call' = [call EXCEPT ![b].pc = After(level)]
    /\ UNCHANGED <<config, books, imps, stat, booked, aborted>>

(* The end of a call drops the limits it worked with. *)
Settled(c) ==
    IF \E level \in Level : c.revert[level] # 0
    THEN [c EXCEPT !.pc = "revert"]
    ELSE [c EXCEPT !.pc = "done", !.limits = NoTraits]

(* confirm_bid_rate_: the imps of the share the group has confirmed. *)
ConfirmBidRate(b) ==
    LET c == call[b]
        confirmed == IF b.amount = 0 THEN b.imps
                     ELSE MulFloor(Share(c.confirmed["ccg"], b.amount), b.imps)
    IN  /\ ~aborted
        /\ c.pc = "rate"
        /\ imps' = [imps EXCEPT ![b.campaign_id][b.ccg_id] = @ + confirmed]
        /\ call' = [call EXCEPT ![b] = Settled([c EXCEPT !.imps = @ - confirmed])]
        /\ UNCHANGED <<config, books, stat, booked, aborted>>

(* revert_confirmed_bid_, for the group, then the campaign, then the       *)
(* account. The group's confirmed amount is not used any more.             *)
NextRevert(c) ==
    IF c.revert["ccg"] # 0 THEN "ccg"
    ELSE IF c.revert["campaign"] # 0 THEN "campaign"
    ELSE "account"

RevertConfirmedBid(b) ==
    LET c == call[b]
        level == NextRevert(c)
    IN  /\ ~aborted
        /\ c.pc = "revert"
        /\ IF books[level][EntityId(b, level)] = NoDays
           THEN aborted' = TRUE /\ UNCHANGED <<books, call, booked>>
           ELSE /\ Book(b, level, -c.revert[level])
                /\ call' = [call EXCEPT ![b] = Settled(
                      [c EXCEPT !.revert[level] = 0,
                                !.confirmed[level] = @ - c.revert[level]])]
                /\ UNCHANGED aborted
        /\ UNCHANGED <<config, imps, stat>>

(* What the caller gets back: the parts of the bid that are not confirmed. *)
AccountRemainder(b) == b.account_amount - call[b].confirmed["account"]

(* Mutant: the group's amount is answered for the campaign. *)
Remainder_OfGroup(b) == b.amount - call[b].confirmed["ccg"]

Remainder(b) == b.amount - call[b].confirmed["campaign"]

-----------------------------------------------------------------------------
(* stat: replace_amounts_ walks through the local entities and the source  *)
(* together, one level after the other, with the offsets of the            *)
(* configuration that was there when the task began.                       *)

Stat(source) ==
    /\ ~aborted
    /\ stat = None
    /\ stat' = [source |-> source, config |-> config, level |-> "account"]
    /\ UNCHANGED <<config, books, imps, call, booked, aborted>>

(* The entity whose time offset is used: the local one the walk has come   *)
(* to, which is not the source's when that one is new here.                *)
OffsetEntity(local, id) ==
    IF \E l \in local : l >= id THEN First({l \in local : l >= id}) ELSE id

(* Mutant: the delay is added. *)
UseSourceEndDate_Ahead(limits) ==
    (Now + StatDelay + (IF limits = None THEN -MaxOffset ELSE limits.time_offset))
        \div DayLength

UseSourceEndDate(limits) ==
    (Now - StatDelay + (IF limits = None THEN -MaxOffset ELSE limits.time_offset))
        \div DayLength

ReplaceAmounts ==
    LET level == stat.level
        local == {id \in Id : books[level][id] # NoDays}
        limits(id) == IF stat.config = None THEN None
                      ELSE stat.config[level][OffsetEntity(local, id)]
    IN  /\ ~aborted
        /\ stat # None
        /\ books' = [books EXCEPT ![level] =
              [id \in Id |-> ReplaceAmount(@[id], stat.source[level][id],
                                           UseSourceEndDate(limits(id)))]]
        /\ stat' = CASE level = "account"  -> [stat EXCEPT !.level = "campaign"]
                     [] level = "campaign" -> [stat EXCEPT !.level = "ccg"]
                     [] level = "ccg"      -> None
        /\ UNCHANGED <<config, imps, call, booked, aborted>>

-----------------------------------------------------------------------------

CallNext(b) ==
    \/ Begin(b)
    \/ ConfirmAccount(b)
    \/ \E level \in {"campaign", "ccg"} : ConfirmBid(b, level)
    \/ \E level \in Level : Skip(b, level)
    \/ ConfirmBidRate(b)
    \/ RevertConfirmedBid(b)

Next ==
    \/ \E new \in Configs : Config(new)
    \/ \E b \in Bids : CallNext(b)
    \/ \E source \in Stats : Stat(source)
    \/ ReplaceAmounts

Spec == Init /\ [][Next]_vars

-----------------------------------------------------------------------------

LimitsOf(level) == IF level = "account" THEN AccountLimits ELSE EntityLimits

AnyLimits == AccountLimits \cup EntityLimits

ConfigType ==
    {c \in [Level -> [Id -> AnyLimits \cup {None}]] :
        \A level \in Level, id \in Id : c[level][id] \in LimitsOf(level) \cup {None}}

(* No configuration is not a configuration. *)
ASSUME ConfigNoneAssumption == None \notin ConfigType

LimitsType ==
    {l \in [Level -> AnyLimits] : \A level \in Level : l[level] \in LimitsOf(level)}

CallType ==
    [pc : {"new", "rate", "revert", "done"} \cup Level,
     limits : LimitsType,
     available : [Level -> Int], confirmed : [Level -> Int], revert : [Level -> Int],
     ok : BOOLEAN, imps : Int]

AreBooks(bs) ==
    /\ bs = [level \in Level |-> [id \in Id |-> bs[level][id]]]
    /\ \A level \in Level, id \in Id : IsHolder(bs[level][id])

TypeOK ==
    /\ config \in ConfigType \cup {None}
    /\ AreBooks(books)
    /\ imps \in [Id -> [Id -> Int]]
    /\ call \in [Bids -> CallType]
    /\ stat \in [source : Stats, config : ConfigType \cup {None}, level : Level] \cup {None}
    /\ booked \in [Bids -> [Level -> Int]]
    /\ aborted \in BOOLEAN

-----------------------------------------------------------------------------

Answered(b) == call[b].pc = "done"

(* The days that no statistics settle, under any limits an entity may have, *)
(* and the entities whose bids all come on such days.                      *)
KnownLimits(level, id) ==
    ({Traits(level)} \cup {known[level][id] : known \in Configs}) \ {None}

OpenDays(level, id) ==
    {d \in Date : Stats # {} =>
        \A limits \in KnownLimits(level, id) \cup {None} : d >= UseSourceEndDate(limits)}

BidsStayOpen(level, id) ==
    \A b \in Bids : EntityId(b, level) = id =>
        \A limits \in KnownLimits(level, id) : AdvDate(limits, b.time) \in OpenDays(level, id)

(* No bid comes for a day that the statistics settle.                      *)
DaysOpen == \A level \in Level, id \in Id : BidsStayOpen(level, id)

(* An entity that only the statistics know is settled with the offset of   *)
(* the local one the walk has come to, which is a later one: the days that *)
(* are open for an entity are open for the later ones too.                 *)
ZonesAgree ==
    \A level \in Level, id \in Id, other \in Id :
        other >= id => OpenDays(level, id) \subseteq OpenDays(level, other)

(* No bid comes for a day that the statistics sum up under prev_day: those *)
(* are older than 60 days.                                                 *)
BidDays(level, id) ==
    {AdvDate(limits, b.time) : limits \in KnownLimits(level, id),
                               b \in {c \in Bids : EntityId(c, level) = id}}

BidsInHistory ==
    \A source \in Stats, level \in Level, id \in Id :
        LET s == source[level][id]
        IN  s # NoSource => \A date \in BidDays(level, id) : s.prev_day <= date

(* An entity whose limits stay what they are, whose bids are neither       *)
(* forced nor refunds, and which the statistics leave alone never passes   *)
(* its budget, and nothing below zero is booked for it, whatever the calls *)
(* confirm, cut and give back between each other's steps.                  *)
Entities == {[level |-> level, id |-> id] : level \in Level, id \in Id}

Steady ==
    {e \in Entities :
        /\ \A known, other \in Configs : known[e.level][e.id] = other[e.level][e.id]
        /\ \A b \in Bids : EntityId(b, e.level) = e.id =>
                ~b.forced /\ b.account_amount >= 0 /\ b.amount >= 0
        /\ BidsStayOpen(e.level, e.id)
        /\ \A source \in Stats : source[e.level][e.id] = NoSource}

BooksWithinBudget ==
    \A e \in Steady :
        LET level == e.level
            limits == config[level][e.id]
            days == books[level][e.id]
        IN  /\ \A d \in DOMAIN days : days[d].amount >= 0
            /\ config # None /\ limits # None =>
                  /\ limits.budget # None /\ TotalAmount(days) > 0 =>
                        TotalAmount(days) <= limits.budget
                  /\ level # "account" /\ limits.delivery_pacing = "F" =>
                        \A d \in DOMAIN days :
                            limits.daily_budget # None /\ days[d].amount > 0 =>
                                days[d].amount <= limits.daily_budget

(* A step that books at a level keeps to the limits of its call.           *)
KeepsLimits(b, level) ==
    LET limits == call[b].limits[level]
        days == books[level][EntityId(b, level)]'
        date == AdvDate(limits, b.time)
    IN  ~b.forced /\ call[b].pc = level =>
          /\ booked'[b][level] > booked[b][level] /\ limits.budget # None =>
                TotalAmount(days) <= limits.budget
          /\ booked'[b][level] > booked[b][level] /\ level # "account" =>
                (limits.delivery_pacing = "F" /\ limits.daily_budget # None =>
                   AmountOf(days, date) <= limits.daily_budget)
          /\ booked'[b][level] < booked[b][level] /\ level # "account" =>
                (CheckRequired(limits) =>
                   AmountOf(days, date) >= 0 /\ TotalAmount(days) >= 0)

(* Money a bid is charged or refunded keeps to the limits the call began   *)
(* with: after a charge no more than the budget is spent, and a refund     *)
(* leaves nothing below zero where the limits are checked. Only forced     *)
(* bids, amounts given back after a refusal and statistics may break this. *)
ChargesStayWithinLimits ==
    [][\A b \in Bids, level \in Level : KeepsLimits(b, level)]_vars

(* The remainders the callers are answered are what the books do not hold: *)
(* when all calls are answered, an account or campaign whose bids all come *)
(* on days that statistics do not settle has been charged exactly what was *)
(* requested for it and not handed back.                                   *)
RepliesAddUp ==
    (\A b \in Bids : call[b].pc \in {"new", "done"}) =>
        \A level \in {"account", "campaign"}, id \in Id :
            LET charged == [b \in Bids |->
                    IF call[b].pc # "done" \/ EntityId(b, level) # id THEN 0
                    ELSE IF level = "account" THEN b.account_amount - AccountRemainder(b)
                    ELSE b.amount - Remainder(b)]
                held == [d \in OpenDays(level, id) |-> AmountOf(books[level][id], d)]
            IN  BidsStayOpen(level, id) =>
                    SumOver(held, OpenDays(level, id)) = SumOver(charged, Bids)

(* Campaign and group are never given a larger share of a bid than the     *)
(* account has been charged for: a cut at the account reaches both.        *)
AccountPaysForDelivery ==
    \A b \in Bids :
        Answered(b) /\ ~b.forced /\ b.account_amount # 0 =>
            \A level \in {"campaign", "ccg"} :
                Magnitude(booked[b][level]) * Magnitude(b.account_amount)
                  <= (Magnitude(booked[b]["account"]) + 1) * Magnitude(b.amount)

(* check_available_bid and confirm_bid agree: a bid of active entities is  *)
(* available exactly when every level would confirm a part of it by now.   *)
CheckAgreesWithConfirm ==
    \A b \in Bids :
        LET limits(level) == Limits(b, level)
            days(level) == books[level][EntityId(b, level)]
            confirmed(level) ==
                IF level = "account"
                THEN ConfirmAccountAmount(limits(level), days(level), b.account_amount, FALSE)
                ELSE ConfirmAmount(limits(level), days(level), b.time, b.amount, FALSE)
        IN  /\ Resolved(b) /\ \A level \in Level : limits(level).active
            /\ b.account_amount > 0 /\ b.amount > 0
            => (CheckAvailableBid(b) <=> \A level \in Level : confirmed(level).confirmed > 0)

(* The assertion of revert_confirmed_bid_: the entity a call has booked on *)
(* is still there when the call gives an amount back, although statistics  *)
(* may have dropped old days in between.                                   *)
RevertFindsEntry == ~aborted

(* Statistics never touch a local day that is not old enough in the time   *)
(* zone of its account, campaign or group.                                 *)
FreshDaysSurviveStatistics ==
    [][\A level \in Level, id \in Id :
         stat # None /\ books[level]'[id] # books[level][id] /\ stat' # stat
           /\ books[level][id] # NoDays =>
             LET limits == IF stat.config = None THEN None ELSE stat.config[level][id]
             IN  \A d \in Date : d >= UseSourceEndDate(limits) =>
                    AmountOf(books[level]'[id], d) = AmountOf(books[level][id], d)]_vars
=============================================================================
