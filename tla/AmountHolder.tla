---------------------------- MODULE AmountHolder ----------------------------
(***************************************************************************)
(* The books a billing server keeps for one account, campaign or creative  *)
(* group: BillingContainer::State::AmountHolder, a std::map from a day to  *)
(* the money spent on that day and the money spent before it.  The map is  *)
(* a function whose domain is the set of days present.                     *)
(*                                                                         *)
(* Money is an integer number of the smallest unit of RevenueDecimal       *)
(* (10^-8); days are numbered from 1, and 0 is Generics::Time::ZERO.       *)
(***************************************************************************)
EXTENDS Sums

CONSTANTS
    Date,           \* the days an amount can be booked on
    Unit,           \* RevenueDecimal(1): 10^8 in the code
    LimitsDivider   \* number of billing servers the budgets are divided by

(* A std::map is finite: a non-empty set of its keys has a first and a     *)
(* last element (begin and rbegin).                                        *)
ASSUME DateAssumption ==
    /\ Date \subseteq Nat \ {0}
    /\ \A S \in SUBSET Date : S # {} =>
          /\ \E d \in S : \A e \in S : d <= e
          /\ \E d \in S : \A e \in S : e <= d

ASSUME UnitAssumption == Unit \in Nat \ {0} /\ LimitsDivider \in Nat \ {0}

First(S) == CHOOSE d \in S : \A e \in S : d <= e
Last(S)  == CHOOSE d \in S : \A e \in S : e <= d

DayAmount == [amount_before : Int, amount : Int]

IsHolder(days) == \E S \in SUBSET Date : days \in [S -> DayAmount]

NoDays == [d \in {} |-> 0]

-----------------------------------------------------------------------------
(* RevenueDecimal keeps sign and magnitude; div and mul with DMR_FLOOR     *)
(* drop the digits below 10^-8 of the magnitude.                           *)

Magnitude(x) == IF x < 0 THEN -x ELSE x

Signed(x, m) == IF x < 0 THEN -m ELSE m

(* RevenueDecimal::div(part, whole) of amounts of one sign, in Units. *)
Share(part, whole) == (Magnitude(part) * Unit) \div Magnitude(whole)

(* RevenueDecimal::mul(share, x, DMR_FLOOR). *)
MulFloor(share, x) == Signed(x, (share * Magnitude(x)) \div Unit)

(* limit_coef_ : the part of every budget that one server answers for. *)
LimitCoef == Unit \div LimitsDivider

-----------------------------------------------------------------------------

TotalAmount(days) ==
    IF DOMAIN days = {} THEN 0
    ELSE LET last == days[Last(DOMAIN days)]
         IN  last.amount_before + last.amount

AmountOf(days, date) ==
    IF date \in DOMAIN days THEN days[date].amount ELSE 0

Earlier(days, date) == {d \in DOMAIN days : d < date}

(* amount_before of an entry for date: a new entry takes the total of its  *)
(* predecessor, and nothing when it becomes the first one.                 *)
AmountBefore(days, date) ==
    IF date \in DOMAIN days THEN days[date].amount_before
    ELSE IF Earlier(days, date) = {} THEN 0
    ELSE LET p == days[Last(Earlier(days, date))]
         IN  p.amount_before + p.amount

(* Mutant: the days after date keep their running total. *)
AddAmount_LaterDaysMissed(days, date, amount) ==
    [d \in DOMAIN days \cup {date} |->
        IF d = date
        THEN [amount_before |-> AmountBefore(days, date),
              amount |-> AmountOf(days, date) + amount]
        ELSE days[d]]

(* add_amount: the day gains the amount, and every later day starts later. *)
AddAmount(days, date, amount) ==
    [d \in DOMAIN days \cup {date} |->
        IF d = date
        THEN [amount_before |-> AmountBefore(days, date),
              amount |-> AmountOf(days, date) + amount]
        ELSE [days[d] EXCEPT !.amount_before = IF d > date THEN @ + amount ELSE @]]

AddPrevDaysAmount(days, amount) ==
    [d \in DOMAIN days |-> [days[d] EXCEPT !.amount_before = @ + amount]]

-----------------------------------------------------------------------------
(* Statistics read back from the database: prev_days_amount is the sum up  *)
(* to prev_day, day_amounts what was spent on each later day, over all     *)
(* servers.  NoSource is an entity the statistics do not mention.          *)

CONSTANT NoSource

SourceDays(source, end) == {d \in DOMAIN source.day_amounts : d < end}

SourceSum(source, days) ==
    MulFloor(LimitCoef, source.prev_days_amount)
      + SumOver([d \in days |-> MulFloor(LimitCoef, source.day_amounts[d])], days)

SourceBefore(source, date) == SourceSum(source, SourceDays(source, date))

(* Mutant: upper_bound in place of lower_bound. *)
FreshDays_UpperBound(days, end) ==
    LET fresh == {d \in DOMAIN days : d > end}
    IN  [d \in fresh |->
            [days[d] EXCEPT !.amount_before =
                @ - days[First(fresh)].amount_before]]

(* Local days not older than end, as if nothing had been spent before. *)
FreshDays(days, end) ==
    LET fresh == {d \in DOMAIN days : d >= end}
    IN  [d \in fresh |->
            [days[d] EXCEPT !.amount_before =
                @ - days[First(fresh)].amount_before]]

(* replace_amount_: days older than end come from the source, the others   *)
(* stay; a source that starts at end or later replaces nothing.            *)
ReplaceAmount(days, source, end) ==
    IF source = NoSource THEN FreshDays(days, end)
    ELSE IF source.prev_day >= end THEN days
    ELSE LET kept == AddPrevDaysAmount(FreshDays(days, end), SourceBefore(source, end))
             prev == IF source.prev_day = 0 THEN {} ELSE {source.prev_day}
         IN  [d \in DOMAIN kept \cup prev \cup SourceDays(source, end) |->
                 IF d \in DOMAIN kept THEN kept[d]
                 ELSE [amount_before |-> SourceBefore(source, d),
                       amount |-> IF d \in prev THEN 0
                                  ELSE MulFloor(LimitCoef, source.day_amounts[d])]]

-----------------------------------------------------------------------------
(* Mutant: the last running total is saved, not the first. *)
SaveHolder_LastBefore(days) ==
    [amounts |-> [d \in DOMAIN days |-> days[d].amount],
     before  |-> IF DOMAIN days = {} THEN 0 ELSE days[Last(DOMAIN days)].amount_before]

(* save_amounts_ writes the amount of every day and then, under the zero   *)
(* date, the amount before the first of them; load_amounts_ books the days *)
(* again in that order and adds the last line in front of them.            *)

SaveHolder(days) ==
    [amounts |-> [d \in DOMAIN days |-> days[d].amount],
     before  |-> IF DOMAIN days = {} THEN 0 ELSE days[First(DOMAIN days)].amount_before]

Loaded(file) ==
    LET loaded[S \in SUBSET DOMAIN file.amounts] ==
            IF S = {} THEN NoDays
            ELSE AddAmount(loaded[S \ {Last(S)}], Last(S), file.amounts[Last(S)])
    IN  loaded[DOMAIN file.amounts]

LoadHolder(file) == AddPrevDaysAmount(Loaded(file), file.before)

-----------------------------------------------------------------------------

(* "amount_before + amount = total amount on this day": every day starts   *)
(* where the day before it ended.                                          *)
PrefixSums(days) ==
    \A d \in DOMAIN days : Earlier(days, d) # {} =>
        LET p == days[Last(Earlier(days, d))]
        IN  days[d].amount_before = p.amount_before + p.amount
=============================================================================
