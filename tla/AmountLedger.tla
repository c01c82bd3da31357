---------------------------- MODULE AmountLedger ----------------------------
(***************************************************************************)
(* The life of one AmountHolder in a billing server: bids and refunds are  *)
(* booked on their day, statistics from the database replace the old days, *)
(* the server stops, writes the holder to its storage and reads it back.   *)
(*                                                                         *)
(* RevenueDecimal has 18 digits: an addition whose result has more throws  *)
(* Overflow.  MaxAmount is the largest amount, 10^10 - 10^-8 in the code.  *)
(* RevenueDecimal belongs to a library that is not in this repository;     *)
(* OverflowStores says whether += has already stored its result when it    *)
(* throws, which add_amount's way of reverting depends on.                 *)
(***************************************************************************)
EXTENDS AmountHolder

CONSTANTS
    Amounts,      \* what one bid (positive) or refund (negative) books
    Sources,      \* what the statistics may say of this entity on a day
    StatDays,     \* days before today the statistics are complete for
    HistoryDays,  \* days the statistics keep apart: 60 in the code
    MaxAmount,
    OverflowStores,
    MaxDay        \* bound of the model: the largest magnitude of one day

(* Statistics tell whole amounts of days.                                  *)
ASSUME LedgerAssumption ==
    /\ Date # {} /\ Amounts \subseteq Int
    /\ StatDays \in Int /\ HistoryDays \in Nat /\ MaxAmount \in Nat
    /\ OverflowStores \in BOOLEAN
    /\ \A source \in Sources :
          /\ source # NoSource
          /\ DOMAIN source = {"prev_day", "prev_days_amount", "day_amounts"}
          /\ source.prev_days_amount \in Int
          /\ DOMAIN source.day_amounts \subseteq Date
          /\ source.day_amounts \in [DOMAIN source.day_amounts -> Int]

VARIABLES
    ledger,       \* AmountHolder::days
    current_day,  \* the current day
    outcome       \* what the last add_amount returned

ledgerVars == <<ledger, current_day, outcome>>

LedgerInit ==
    /\ ledger = NoDays
    /\ current_day = First(Date)
    /\ outcome = TRUE

InRange(x) == Magnitude(x) <= MaxAmount   \* no RevenueDecimal::Overflow

(* The additions of add_amount in the order it makes them: the amount of   *)
(* the day, its amount_before when the day is new, then amount_before of   *)
(* each later day.  Failing is the first one whose sum does not fit.       *)
Sums(date, amount) ==
    [d \in {d \in DOMAIN ledger \cup {date} : d >= date} |->
        IF d = date
        THEN {AmountOf(ledger, date) + amount, AmountBefore(ledger, date)}
        ELSE {ledger[d].amount_before + amount}]

Overflowing(date, amount) ==
    {d \in DOMAIN Sums(date, amount) : \E x \in Sums(date, amount)[d] : ~InRange(x)}

(* Mutant: the failing entry itself is not reverted. *)
RevertedAfterOverflow_FailingKept(date, amount) ==
    LET failed == First(Overflowing(date, amount))
    IN  [d \in DOMAIN ledger |->
            [ledger[d] EXCEPT !.amount_before =
                IF OverflowStores /\ d = failed /\ d > date THEN @ + amount ELSE @]]

(* The catch block takes the amount off again: from the day, and from      *)
(* amount_before of the entries from the failing one down to the day; an   *)
(* entry that was inserted is erased.                                      *)
RevertedAfterOverflow(date, amount) ==
    LET failed == First(Overflowing(date, amount))
        added == {d \in DOMAIN ledger : d > date /\ d < failed}
                   \cup (IF OverflowStores /\ failed > date THEN {failed} ELSE {})
        reverted == {d \in DOMAIN ledger : d > date /\ d <= failed}
        dayAdded == OverflowStores \/ InRange(AmountOf(ledger, date) + amount)
        If(b) == IF b THEN amount ELSE 0
    IN  [d \in DOMAIN ledger |->
            [amount |-> ledger[d].amount + (IF d = date THEN If(dayAdded) - amount ELSE 0),
             amount_before |->
                ledger[d].amount_before + If(d \in added) - If(d \in reverted)]]

(* AmountHolder::add_amount: a bid that confirm_bid books. Bids reach the  *)
(* server at most HistoryDays late.                                        *)
Add(date, amount) ==
    /\ date <= current_day /\ date > current_day - HistoryDays
    /\ Magnitude(AmountOf(ledger, date) + amount) <= MaxDay
    /\ IF Overflowing(date, amount) = {}
       THEN ledger' = AddAmount(ledger, date, amount) /\ outcome' = TRUE
       ELSE ledger' = RevertedAfterOverflow(date, amount) /\ outcome' = FALSE
    /\ UNCHANGED current_day

(* What the statistics say on a day: BillStatDBSource sums up the days     *)
(* that are HistoryDays old under prev_day.                                *)
StatOfDay(source) ==
    IF source = NoSource THEN NoSource
    ELSE [source EXCEPT
            !.prev_day = IF source.prev_days_amount = 0 THEN 0 ELSE current_day - HistoryDays,
            !.day_amounts =
                [d \in {d \in DOMAIN source.day_amounts :
                          d > current_day - HistoryDays /\ d <= current_day} |->
                    source.day_amounts[d]]]

(* replace_amount_ with the statistics of the day. The sums it reads fit   *)
(* into a RevenueDecimal.                                                  *)
SettleDays(source) ==
    /\ source # NoSource /\ source.prev_days_amount # 0 =>
          current_day - HistoryDays \in Date
    /\ ledger' = ReplaceAmount(ledger, StatOfDay(source), current_day - StatDays)
    /\ InRange(TotalAmount(ledger'))
    /\ UNCHANGED <<current_day, outcome>>

NextDay ==
    /\ current_day + 1 \in Date
    /\ current_day' = current_day + 1
    /\ UNCHANGED <<ledger, outcome>>

(* Dump at shutdown, load at the next start. An entity without days is not *)
(* in the map and has no line.                                             *)
Restart ==
    /\ ledger' = IF DOMAIN ledger = {} THEN NoDays ELSE LoadHolder(SaveHolder(ledger))
    /\ UNCHANGED <<current_day, outcome>>

LedgerNext ==
    \/ \E date \in Date, amount \in Amounts : Add(date, amount)
    \/ \E source \in Sources \cup {NoSource} : SettleDays(source)
    \/ NextDay
    \/ Restart

LedgerSpec == LedgerInit /\ [][LedgerNext]_ledgerVars

-----------------------------------------------------------------------------

(* The running totals stay what the comment on DayAmount says they are,    *)
(* whatever the order in which bids of old and new days, refunds and       *)
(* statistics arrive: amount_before is the total of the day before.        *)
RunningTotals == PrefixSums(ledger)

(* A restart changes no day and no total: the dump of a holder, which has  *)
(* only the first amount_before, holds all that the holder holds.          *)
RestartKeepsBooks == [][Restart => ledger' = ledger]_ledgerVars

(* An add_amount that fails says so and leaves the holder as it was        *)
(* ("revert all changes"): all additions made before the one that did not  *)
(* fit are taken back.                                                     *)
FailedAddChangesNothing ==
    [][\A date \in Date, amount \in Amounts :
          Add(date, amount) /\ ~outcome' => ledger' = ledger]_ledgerVars

(* Every operation acts on the carried sum and on the money of each day as *)
(* DayLedger says: a bid changes one day, and statistics never touch a day *)
(* that is not yet settled.                                                *)
carried == IF DOMAIN ledger = {} THEN 0 ELSE ledger[First(DOMAIN ledger)].amount_before
daily == [d \in DOMAIN ledger |-> ledger[d].amount]
Ledger == INSTANCE DayLedger WITH carried <- carried, daily <- daily, today <- current_day,
                                 StatDelay <- StatDays

ImplementsDayLedger == Ledger!Spec
=============================================================================
