--------------------------- MODULE DeliveryLimits ---------------------------
(***************************************************************************)
(* How much of a bid the limits of an account, a campaign or a creative    *)
(* group let through: DeliveryLimitsChecker and confirm_account_bid_ of    *)
(* BillingContainer, as functions of the limits and the holder.            *)
(*                                                                         *)
(* Limits of a campaign or creative group are records                      *)
(*   [budget, daily_budget, delivery_pacing, adv_tz_date_end, time_offset] *)
(* where an absent optional is None, delivery_pacing is "F" (fixed daily   *)
(* budget), "D" (dynamic daily budget) or "U", and adv_tz_date_end = 0     *)
(* means no end.  An account has a budget and a time_offset only.          *)
(***************************************************************************)
EXTENDS AmountHolder

CONSTANTS
    None,
    DayLength   \* time is counted in parts of a day: 86400 in the code

AccountLimits == [budget : Int, time_offset : Int, active : BOOLEAN]

EntityLimits ==
    [budget : Int \cup {None}, daily_budget : Int \cup {None},
     delivery_pacing : {"F", "D", "U"}, adv_tz_date_end : Int,
     time_offset : Int, active : BOOLEAN]

(* An absent optional is neither an amount nor limits. *)
ASSUME NoneAssumption ==
    /\ None \notin Int /\ None \notin AccountLimits \cup EntityLimits
    /\ DayLength \in Nat \ {0}

Min2(a, b) == IF a <= b THEN a ELSE b

(* get_date_in_adv_tz *)
AdvDate(limits, now) == (now + limits.time_offset) \div DayLength

RemainDays(limits, date) ==
    IF limits.delivery_pacing = "D" /\ limits.adv_tz_date_end # 0
    THEN limits.adv_tz_date_end - date + 1
    ELSE 0

CheckRequired(limits) == limits.budget # None \/ limits.daily_budget # None

-----------------------------------------------------------------------------
(* What is left of each limit that applies to a positive amount. *)

DailyLeft(limits, days, date) ==
    IF limits.delivery_pacing = "F" /\ limits.daily_budget # None
    THEN limits.daily_budget - AmountOf(days, date)
    ELSE None

TotalLeft(limits, days) ==
    IF limits.budget # None THEN limits.budget - TotalAmount(days) ELSE None

(* The remaining budget is spread over the remaining days, today included. *)
DynamicLeft(limits, days, date) ==
    LET today  == AmountOf(days, date)
        remain == RemainDays(limits, date)
        left   == limits.budget - TotalAmount(days) + today
    IN  IF /\ limits.budget # None
           /\ limits.delivery_pacing = "D"
           /\ limits.adv_tz_date_end # 0
        THEN (IF remain > 0 THEN Signed(left, Magnitude(left) \div remain) ELSE 0) - today
        ELSE None

(* Mutant: what is left does not cut the amount. *)
Within_NotCut(acc, left) ==
    IF ~acc.ok \/ left = None THEN acc
    ELSE IF left <= 0 THEN [acc EXCEPT !.ok = FALSE]
    ELSE acc

(* One limit of check_: nothing left stops the check and keeps what the    *)
(* limits before it allowed; otherwise the allowed amount is cut to it.    *)
Within(acc, left) ==
    IF ~acc.ok \/ left = None THEN acc
    ELSE IF left <= 0 THEN [acc EXCEPT !.ok = FALSE]
    ELSE [acc EXCEPT !.allowed = Min2(left, @)]

CheckPositive(limits, days, date, amount) ==
    Within(Within(Within([ok |-> TRUE, allowed |-> amount],
                         DailyLeft(limits, days, date)),
                  TotalLeft(limits, days)),
           DynamicLeft(limits, days, date))

(* A refund takes no more than the day and the total hold. *)
CheckNegative(days, date, amount) ==
    LET back == Within(Within([ok |-> TRUE, allowed |-> -amount],
                              AmountOf(days, date)),
                       TotalAmount(days))
    IN  [ok |-> back.ok, allowed |-> -back.allowed]

(* Mutant: a refund is checked like a charge. *)
Check_NoSign(limits, days, date, amount) ==
    CheckPositive(limits, days, date, amount)

Check(limits, days, date, amount) ==
    IF amount > 0 THEN CheckPositive(limits, days, date, amount)
                  ELSE CheckNegative(days, date, amount)

(* check: may a bid be made at all *)
Available(limits, days, now) ==
    CheckRequired(limits) =>
        CheckPositive(limits, days, AdvDate(limits, now), 1).ok

(* confirm_amount: the part of amount that is booked. A forced amount is   *)
(* booked even if the check stops, as far as the check allowed it before.  *)
ConfirmAmount(limits, days, now, amount, forced) ==
    LET check == IF CheckRequired(limits)
                 THEN Check(limits, days, AdvDate(limits, now), amount)
                 ELSE [ok |-> TRUE, allowed |-> amount]
    IN  [ok |-> check.ok,
         confirmed |-> IF check.ok \/ forced THEN check.allowed ELSE 0]

-----------------------------------------------------------------------------
(* confirm_account_bid_ and check_available_account_budget_ *)

(* Mutant: the budget may be reached. *)
AccountAvailable_UpToBudget(limits, days) == TotalAmount(days) <= limits.budget

AccountAvailable(limits, days) == TotalAmount(days) < limits.budget

(* Mutant: a part is confirmed as if it were all. *)
ConfirmAccountAmount_PartIsAll(limits, days, amount, forced) ==
    LET left == limits.budget - TotalAmount(days)
        open == left > 0
    IN  IF ~open /\ ~forced THEN [ok |-> FALSE, confirmed |-> 0]
        ELSE IF forced \/ left > amount THEN [ok |-> open, confirmed |-> amount]
        ELSE [ok |-> TRUE, confirmed |-> left]

ConfirmAccountAmount(limits, days, amount, forced) ==
    LET left == limits.budget - TotalAmount(days)
        open == left > 0
    IN  IF ~open /\ ~forced THEN [ok |-> FALSE, confirmed |-> 0]
        ELSE IF forced \/ left > amount THEN [ok |-> open, confirmed |-> amount]
        ELSE [ok |-> FALSE, confirmed |-> left]

-----------------------------------------------------------------------------
(* config(): every server answers for its part of the budgets. *)

Part(budget) == IF budget = None THEN None ELSE MulFloor(LimitCoef, budget)

AdaptAccount(account) == [account EXCEPT !.budget = MulFloor(LimitCoef, @)]

(* adapt_delivery_limits_: date_end becomes a day of the advertiser. *)
AdaptDeliveryLimits(limits) ==
    [budget |-> Part(limits.budget),
     daily_budget |-> Part(limits.daily_budget),
     delivery_pacing |-> limits.delivery_pacing,
     adv_tz_date_end |-> IF limits.date_end = 0 THEN 0
                         ELSE (limits.date_end + limits.time_offset) \div DayLength,
     time_offset |-> limits.time_offset,
     active |-> limits.active]
=============================================================================
