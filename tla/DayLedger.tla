----------------------------- MODULE DayLedger ------------------------------
(***************************************************************************)
(* What the books of one account, campaign or creative group promise: a    *)
(* sum carried over from the past and the money of every day kept apart.   *)
(* Running totals, maps and files do not appear here; AmountLedger         *)
(* implements this specification.                                          *)
(***************************************************************************)
EXTENDS Integers, FiniteSetsExt

CONSTANTS Date, Amounts, StatDelay

VARIABLES
    carried,   \* money spent before the first day kept
    daily,     \* money spent on each day kept
    today

vars == <<carried, daily, today>>

Init ==
    /\ carried = 0
    /\ daily = [d \in {} |-> 0]
    /\ today = Min(Date)

(* Money is booked on one day that has come, and changes no other.         *)
Book(date, amount) ==
    /\ date <= today
    /\ daily' = [d \in DOMAIN daily \cup {date} |->
                    (IF d \in DOMAIN daily THEN daily[d] ELSE 0)
                      + (IF d = date THEN amount ELSE 0)]
    /\ UNCHANGED <<carried, today>>

(* Statistics settle the days that are older than their delay, only those. *)
Settle ==
    /\ \A d \in Date : d >= today - StatDelay =>
          /\ d \in DOMAIN daily' <=> d \in DOMAIN daily
          /\ d \in DOMAIN daily => daily'[d] = daily[d]
    /\ carried' \in Int
    /\ UNCHANGED today

NextDay == today' = today + 1 /\ UNCHANGED <<carried, daily>>

Next ==
    \/ \E date \in Date, amount \in Amounts : Book(date, amount)
    \/ Settle
    \/ NextDay

Spec == Init /\ [][Next]_vars
=============================================================================
