--------------------------- MODULE MCAmountLedger ---------------------------
EXTENDS AmountLedger
MCDate == 1..5
MCAmounts == {-1, 2}
MCSources ==
    {[prev_day |-> 0, prev_days_amount |-> p, day_amounts |-> f] :
        p \in {0, 2}, f \in UNION {[S -> {1}] : S \in {{}, {1, 3}, {2, 3}}}}
=============================================================================
