------------------------- MODULE MCBillingContainer -------------------------
EXTENDS BillingContainer, Sequences

(* Two accounts, each with two campaigns and groups of its own: the first  *)
(* of the mixed story (ids 1 and 2), the second of the charges (3 and 4).  *)
(* A day has two parts; money is counted in whole units.                   *)
MCDate == 1..3

Bid(id, time, account, campaign, account_amount, amount, forced) ==
    [id |-> id, time |-> time, account_id |-> account, campaign_id |-> campaign,
     ccg_id |-> campaign, account_amount |-> account_amount, amount |-> amount,
     imps |-> 2, forced |-> forced]

Account(budget, offset) == [budget |-> budget, time_offset |-> offset, active |-> TRUE]
Limited(budget, daily_budget, pacing, end, offset) ==
    [budget |-> budget, daily_budget |-> daily_budget, delivery_pacing |-> pacing,
     date_end |-> end, time_offset |-> offset, active |-> TRUE]

(* Three charges share an account that can pay for part of them; campaign  *)
(* 3 has a daily and a total budget, campaign 4 spreads its budget over    *)
(* two days, the groups have their own.                                    *)
ChargeBids ==
    {Bid(5, 4, 2, 3, 3, 6, FALSE), Bid(6, 4, 2, 3, 2, 4, FALSE),
     Bid(7, 4, 2, 4, 4, 4, FALSE)}

(* A charge, a refund and a forced charge of the first campaign, on a day  *)
(* that depends on the offset, while the budgets are raised and lowered;   *)
(* the second campaign is charged, and cut at its group, on the first day  *)
(* that is not settled, while the statistics speak of it.                  *)
MCBids == ChargeBids \cup
    {Bid(1, 5, 1, 1, 2, 4, FALSE), Bid(2, 4, 1, 1, -2, -4, FALSE),
     Bid(3, 4, 1, 1, 2, 3, TRUE), Bid(4, 4, 1, 2, 2, 4, FALSE)}

MCConfig(account, campaign, ccg) ==
    [account |-> <<account, Account(7, 0), None, None>>,
     campaign |-> campaign \o <<Limited(14, 6, "F", 0, 0), Limited(12, None, "D", 6, 0)>>,
     ccg |-> ccg \o <<Limited(6, None, "U", 0, 0), Limited(4, 3, "F", 0, 0)>>]

FirstConfig ==
    MCConfig(Account(6, 1),
             <<Limited(8, 6, "F", 0, 1), Limited(4, None, "U", 0, 0)>>,
             <<Limited(10, None, "D", 6, 0), Limited(2, None, "U", 0, 1)>>)
MCConfigs ==
    {FirstConfig,
     MCConfig(Account(4, 0),
              <<Limited(16, 8, "F", 0, 0), Limited(10, 4, "F", 0, 1)>>,
              <<Limited(6, None, "U", 0, 0), Limited(10, None, "U", 0, 1)>>)}

Source(prev, days) == [prev_day |-> IF prev = 0 THEN 0 ELSE 1, prev_days_amount |-> prev,
                       day_amounts |-> days]
NoStats == [level \in Level |-> [id \in Id |-> NoSource]]
MCStats ==
    {NoStats,
     [NoStats EXCEPT !["campaign"][2] = Source(0, [d \in {1, 2, 3} |-> 1]),
                     !["ccg"][2] = Source(2, [d \in {2, 3} |-> 1])]}

(* What the theorems on answers and running totals suppose is so here.     *)
ASSUME MCZonesAssumption == ZonesAgree /\ BidsInHistory

(* Three stories share the run and stay apart: the charges of the second   *)
(* account; the calls of campaign 1 among themselves; the forced charge,   *)
(* campaign 2 and the statistics. The statistics stop where campaign 1's   *)
(* charge or refund begins, and they and the configuration where a charge  *)
(* of the second account begins.                                           *)
Begun(b) == call[b].pc # "new"
BegunOf(ids) == \E b \in Bids : b.id \in ids /\ Begun(b)
OneStory ==
    /\ BegunOf({1, 2})' => stat' = None /\ ~BegunOf({4})'
    /\ BegunOf(5..7)' =>
          /\ stat' = None /\ ~BegunOf(1..4)'
          /\ config' # None => config'["account"][1].time_offset = 1
=============================================================================
