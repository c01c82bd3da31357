-------------------------- MODULE MCBillingServer ---------------------------
EXTENDS BillingServer

(* One account, one campaign, one group and a bid of today that the         *)
(* group can confirm only in part.                                         *)
MCDate == 1..2
MCBid(id, time, amount) ==
    [id |-> id, time |-> time, account_id |-> 1, campaign_id |-> 1, ccg_id |-> 1,
     account_amount |-> 2, amount |-> amount, imps |-> 1, forced |-> FALSE]
MCOneBid == {MCBid(2, 2, 4)}
MCTraits(budget) ==
    [budget |-> budget, daily_budget |-> None, delivery_pacing |-> "U", date_end |-> 0,
     time_offset |-> 0, active |-> TRUE]
MCConfigs ==
    {[account |-> [id \in Id |-> [budget |-> 5, time_offset |-> 0, active |-> TRUE]],
      campaign |-> [id \in Id |-> MCTraits(5)],
      ccg |-> [id \in Id |-> MCTraits(3)]]}
MCSomeStats ==
    {[level \in Level |-> [id \in Id |->
        [prev_day |-> 0, prev_days_amount |-> 0, day_amounts |-> [d \in {1} |-> 1]]]]}

(* The hypothesis of RestartHolds is met.                                  *)
ASSUME MCBidsAssumption == BidsInHistory
=============================================================================
