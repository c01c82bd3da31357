--------------------------- MODULE Billing_proofs ---------------------------
(***************************************************************************)
(* Proofs about the billing server: the container of BillingContainer, the *)
(* process of BillingServer and one holder of AmountLedger, for any        *)
(* accounts, campaigns, groups, bids, configurations and statistics.       *)
(* First what the operations of an AmountHolder return, and what           *)
(* DeliveryLimitsChecker and confirm_account_bid_ let through; then the    *)
(* container, which is built of them: its type invariant; every charge and *)
(* refund keeps to the limits its call began with; a check foretells what  *)
(* a confirm books; statistics leave the fresh days as they are; the       *)
(* account pays for what campaign and group deliver; a revert finds the    *)
(* day it takes an amount back from; the answers of the calls and the      *)
(* books add up; the budgets hold; the running totals of all books.  Then  *)
(* what the file of a holder holds of it, the server that dumps the books  *)
(* and starts from them, and last the life of one holder with overflows,   *)
(* which is that of a DayLedger.                                           *)
(***************************************************************************)
EXTENDS BillingServer, AmountLedger, Sums_proofs

LEMMA FirstResult ==
    ASSUME NEW S \in SUBSET Nat, S # {}
    PROVE  First(S) \in S /\ \A e \in S : First(S) <= e
BY Smallest DEF First

LEMMA LastResult ==
    ASSUME NEW S \in SUBSET Date, S # {}
    PROVE  Last(S) \in S /\ \A e \in S : e <= Last(S)
<1>1. \E d \in S : \A e \in S : e <= d
  BY DateAssumption
<1> QED  BY <1>1 DEF Last

-----------------------------------------------------------------------------
(* Holders.                                                                *)

(* The calendar ends: a set of days is finite.                             *)
LEMMA DaysFinite ==
    ASSUME NEW S \in SUBSET Date
    PROVE  IsFiniteSet(S)
<1>1. CASE S = {}
  BY <1>1, FS_EmptySet
<1>2. CASE S # {}
  <2>1. PICK d \in S : \A e \in S : e <= d
    BY <1>2, DateAssumption
  <2>2. d \in Nat /\ S \subseteq 0..d
    BY <2>1, DateAssumption
  <2>3. IsFiniteSet(0..d)
    BY <2>2, FS_Interval
  <2> QED  BY <2>2, <2>3, FS_Subset
<1> QED  BY <1>1, <1>2

(* A holder is a function on some of the days.                             *)
LEMMA HolderType ==
    ASSUME NEW days, IsHolder(days)
    PROVE  DOMAIN days \in SUBSET Date /\ days \in [DOMAIN days -> DayAmount]
BY DEF IsHolder

LEMMA HolderIs ==
    ASSUME NEW S \in SUBSET Date, NEW days \in [S -> DayAmount]
    PROVE  IsHolder(days)
BY DEF IsHolder

LEMMA NoDaysType == IsHolder(NoDays) /\ DOMAIN NoDays = {}
<1>1. NoDays \in [{} -> DayAmount]
  BY DEF NoDays
<1> QED  BY <1>1, HolderIs DEF NoDays

LEMMA AmountsType ==
    ASSUME NEW days, IsHolder(days), NEW date
    PROVE  AmountOf(days, date) \in Int /\ TotalAmount(days) \in Int
<1>1. DOMAIN days \in SUBSET Date /\ days \in [DOMAIN days -> DayAmount]
  BY HolderType
<1>2. AmountOf(days, date) \in Int
  BY <1>1 DEF AmountOf, DayAmount
<1>3. CASE DOMAIN days = {}
  BY <1>2, <1>3 DEF TotalAmount
<1>4. CASE DOMAIN days # {}
  <2>1. Last(DOMAIN days) \in DOMAIN days
    BY <1>1, <1>4, LastResult
  <2> QED  BY <1>1, <1>2, <1>4, <2>1 DEF TotalAmount, DayAmount
<1> QED  BY <1>3, <1>4

LEMMA AmountBeforeType ==
    ASSUME NEW days, IsHolder(days), NEW date \in Date
    PROVE  AmountBefore(days, date) \in Int
<1>1. DOMAIN days \in SUBSET Date /\ days \in [DOMAIN days -> DayAmount]
  BY HolderType
<1>2. CASE date \in DOMAIN days
  BY <1>1, <1>2 DEF AmountBefore, DayAmount
<1>3. CASE date \notin DOMAIN days /\ Earlier(days, date) = {}
  BY <1>3 DEF AmountBefore
<1>4. CASE date \notin DOMAIN days /\ Earlier(days, date) # {}
  <2>1. Last(Earlier(days, date)) \in DOMAIN days
    BY <1>1, <1>4, LastResult DEF Earlier
  <2> QED  BY <1>1, <1>4, <2>1 DEF AmountBefore, DayAmount
<1> QED  BY <1>2, <1>3, <1>4

(* Every entry of a holder after an amount was added.                      *)
LEMMA AddAmountEntries ==
    ASSUME NEW days, IsHolder(days), NEW date \in Date, NEW amount \in Int
    PROVE  /\ IsHolder(AddAmount(days, date, amount))
           /\ DOMAIN AddAmount(days, date, amount) = DOMAIN days \cup {date}
           /\ AddAmount(days, date, amount)[date] =
                 [amount_before |-> AmountBefore(days, date),
                  amount |-> AmountOf(days, date) + amount]
           /\ \A d \in DOMAIN days \ {date} :
                 AddAmount(days, date, amount)[d] =
                    [amount_before |-> IF d > date THEN days[d].amount_before + amount
                                       ELSE days[d].amount_before,
                     amount |-> days[d].amount]
<1> DEFINE after == AddAmount(days, date, amount)
<1>1. DOMAIN days \in SUBSET Date /\ days \in [DOMAIN days -> DayAmount]
  BY HolderType
<1>2. AmountOf(days, date) \in Int /\ AmountBefore(days, date) \in Int
  BY AmountsType, AmountBeforeType
<1>3. /\ DOMAIN after = DOMAIN days \cup {date}
      /\ after[date] = [amount_before |-> AmountBefore(days, date),
                        amount |-> AmountOf(days, date) + amount]
  BY DEF AddAmount
<1>4. ASSUME NEW d \in DOMAIN days \ {date}
      PROVE  after[d] = [days[d] EXCEPT !.amount_before = IF d > date THEN @ + amount ELSE @]
  BY <1>4 DEF AddAmount
<1>5. ASSUME NEW d \in DOMAIN days \ {date}
      PROVE  /\ after[d] \in DayAmount
             /\ after[d] = [amount_before |-> IF d > date THEN days[d].amount_before + amount
                                              ELSE days[d].amount_before,
                            amount |-> days[d].amount]
  <2>1. days[d] \in DayAmount
    BY <1>1
  <2> HIDE DEF after
  <2>2. CASE d > date
    <3>1. after[d] = [days[d] EXCEPT !.amount_before = @ + amount]
      BY <1>4, <2>2
    <3> QED  BY <2>1, <2>2, <3>1 DEF DayAmount
  <2>3. CASE ~(d > date)
    <3>1. after[d] = [days[d] EXCEPT !.amount_before = @]
      BY <1>4, <2>3
    <3> QED  BY <2>1, <2>3, <3>1 DEF DayAmount
  <2> QED  BY <2>2, <2>3
<1>6. after[date] \in DayAmount
  BY <1>2, <1>3 DEF DayAmount
<1>7. after = [d \in DOMAIN days \cup {date} |-> after[d]]
  BY DEF AddAmount
<1>8. IsHolder(after)
  <2> HIDE DEF after
  <2>1. after \in [DOMAIN days \cup {date} -> DayAmount]
    BY <1>5, <1>6, <1>7
  <2>2. DOMAIN days \cup {date} \in SUBSET Date
    BY <1>1
  <2> QED  BY <2>1, <2>2, HolderIs
<1> QED  BY <1>3, <1>5, <1>8

(* add_amount raises the day and the total by the amount and leaves the    *)
(* other days alone, in whatever order days come: this is what every check *)
(* against a budget relies on.                                             *)
THEOREM AddAmountAdds ==
    ASSUME NEW days, IsHolder(days), NEW date \in Date, NEW amount \in Int
    PROVE  /\ IsHolder(AddAmount(days, date, amount))
           /\ TotalAmount(AddAmount(days, date, amount)) = TotalAmount(days) + amount
           /\ AmountOf(AddAmount(days, date, amount), date) = AmountOf(days, date) + amount
           /\ \A d \in Date \ {date} :
                 AmountOf(AddAmount(days, date, amount), d) = AmountOf(days, d)
<1> DEFINE after == AddAmount(days, date, amount)
<1>1. DOMAIN days \in SUBSET Date /\ days \in [DOMAIN days -> DayAmount]
  BY HolderType
<1>2. /\ IsHolder(after)
      /\ DOMAIN after = DOMAIN days \cup {date}
      /\ after[date] = [amount_before |-> AmountBefore(days, date),
                        amount |-> AmountOf(days, date) + amount]
      /\ \A d \in DOMAIN days \ {date} :
            after[d] = [amount_before |-> IF d > date THEN days[d].amount_before + amount
                                          ELSE days[d].amount_before,
                        amount |-> days[d].amount]
  BY AddAmountEntries
<1> HIDE DEF after
<1>3. AmountOf(after, date) = AmountOf(days, date) + amount
  BY <1>2 DEF AmountOf
<1>4. \A d \in Date \ {date} : AmountOf(after, d) = AmountOf(days, d)
  BY <1>2 DEF AmountOf
<1>5. TotalAmount(after) = TotalAmount(days) + amount
  <2> DEFINE last == Last(DOMAIN after)
  <2>1. last \in DOMAIN after /\ \A d \in DOMAIN after : d <= last
    BY <1>1, <1>2, LastResult
  <2>2. TotalAmount(after) = after[last].amount_before + after[last].amount
    BY <2>1 DEF TotalAmount
  <2>3. AmountOf(days, date) \in Int /\ AmountBefore(days, date) \in Int
    BY AmountsType, AmountBeforeType
  <2>4. DOMAIN after \in SUBSET Nat
    BY <1>1, <1>2, DateAssumption
  <2> HIDE DEF last
  <2>5. CASE DOMAIN days = {}
    <3>1. last = date
      BY <1>2, <2>1, <2>5
    <3>2. AmountOf(days, date) = 0 /\ AmountBefore(days, date) = 0 /\ TotalAmount(days) = 0
      BY <2>5 DEF AmountOf, AmountBefore, TotalAmount, Earlier
    <3> QED  BY <1>2, <2>2, <3>1, <3>2
  <2>6. CASE DOMAIN days # {}
    <3> DEFINE before == Last(DOMAIN days)
    <3>1. before \in DOMAIN days /\ \A d \in DOMAIN days : d <= before
      BY <1>1, <2>6, LastResult
    <3>2. TotalAmount(days) = days[before].amount_before + days[before].amount
      BY <2>6 DEF TotalAmount
    <3> HIDE DEF before
    <3>3. days[before].amount_before \in Int /\ days[before].amount \in Int
      BY <1>1, <3>1 DEF DayAmount
    <3>4. CASE last # date
      <4>1. last \in DOMAIN days /\ last = before /\ last > date
        <5>1. DOMAIN after = DOMAIN days \cup {date}
          BY <1>2
        <5>2. last \in DOMAIN days
          BY <5>1, <2>1, <3>4
        <5>3. before \in DOMAIN after /\ date \in DOMAIN after
          BY <5>1, <3>1
        <5>4. before <= last /\ date <= last /\ last <= before
          BY <5>2, <5>3, <2>1, <3>1
        <5>5. last \in Nat /\ before \in Nat /\ date \in Nat
          BY <5>3, <2>1, <2>4
        <5> QED  BY <5>2, <5>4, <5>5, <3>4
      <4>2. /\ after[last].amount = days[last].amount
            /\ after[last].amount_before = days[last].amount_before + amount
        BY <1>2, <3>4, <4>1
      <4> QED  BY <2>2, <3>2, <3>3, <4>1, <4>2
    <3>5. CASE last = date /\ date \in DOMAIN days
      <4>1. before = date
        BY <1>2, <2>1, <2>4, <3>1, <3>5
      <4>2. /\ AmountBefore(days, date) = days[date].amount_before
            /\ AmountOf(days, date) = days[date].amount
        BY <3>5 DEF AmountBefore, AmountOf
      <4> QED  BY <1>2, <2>2, <3>2, <3>3, <3>5, <4>1, <4>2
    <3>6. CASE last = date /\ date \notin DOMAIN days
      <4>1. \A d \in DOMAIN days : d < date
        BY <1>2, <2>1, <2>4, <3>6
      <4>2. Earlier(days, date) = DOMAIN days
        BY <4>1 DEF Earlier
      <4>3. AmountBefore(days, date) = days[before].amount_before + days[before].amount
        BY <2>6, <3>6, <4>2 DEF AmountBefore, before
      <4>4. AmountOf(days, date) = 0
        BY <3>6 DEF AmountOf
      <4> QED  BY <1>2, <2>2, <3>2, <3>3, <3>6, <4>3, <4>4
    <3> QED  BY <3>4, <3>5, <3>6
  <2> QED  BY <2>5, <2>6
<1> QED  BY <1>2, <1>3, <1>4, <1>5 DEF after

-----------------------------------------------------------------------------
(* Running totals. A day in front of the first one starts from nothing, so *)
(* it may only come when no sum is carried over from earlier days.         *)

NothingCarried(days) ==
    \A d \in DOMAIN days : Earlier(days, d) = {} => days[d].amount_before = 0

LEMMA EarlierLast ==
    ASSUME NEW days, IsHolder(days), NEW d, Earlier(days, d) # {}
    PROVE  /\ Last(Earlier(days, d)) \in DOMAIN days
           /\ Last(Earlier(days, d)) < d
           /\ \A e \in Earlier(days, d) : e <= Last(Earlier(days, d))
<1>1. Earlier(days, d) \in SUBSET Date
  BY HolderType DEF Earlier
<1>2. Last(Earlier(days, d)) \in Earlier(days, d)
      /\ \A e \in Earlier(days, d) : e <= Last(Earlier(days, d))
  BY <1>1, LastResult
<1> QED  BY <1>2 DEF Earlier

(* Where an entry of date starts from, by its predecessor.                 *)
LEMMA AmountBeforeIs ==
    ASSUME NEW days, IsHolder(days), PrefixSums(days), NEW date \in Date,
           Earlier(days, date) # {}
    PROVE  AmountBefore(days, date) = days[Last(Earlier(days, date))].amount_before
                                      + days[Last(Earlier(days, date))].amount
<1>1. CASE date \in DOMAIN days
  BY <1>1 DEF AmountBefore, PrefixSums
<1>2. CASE date \notin DOMAIN days
  BY <1>2 DEF AmountBefore
<1> QED  BY <1>1, <1>2

(* add_amount keeps the running totals: a bid may come for any day, in any *)
(* order, if it is not in front of the days a sum was carried over to.     *)
THEOREM AddAmountKeepsRunningTotals ==
    ASSUME NEW days, IsHolder(days), PrefixSums(days),
           NEW date \in Date, NEW amount \in Int,
           NothingCarried(days) \/ \E d \in DOMAIN days : d <= date
    PROVE  PrefixSums(AddAmount(days, date, amount))
<1> DEFINE after == AddAmount(days, date, amount)
<1>1. DOMAIN days \in SUBSET Date /\ days \in [DOMAIN days -> DayAmount]
  BY HolderType
<1>2. /\ IsHolder(after)
      /\ DOMAIN after = DOMAIN days \cup {date}
      /\ after[date] = [amount_before |-> AmountBefore(days, date),
                        amount |-> AmountOf(days, date) + amount]
      /\ \A d \in DOMAIN days \ {date} :
            after[d] = [amount_before |-> IF d > date THEN days[d].amount_before + amount
                                          ELSE days[d].amount_before,
                        amount |-> days[d].amount]
  BY AddAmountEntries
<1> HIDE DEF after
<1>3. DOMAIN after \in SUBSET Nat
  BY <1>1, <1>2, DateAssumption
<1>4. \A d \in DOMAIN days : days[d].amount_before \in Int /\ days[d].amount \in Int
  BY <1>1 DEF DayAmount
<1>5. ASSUME NEW d \in DOMAIN after, Earlier(after, d) # {}
      PROVE  after[d].amount_before = after[Last(Earlier(after, d))].amount_before
                                      + after[Last(Earlier(after, d))].amount
  <2> DEFINE p == Last(Earlier(after, d))
  <2>1. p \in DOMAIN after /\ p < d /\ \A e \in Earlier(after, d) : e <= p
    BY <1>2, <1>5, EarlierLast
  <2>2. d \in Nat /\ date \in Nat /\ p \in Nat
    BY <1>2, <1>3, <2>1
  <2>3. CASE ~(d > date)
    <3>1. Earlier(after, d) = Earlier(days, d)
      BY <1>2, <1>3, <2>2, <2>3 DEF Earlier
    <3>2. p \in DOMAIN days \ {date} /\ ~(p > date)
      BY <1>2, <2>1, <2>2, <2>3
    <3>3. /\ after[p].amount_before = days[p].amount_before
          /\ after[p].amount = days[p].amount
      BY <1>2, <3>2
    <3>4. CASE d = date
      <4>1. after[d].amount_before = AmountBefore(days, date)
        BY <1>2, <3>4
      <4>2. p = Last(Earlier(days, date)) /\ Earlier(days, date) # {}
        BY <1>5, <3>1, <3>4
      <4> QED  BY <3>3, <4>1, <4>2, AmountBeforeIs
    <3>5. CASE d # date
      <4>1. d \in DOMAIN days /\ after[d].amount_before = days[d].amount_before
        BY <1>2, <2>3, <3>5
      <4>2. p = Last(Earlier(days, d)) /\ Earlier(days, d) # {}
        BY <1>5, <3>1
      <4>3. days[d].amount_before = days[p].amount_before + days[p].amount
        BY <4>1, <4>2 DEF PrefixSums
      <4> QED  BY <3>3, <4>1, <4>3
    <3> QED  BY <3>4, <3>5
  <2>4. CASE d > date
    <3>1. d \in DOMAIN days /\ after[d].amount_before = days[d].amount_before + amount
      BY <1>2, <2>2, <2>4
    <3>2. Earlier(after, d) = Earlier(days, d) \cup {date}
      BY <1>2, <2>4 DEF Earlier
    <3>3. CASE p # date
      <4>1. p \in DOMAIN days /\ p > date
        BY <1>2, <2>1, <2>2, <3>2, <3>3
      <4>2. /\ after[p].amount_before = days[p].amount_before + amount
            /\ after[p].amount = days[p].amount
        BY <1>2, <3>3, <4>1
      <4>3. p \in Earlier(days, d)
        BY <2>1, <4>1 DEF Earlier
      <4>4. Last(Earlier(days, d)) = p
        <5>1. /\ Last(Earlier(days, d)) \in Earlier(days, d)
              /\ \A e \in Earlier(days, d) : e <= Last(Earlier(days, d))
          BY <4>3, EarlierLast DEF Earlier
        <5>2. Last(Earlier(days, d)) <= p /\ p <= Last(Earlier(days, d))
          BY <2>1, <3>2, <4>3, <5>1
        <5>3. Last(Earlier(days, d)) \in Nat
          BY <1>2, <1>3, <5>1 DEF Earlier
        <5> QED  BY <2>2, <5>2, <5>3
      <4>5. days[d].amount_before = days[p].amount_before + days[p].amount
        BY <3>1, <4>3, <4>4 DEF PrefixSums
      <4> QED  BY <1>4, <3>1, <4>1, <4>2, <4>5
    <3>4. CASE p = date
      <4>1. after[p].amount_before + after[p].amount
              = AmountBefore(days, date) + (AmountOf(days, date) + amount)
        BY <1>2, <3>4
      <4>2. AmountOf(days, date) \in Int /\ AmountBefore(days, date) \in Int
        BY AmountsType, AmountBeforeType
      <4>3. days[d].amount_before = AmountBefore(days, date) + AmountOf(days, date)
        <5>1. CASE date \in DOMAIN days
          <6>1. date \in Earlier(days, d) /\ Earlier(after, d) = Earlier(days, d)
            BY <2>4, <3>2, <5>1 DEF Earlier
          <6>2. days[d].amount_before = days[date].amount_before + days[date].amount
            BY <3>1, <3>4, <6>1 DEF PrefixSums
          <6> QED  BY <5>1, <6>2 DEF AmountBefore, AmountOf
        <5>2. CASE date \notin DOMAIN days
          <6>1. \A e \in Earlier(days, d) : e < date
            <7> SUFFICES ASSUME NEW e \in Earlier(days, d) PROVE e < date
              OBVIOUS
            <7>1. e \in DOMAIN days /\ e <= date
              BY <2>1, <3>2, <3>4 DEF Earlier
            <7>2. e \in Nat /\ e # date
              BY <1>2, <1>3, <5>2, <7>1
            <7> QED  BY <2>2, <7>1, <7>2
          <6>2. Earlier(days, d) = Earlier(days, date)
            BY <1>2, <1>3, <2>2, <2>4, <6>1 DEF Earlier
          <6>3. AmountOf(days, date) = 0
            BY <5>2 DEF AmountOf
          <6>4. CASE Earlier(days, date) = {}
            <7>1. \A e \in DOMAIN days : ~(e <= date)
              BY <1>2, <1>3, <2>2, <5>2, <6>4 DEF Earlier
            <7>2. days[d].amount_before = 0
              BY <3>1, <6>2, <6>4, <7>1 DEF NothingCarried
            <7>3. AmountBefore(days, date) = 0
              BY <5>2, <6>4 DEF AmountBefore
            <7> QED  BY <6>3, <7>2, <7>3
          <6>5. CASE Earlier(days, date) # {}
            <7>1. AmountBefore(days, date) = days[Last(Earlier(days, d))].amount_before
                                             + days[Last(Earlier(days, d))].amount
              BY <6>2, <6>5, AmountBeforeIs
            <7>2. days[d].amount_before = AmountBefore(days, date)
              BY <3>1, <6>2, <6>5, <7>1 DEF PrefixSums
            <7> QED  BY <4>2, <6>3, <7>2
          <6> QED  BY <6>4, <6>5
        <5> QED  BY <5>1, <5>2
      <4> QED  BY <3>1, <4>1, <4>2, <4>3
    <3> QED  BY <3>3, <3>4
  <2> QED  BY <2>3, <2>4
<1> QED  BY <1>5 DEF PrefixSums, after
-----------------------------------------------------------------------------
(* Statistics.                                                             *)

LEMMA MulFloorType ==
    ASSUME NEW share \in Int, NEW x \in Int PROVE MulFloor(share, x) \in Int
BY UnitAssumption DEF MulFloor, Signed, Magnitude

LEMMA CoefType ==
    ASSUME NEW x \in Int PROVE MulFloor(LimitCoef, x) \in Int
<1>1. LimitCoef \in Int
  BY UnitAssumption DEF LimitCoef
<1> QED  BY <1>1, MulFloorType

LEMMA FreshDaysType ==
    ASSUME NEW days, IsHolder(days), NEW end \in Int
    PROVE  /\ IsHolder(FreshDays(days, end))
           /\ DOMAIN FreshDays(days, end) = {d \in DOMAIN days : d >= end}
<1> DEFINE fresh == {d \in DOMAIN days : d >= end}
           base == days[First(fresh)].amount_before
           f == FreshDays(days, end)
<1>1. DOMAIN days \in SUBSET Date /\ days \in [DOMAIN days -> DayAmount]
  BY HolderType
<1>2. f = [d \in fresh |-> [days[d] EXCEPT !.amount_before = @ - base]]
  BY DEF FreshDays
<1>3. fresh # {} => base \in Int
  <2>1. fresh \in SUBSET Nat
    BY <1>1, DateAssumption
  <2>2. fresh # {} => First(fresh) \in DOMAIN days
    BY <2>1, FirstResult
  <2> QED  BY <1>1, <2>2 DEF DayAmount
<1> HIDE DEF base, f
<1>4. \A d \in fresh : [days[d] EXCEPT !.amount_before = @ - base] \in DayAmount
  BY <1>1, <1>3 DEF DayAmount
<1> HIDE DEF fresh
<1>5. f \in [fresh -> DayAmount] /\ DOMAIN f = fresh
  BY <1>2, <1>4
<1>6. fresh \in SUBSET Date
  BY <1>1 DEF fresh
<1> QED  BY <1>5, <1>6, HolderIs DEF f, fresh

(* Days that are all fresh, and to which nothing is carried, stay as they  *)
(* are.                                                                    *)
LEMMA AllDaysFresh ==
    ASSUME NEW days, IsHolder(days), NothingCarried(days), NEW end \in Int,
           \A d \in DOMAIN days : d >= end
    PROVE  FreshDays(days, end) = days
<1> DEFINE fresh == {d \in DOMAIN days : d >= end}
           base == days[First(fresh)].amount_before
<1>1. DOMAIN days \in SUBSET Nat /\ days \in [DOMAIN days -> DayAmount]
  BY HolderType, DateAssumption
<1>2. fresh = DOMAIN days
  OBVIOUS
<1>3. FreshDays(days, end) = [d \in fresh |-> [days[d] EXCEPT !.amount_before = @ - base]]
  BY DEF FreshDays
<1>4. DOMAIN days # {} => base = 0
  <2> SUFFICES ASSUME DOMAIN days # {} PROVE base = 0
    OBVIOUS
  <2>1. /\ First(fresh) \in DOMAIN days
        /\ \A e \in DOMAIN days : First(fresh) <= e
    BY <1>1, <1>2, FirstResult
  <2> HIDE DEF fresh
  <2>2. Earlier(days, First(fresh)) = {}
    BY <1>1, <2>1 DEF Earlier
  <2> QED  BY <2>1, <2>2 DEF NothingCarried
<1> HIDE DEF base, fresh
<1>5. \A d \in DOMAIN days : [days[d] EXCEPT !.amount_before = @ - base] = days[d]
  BY <1>1, <1>4 DEF DayAmount
<1> QED  BY <1>1, <1>2, <1>3, <1>5

LEMMA AddAmountCarriesNothing ==
    ASSUME NEW days, IsHolder(days), NothingCarried(days),
           NEW date \in Date, NEW amount \in Int
    PROVE  NothingCarried(AddAmount(days, date, amount))
<1> DEFINE after == AddAmount(days, date, amount)
<1>1. /\ DOMAIN after = DOMAIN days \cup {date}
      /\ after[date] = [amount_before |-> AmountBefore(days, date),
                        amount |-> AmountOf(days, date) + amount]
      /\ \A d \in DOMAIN days \ {date} :
            after[d] = [amount_before |-> IF d > date THEN days[d].amount_before + amount
                                          ELSE days[d].amount_before,
                        amount |-> days[d].amount]
  BY AddAmountEntries
<1>2. DOMAIN days \cup {date} \in SUBSET Nat
  BY HolderType, DateAssumption
<1> HIDE DEF after
<1> SUFFICES ASSUME NEW d \in DOMAIN after, Earlier(after, d) = {}
             PROVE  after[d].amount_before = 0
  BY DEF NothingCarried, after
<1>3. Earlier(days, d) = {} /\ ~(date < d)
  BY <1>1, <1>2 DEF Earlier
<1>4. CASE d = date
  BY <1>1, <1>3, <1>4 DEF AmountBefore, NothingCarried
<1>5. CASE d # date
  BY <1>1, <1>3, <1>5 DEF NothingCarried
<1> QED  BY <1>4, <1>5

LEMMA AddPrevDaysAmountType ==
    ASSUME NEW days, IsHolder(days), NEW amount \in Int
    PROVE  /\ IsHolder(AddPrevDaysAmount(days, amount))
           /\ DOMAIN AddPrevDaysAmount(days, amount) = DOMAIN days
<1>1. DOMAIN days \in SUBSET Date /\ days \in [DOMAIN days -> DayAmount]
  BY HolderType
<1>2. AddPrevDaysAmount(days, amount) \in [DOMAIN days -> DayAmount]
  BY <1>1 DEF AddPrevDaysAmount, DayAmount
<1> QED  BY <1>1, <1>2, HolderIs

(* What the statistics may say: whole amounts of known days, and so their  *)
(* sums.                                                                   *)
IsSource(s) ==
    /\ s.prev_day \in Date \cup {0}
    /\ s.prev_days_amount \in Int
    /\ DOMAIN s.day_amounts \subseteq Date
    /\ s.day_amounts \in [DOMAIN s.day_amounts -> Int]

LEMMA SourceSumType ==
    ASSUME NEW s, IsSource(s), NEW days \in SUBSET DOMAIN s.day_amounts
    PROVE  SourceSum(s, days) \in Int
<1> DEFINE f == [d \in days |-> MulFloor(LimitCoef, s.day_amounts[d])]
<1>1. \A d \in days : s.day_amounts[d] \in Int
  BY DEF IsSource
<1>2. \A d \in days : f[d] \in Int
  BY <1>1, CoefType
<1>3. IsFiniteSet(days)
  BY DaysFinite DEF IsSource
<1>4. SumOver(f, days) \in Int
  <2> HIDE DEF f
  <2> QED  BY <1>2, <1>3, SumType
<1>5. MulFloor(LimitCoef, s.prev_days_amount) \in Int
  BY CoefType DEF IsSource
<1>6. SourceSum(s, days) = MulFloor(LimitCoef, s.prev_days_amount) + SumOver(f, days)
  BY DEF SourceSum
<1> QED  BY <1>4, <1>5, <1>6

LEMMA ReplaceAmountType ==
    ASSUME NEW days, IsHolder(days), NEW end \in Int, NEW source,
           source = NoSource \/ IsSource(source)
    PROVE  IsHolder(ReplaceAmount(days, source, end))
<1>1. CASE source = NoSource
  BY <1>1, FreshDaysType DEF ReplaceAmount
<1>2. CASE source # NoSource /\ source.prev_day >= end
  BY <1>2 DEF ReplaceAmount
<1>3. CASE source # NoSource /\ ~(source.prev_day >= end)
  <2> DEFINE kept == AddPrevDaysAmount(FreshDays(days, end), SourceBefore(source, end))
             prev == IF source.prev_day = 0 THEN {} ELSE {source.prev_day}
             all == DOMAIN kept \cup prev \cup SourceDays(source, end)
             entry(d) == IF d \in DOMAIN kept THEN kept[d]
                         ELSE [amount_before |-> SourceBefore(source, d),
                               amount |-> IF d \in prev THEN 0
                                          ELSE MulFloor(LimitCoef, source.day_amounts[d])]
  <2>1. IsSource(source)
    BY <1>3
  <2>2. \A d : SourceBefore(source, d) \in Int
    BY <2>1, SourceSumType DEF SourceBefore, SourceDays
  <2>3. IsHolder(kept)
    BY <2>2, FreshDaysType, AddPrevDaysAmountType
  <2>4. DOMAIN kept \in SUBSET Date /\ kept \in [DOMAIN kept -> DayAmount]
    BY <2>3, HolderType
  <2>5. prev \in SUBSET Date /\ SourceDays(source, end) \in SUBSET DOMAIN source.day_amounts
        /\ SourceDays(source, end) \in SUBSET Date
    BY <2>1 DEF IsSource, SourceDays
  <2>6. ReplaceAmount(days, source, end) = [d \in all |-> entry(d)]
    BY <1>3 DEF ReplaceAmount
  <2> HIDE DEF kept, prev
  <2>7. ASSUME NEW d \in all PROVE entry(d) \in DayAmount
    <3>1. CASE d \in DOMAIN kept
      BY <2>4, <3>1
    <3>2. CASE d \notin DOMAIN kept /\ d \in prev
      BY <2>2, <3>2 DEF DayAmount
    <3>3. CASE d \notin DOMAIN kept /\ d \notin prev
      <4>1. d \in DOMAIN source.day_amounts
        BY <2>5, <2>7, <3>3
      <4>2. source.day_amounts[d] \in Int
        BY <2>1, <4>1 DEF IsSource
      <4>3. MulFloor(LimitCoef, source.day_amounts[d]) \in Int
        BY <4>2, CoefType
      <4> QED  BY <2>2, <3>3, <4>3 DEF DayAmount
    <3> QED  BY <3>1, <3>2, <3>3
  <2>8. all \in SUBSET Date
    BY <2>4, <2>5
  <2> HIDE DEF all, entry
  <2>9. [d \in all |-> entry(d)] \in [all -> DayAmount]
    BY <2>7
  <2> QED  BY <2>6, <2>8, <2>9, HolderIs
<1> QED  BY <1>1, <1>2, <1>3

(* Statistics older than end leave the days from end on alone: each keeps  *)
(* its amount, and one that is there stays.                                *)
LEMMA ReplaceKeepsFreshDays ==
    ASSUME NEW days, IsHolder(days), NEW end \in Int, NEW source,
           source = NoSource \/ IsSource(source),
           NEW date \in Date, date >= end
    PROVE  /\ AmountOf(ReplaceAmount(days, source, end), date) = AmountOf(days, date)
           /\ date \in DOMAIN days <=> date \in DOMAIN ReplaceAmount(days, source, end)
<1> DEFINE fresh == FreshDays(days, end)
<1>1. DOMAIN days \in SUBSET Date /\ days \in [DOMAIN days -> DayAmount]
  BY HolderType
<1>2. IsHolder(fresh) /\ DOMAIN fresh = {d \in DOMAIN days : d >= end}
  BY FreshDaysType
<1>3. date \in DOMAIN fresh <=> date \in DOMAIN days
  BY <1>2
<1>4. date \in DOMAIN days => fresh[date].amount = days[date].amount
  <2> SUFFICES ASSUME date \in DOMAIN days
               PROVE  fresh[date].amount = days[date].amount
    OBVIOUS
  <2> DEFINE base == days[First({d \in DOMAIN days : d >= end})].amount_before
  <2>1. fresh = [d \in {d \in DOMAIN days : d >= end} |->
                    [days[d] EXCEPT !.amount_before = @ - base]]
    BY DEF FreshDays
  <2> HIDE DEF fresh, base
  <2>2. fresh[date] = [days[date] EXCEPT !.amount_before = @ - base]
    BY <2>1
  <2>3. days[date] \in DayAmount
    BY <1>1
  <2> QED  BY <2>2, <2>3 DEF DayAmount
<1> HIDE DEF fresh
<1>5. CASE source = NoSource
  <2>1. ReplaceAmount(days, source, end) = fresh
    BY <1>5 DEF ReplaceAmount, fresh
  <2> QED  BY <1>3, <1>4, <2>1 DEF AmountOf
<1>6. CASE source # NoSource /\ source.prev_day >= end
  BY <1>6 DEF ReplaceAmount
<1>7. CASE source # NoSource /\ ~(source.prev_day >= end)
  <2> DEFINE kept == AddPrevDaysAmount(fresh, SourceBefore(source, end))
             prev == IF source.prev_day = 0 THEN {} ELSE {source.prev_day}
             all == DOMAIN kept \cup prev \cup SourceDays(source, end)
             entry(d) == IF d \in DOMAIN kept THEN kept[d]
                         ELSE [amount_before |-> SourceBefore(source, d),
                               amount |-> IF d \in prev THEN 0
                                          ELSE MulFloor(LimitCoef, source.day_amounts[d])]
             new == ReplaceAmount(days, source, end)
  <2>1. new = [d \in all |-> entry(d)]
    BY <1>7 DEF ReplaceAmount, fresh
  <2>2. DOMAIN kept = DOMAIN fresh
    BY DEF AddPrevDaysAmount
  <2>3. date \notin prev /\ date \notin SourceDays(source, end)
    <3>1. source.prev_day \in Int /\ date \in Int
      <4>1. source.prev_day \in Date \cup {0}
        BY <1>7 DEF IsSource
      <4>2. Date \subseteq Nat
        BY DateAssumption
      <4>3. \A x \in Date \cup {0} : x \in Int
        BY <4>2
      <4> QED  BY <4>1, <4>3
    <3>2. date # source.prev_day
      BY <1>7, <3>1
    <3>3. ~(date < end)
      BY <3>1
    <3> QED  BY <3>2, <3>3 DEF SourceDays
  <2>4. date \in DOMAIN fresh => kept[date].amount = fresh[date].amount
    <3> SUFFICES ASSUME date \in DOMAIN fresh
                 PROVE  kept[date].amount = fresh[date].amount
      OBVIOUS
    <3>1. fresh[date] \in DayAmount
      BY <1>2, HolderType
    <3>2. kept[date] = [fresh[date] EXCEPT !.amount_before = @ + SourceBefore(source, end)]
      BY DEF AddPrevDaysAmount
    <3> QED  BY <3>1, <3>2 DEF DayAmount
  <2> HIDE DEF kept, prev
  <2>5. date \in all <=> date \in DOMAIN fresh
    BY <2>2, <2>3
  <2>6. date \in DOMAIN fresh => entry(date) = kept[date]
    BY <2>2
  <2> HIDE DEF all, entry, new
  <2>7. DOMAIN new = all /\ (date \in all => new[date] = entry(date))
    BY <2>1
  <2>8. date \in DOMAIN new <=> date \in DOMAIN days
    BY <1>3, <2>5, <2>7
  <2>9. date \in DOMAIN days => new[date].amount = days[date].amount
    BY <1>3, <1>4, <2>4, <2>5, <2>6, <2>7
  <2>10. AmountOf(new, date) = AmountOf(days, date)
    BY <2>8, <2>9 DEF AmountOf
  <2> QED  BY <2>8, <2>10 DEF new
<1> QED  BY <1>5, <1>6, <1>7

-----------------------------------------------------------------------------
(* Limits.                                                                 *)

Acc == [ok : BOOLEAN, allowed : Int]

(* One limit: what comes out is not more than what went in, nor than what  *)
(* is left, and stays positive.                                            *)
LEMMA WithinResult ==
    ASSUME NEW acc \in Acc, NEW left \in Int \cup {None}
    PROVE  /\ Within(acc, left) \in Acc
           /\ Within(acc, left).allowed <= acc.allowed
           /\ Within(acc, left).ok => acc.ok
           /\ acc.allowed > 0 => Within(acc, left).allowed > 0
           /\ Within(acc, left).ok /\ left # None => Within(acc, left).allowed <= left
<1>1. CASE ~acc.ok \/ left = None
  <2>1. Within(acc, left) = acc
    BY <1>1 DEF Within
  <2>2. acc.allowed \in Int
    BY DEF Acc
  <2> QED  BY <1>1, <2>1, <2>2
<1>2. CASE acc.ok /\ left # None /\ left <= 0
  <2>1. Within(acc, left) = [acc EXCEPT !.ok = FALSE]
    BY <1>2 DEF Within
  <2>2. acc.allowed \in Int
    BY DEF Acc
  <2>3. Within(acc, left) = [ok |-> FALSE, allowed |-> acc.allowed]
    BY <2>1 DEF Acc
  <2>4. ~Within(acc, left).ok /\ Within(acc, left).allowed = acc.allowed
    BY <2>3
  <2>5. Within(acc, left) \in Acc
    BY <2>2, <2>3 DEF Acc
  <2> QED  BY <2>2, <2>4, <2>5
<1>3. CASE acc.ok /\ left # None /\ ~(left <= 0)
  <2>1. Within(acc, left) = [acc EXCEPT !.allowed = Min2(left, @)]
    BY <1>3 DEF Within
  <2>2. left \in Int /\ acc.allowed \in Int
    BY <1>3 DEF Acc
  <2>3. /\ Min2(left, acc.allowed) \in Int
        /\ Min2(left, acc.allowed) <= left /\ Min2(left, acc.allowed) <= acc.allowed
        /\ acc.allowed > 0 => Min2(left, acc.allowed) > 0
    BY <1>3, <2>2 DEF Min2
  <2> QED  BY <1>3, <2>1, <2>3 DEF Acc
<1> QED  BY <1>1, <1>2, <1>3

LEMMA LeftTypes ==
    ASSUME NEW limits \in EntityLimits, NEW days, IsHolder(days), NEW date \in Int
    PROVE  /\ DailyLeft(limits, days, date) \in Int \cup {None}
           /\ TotalLeft(limits, days) \in Int \cup {None}
           /\ DynamicLeft(limits, days, date) \in Int \cup {None}
<1>1. AmountOf(days, date) \in Int /\ TotalAmount(days) \in Int
  BY AmountsType
<1>2. DailyLeft(limits, days, date) \in Int \cup {None}
  BY <1>1 DEF DailyLeft, EntityLimits
<1>3. TotalLeft(limits, days) \in Int \cup {None}
  BY <1>1 DEF TotalLeft, EntityLimits
<1>4. DynamicLeft(limits, days, date) \in Int \cup {None}
  <2> DEFINE today  == AmountOf(days, date)
             remain == RemainDays(limits, date)
             left   == limits.budget - TotalAmount(days) + today
  <2>1. CASE /\ limits.budget # None
             /\ limits.delivery_pacing = "D"
             /\ limits.adv_tz_date_end # 0
    <3>1. DynamicLeft(limits, days, date)
            = (IF remain > 0 THEN Signed(left, Magnitude(left) \div remain) ELSE 0) - today
      BY <2>1 DEF DynamicLeft
    <3>2. left \in Int /\ today \in Int /\ remain \in Int
      BY <1>1, <2>1 DEF EntityLimits, RemainDays
    <3> HIDE DEF today, remain, left
    <3>3. remain > 0 => Signed(left, Magnitude(left) \div remain) \in Int
      BY <3>2 DEF Signed, Magnitude
    <3> QED  BY <3>1, <3>2, <3>3
  <2>2. CASE ~(/\ limits.budget # None
               /\ limits.delivery_pacing = "D"
               /\ limits.adv_tz_date_end # 0)
    BY <2>2 DEF DynamicLeft
  <2> QED  BY <2>1, <2>2
<1> QED  BY <1>2, <1>3, <1>4

LEMMA CheckPositiveResult ==
    ASSUME NEW limits \in EntityLimits, NEW days, IsHolder(days), NEW date \in Int,
           NEW amount \in Int, amount > 0
    PROVE  LET check == CheckPositive(limits, days, date, amount)
           IN  /\ check \in Acc
               /\ check.allowed > 0 /\ check.allowed <= amount
               /\ check.ok /\ limits.budget # None =>
                     TotalAmount(days) + check.allowed <= limits.budget
               /\ check.ok /\ limits.delivery_pacing = "F" /\ limits.daily_budget # None =>
                     AmountOf(days, date) + check.allowed <= limits.daily_budget
<1> DEFINE start == [ok |-> TRUE, allowed |-> amount]
           byDay == Within(start, DailyLeft(limits, days, date))
           total == Within(byDay, TotalLeft(limits, days))
           check == Within(total, DynamicLeft(limits, days, date))
<1>1. start \in Acc /\ start.allowed > 0 /\ start.allowed <= amount
  BY DEF Acc
<1>2. /\ DailyLeft(limits, days, date) \in Int \cup {None}
      /\ TotalLeft(limits, days) \in Int \cup {None}
      /\ DynamicLeft(limits, days, date) \in Int \cup {None}
  BY LeftTypes
<1> HIDE DEF start
<1>3. /\ byDay \in Acc /\ byDay.allowed > 0 /\ byDay.allowed <= start.allowed
      /\ byDay.ok /\ DailyLeft(limits, days, date) # None =>
            byDay.allowed <= DailyLeft(limits, days, date)
  BY <1>1, <1>2, WithinResult
<1> HIDE DEF byDay
<1>4. /\ total \in Acc /\ total.allowed > 0 /\ total.allowed <= byDay.allowed
      /\ total.ok => byDay.ok
      /\ total.ok /\ TotalLeft(limits, days) # None =>
            total.allowed <= TotalLeft(limits, days)
  BY <1>2, <1>3, WithinResult
<1> HIDE DEF total
<1>5. /\ check \in Acc /\ check.allowed > 0 /\ check.allowed <= total.allowed
      /\ check.ok => total.ok
  BY <1>2, <1>4, WithinResult
<1>6. check = CheckPositive(limits, days, date, amount)
  BY DEF CheckPositive, start, byDay, total
<1> HIDE DEF check
<1>7. AmountOf(days, date) \in Int /\ TotalAmount(days) \in Int
  BY AmountsType
<1>8. /\ byDay.allowed \in Int /\ total.allowed \in Int /\ check.allowed \in Int
      /\ start.allowed \in Int
  BY <1>1, <1>3, <1>4, <1>5 DEF Acc
<1>9. ASSUME check.ok, limits.budget # None
      PROVE  TotalAmount(days) + check.allowed <= limits.budget
  <2>1. limits.budget \in Int
    BY <1>9 DEF EntityLimits
  <2>2. TotalLeft(limits, days) = limits.budget - TotalAmount(days)
    BY <1>9 DEF TotalLeft
  <2>3. TotalLeft(limits, days) # None
    BY <1>7, <2>1, <2>2, NoneAssumption
  <2> QED  BY <1>4, <1>5, <1>7, <1>8, <1>9, <2>1, <2>2, <2>3
<1>10. ASSUME check.ok, limits.delivery_pacing = "F", limits.daily_budget # None
       PROVE  AmountOf(days, date) + check.allowed <= limits.daily_budget
  <2>1. limits.daily_budget \in Int
    BY <1>10 DEF EntityLimits
  <2>2. DailyLeft(limits, days, date) = limits.daily_budget - AmountOf(days, date)
    BY <1>10 DEF DailyLeft
  <2>3. DailyLeft(limits, days, date) # None
    BY <1>7, <2>1, <2>2, NoneAssumption
  <2> QED  BY <1>3, <1>4, <1>5, <1>7, <1>8, <1>10, <2>1, <2>2, <2>3
<1>11. check.allowed <= amount
  BY <1>1, <1>3, <1>4, <1>5, <1>8
<1> QED  BY <1>5, <1>6, <1>9, <1>10, <1>11

LEMMA CheckNegativeResult ==
    ASSUME NEW days, IsHolder(days), NEW date \in Int, NEW amount \in Int, amount < 0
    PROVE  LET check == CheckNegative(days, date, amount)
           IN  /\ check \in Acc
               /\ check.allowed < 0 /\ amount <= check.allowed
               /\ check.ok => /\ AmountOf(days, date) + check.allowed >= 0
                              /\ TotalAmount(days) + check.allowed >= 0
<1> DEFINE start == [ok |-> TRUE, allowed |-> -amount]
           day == Within(start, AmountOf(days, date))
           back == Within(day, TotalAmount(days))
           check == CheckNegative(days, date, amount)
<1>1. start \in Acc /\ start.allowed > 0 /\ start.allowed = -amount
  BY DEF Acc
<1>2. /\ AmountOf(days, date) \in Int /\ AmountOf(days, date) # None
      /\ TotalAmount(days) \in Int /\ TotalAmount(days) # None
  BY AmountsType, NoneAssumption
<1> HIDE DEF start
<1>3. /\ day \in Acc /\ day.allowed > 0 /\ day.allowed <= start.allowed
      /\ day.ok => day.allowed <= AmountOf(days, date)
  BY <1>1, <1>2, WithinResult
<1> HIDE DEF day
<1>4. /\ back \in Acc /\ back.allowed > 0 /\ back.allowed <= day.allowed
      /\ back.ok => day.ok /\ back.allowed <= TotalAmount(days)
  BY <1>2, <1>3, WithinResult
<1> HIDE DEF back
<1>5. check = [ok |-> back.ok, allowed |-> -back.allowed]
  BY DEF CheckNegative, back, day, start
<1>6. back.ok \in BOOLEAN /\ back.allowed \in Int /\ day.allowed \in Int
  BY <1>3, <1>4 DEF Acc
<1>7. check.ok = back.ok /\ check.allowed = -back.allowed /\ check \in Acc
  BY <1>5, <1>6 DEF Acc
<1> HIDE DEF check
<1>8. check.allowed < 0 /\ amount <= check.allowed
  BY <1>1, <1>3, <1>4, <1>6, <1>7
<1>9. check.ok => /\ AmountOf(days, date) + check.allowed >= 0
                  /\ TotalAmount(days) + check.allowed >= 0
  BY <1>2, <1>3, <1>4, <1>6, <1>7
<1> QED  BY <1>7, <1>8, <1>9 DEF check

(* Before the booking the caller has an amount that is not zero and the    *)
(* day of the bid in the time zone of the advertiser. Unless it is forced, *)
(* no more is confirmed than that.                                         *)
THEOREM ConfirmAmountKeepsLimits ==
    ASSUME NEW limits \in EntityLimits, NEW days, IsHolder(days), NEW now \in Int,
           NEW amount \in Int, amount # 0, NEW forced \in BOOLEAN,
           NEW r, r = ConfirmAmount(limits, days, now, amount, forced),
           NEW date, date = AdvDate(limits, now)
    PROVE  /\ r.ok \in BOOLEAN /\ r.confirmed \in Int
           /\ ~forced /\ r.confirmed > 0 =>
                 /\ limits.budget # None => TotalAmount(days) + r.confirmed <= limits.budget
                 /\ limits.delivery_pacing = "F" /\ limits.daily_budget # None =>
                       AmountOf(days, date) + r.confirmed <= limits.daily_budget
           /\ ~forced /\ r.confirmed < 0 /\ CheckRequired(limits) =>
                 /\ AmountOf(days, date) + r.confirmed >= 0
                 /\ TotalAmount(days) + r.confirmed >= 0
           /\ ~forced => Magnitude(r.confirmed) <= Magnitude(amount)
           /\ amount > 0 => r.confirmed >= 0
<1>1. date \in Int
  BY NoneAssumption DEF AdvDate, EntityLimits
<1>2. CASE ~CheckRequired(limits)
  <2>1. r = [ok |-> TRUE, confirmed |-> amount]
    BY <1>2 DEF ConfirmAmount
  <2>2. limits.budget = None /\ limits.daily_budget = None
    BY <1>2 DEF CheckRequired
  <2>3. Magnitude(r.confirmed) <= Magnitude(amount)
    BY <2>1 DEF Magnitude
  <2> QED  BY <1>2, <2>1, <2>2, <2>3
<1>3. CASE CheckRequired(limits)
  <2> DEFINE check == Check(limits, days, date, amount)
  <2>1. r = [ok |-> check.ok, confirmed |-> IF check.ok \/ forced THEN check.allowed ELSE 0]
    BY <1>3 DEF ConfirmAmount
  <2>2. CASE amount > 0
    <3>1. check = CheckPositive(limits, days, date, amount)
      BY <2>2 DEF Check
    <3> HIDE DEF check
    <3>2. /\ check \in Acc
          /\ check.allowed > 0 /\ check.allowed <= amount
          /\ check.ok /\ limits.budget # None =>
                TotalAmount(days) + check.allowed <= limits.budget
          /\ check.ok /\ limits.delivery_pacing = "F" /\ limits.daily_budget # None =>
                AmountOf(days, date) + check.allowed <= limits.daily_budget
      BY <1>1, <2>2, <3>1, CheckPositiveResult
    <3>3. check.ok \in BOOLEAN /\ check.allowed \in Int
      BY <3>2 DEF Acc
    <3>4. r.ok = check.ok /\ r.confirmed = IF check.ok \/ forced THEN check.allowed ELSE 0
      BY <2>1
    <3>5. Magnitude(r.confirmed) <= Magnitude(amount)
      BY <3>2, <3>3, <3>4 DEF Magnitude
    <3> QED  BY <3>2, <3>3, <3>4, <3>5
  <2>3. CASE amount < 0
    <3>1. check = CheckNegative(days, date, amount)
      BY <2>3 DEF Check
    <3> HIDE DEF check
    <3>2. /\ check \in Acc
          /\ check.allowed < 0 /\ amount <= check.allowed
          /\ check.ok => /\ AmountOf(days, date) + check.allowed >= 0
                         /\ TotalAmount(days) + check.allowed >= 0
      BY <1>1, <2>3, <3>1, CheckNegativeResult
    <3>3. check.ok \in BOOLEAN /\ check.allowed \in Int
      BY <3>2 DEF Acc
    <3>4. r.ok = check.ok /\ r.confirmed = IF check.ok \/ forced THEN check.allowed ELSE 0
      BY <2>1
    <3>5. Magnitude(r.confirmed) <= Magnitude(amount)
      BY <3>2, <3>3, <3>4 DEF Magnitude
    <3> QED  BY <3>2, <3>3, <3>4, <3>5
  <2> QED  BY <2>2, <2>3
<1> QED  BY <1>2, <1>3

(* A charge of an account that is not forced fits into its budget, and is  *)
(* only taken for a whole one when all of it is confirmed.                 *)
THEOREM ConfirmAccountAmountKeepsBudget ==
    ASSUME NEW limits \in AccountLimits, NEW days, IsHolder(days), NEW amount \in Int,
           NEW forced \in BOOLEAN,
           NEW r, r = ConfirmAccountAmount(limits, days, amount, forced)
    PROVE  /\ r.ok \in BOOLEAN /\ r.confirmed \in Int
           /\ ~forced /\ r.confirmed > 0 => TotalAmount(days) + r.confirmed <= limits.budget
           /\ ~forced /\ r.ok => r.confirmed = amount
           /\ amount > 0 => r.confirmed >= 0
<1>1. limits.budget \in Int /\ TotalAmount(days) \in Int
  BY AmountsType DEF AccountLimits
<1> DEFINE left == limits.budget - TotalAmount(days)
<1>2. left \in Int
  BY <1>1
<1>3. CASE ~(left > 0) /\ ~forced
  <2>1. r = [ok |-> FALSE, confirmed |-> 0]
    BY <1>3 DEF ConfirmAccountAmount
  <2> QED  BY <2>1
<1>4. CASE (left > 0 \/ forced) /\ (forced \/ left > amount)
  <2>1. r = [ok |-> left > 0, confirmed |-> amount]
    BY <1>4 DEF ConfirmAccountAmount
  <2> QED  BY <1>1, <1>4, <2>1
<1>5. CASE left > 0 /\ ~forced /\ ~(left > amount)
  <2>1. r = [ok |-> FALSE, confirmed |-> left]
    BY <1>5 DEF ConfirmAccountAmount
  <2> QED  BY <1>1, <1>2, <1>5, <2>1
<1> QED  BY <1>3, <1>4, <1>5

-----------------------------------------------------------------------------
(* Whether a limit lets a charge through does not depend on its amount.    *)

LEMMA WithinOk ==
    ASSUME NEW acc \in Acc, NEW left \in Int \cup {None}
    PROVE  Within(acc, left).ok <=> acc.ok /\ (left = None \/ left > 0)
<1>1. acc.ok \in BOOLEAN
  BY DEF Acc
<1>2. CASE ~acc.ok \/ left = None
  BY <1>1, <1>2 DEF Within
<1>3. CASE acc.ok /\ left # None /\ left <= 0
  <2>1. Within(acc, left) = [acc EXCEPT !.ok = FALSE]
    BY <1>3 DEF Within
  <2>2. ~Within(acc, left).ok
    BY <2>1 DEF Acc
  <2> QED  BY <1>3, <2>2
<1>4. CASE acc.ok /\ left # None /\ ~(left <= 0)
  <2>1. Within(acc, left).ok = acc.ok
    BY <1>4 DEF Within, Acc
  <2> QED  BY <1>4, <2>1
<1> QED  BY <1>2, <1>3, <1>4

LEMMA CheckPositiveOk ==
    ASSUME NEW limits \in EntityLimits, NEW days, IsHolder(days), NEW date \in Int,
           NEW amount \in Int
    PROVE  CheckPositive(limits, days, date, amount).ok <=>
              \A left \in {DailyLeft(limits, days, date), TotalLeft(limits, days),
                           DynamicLeft(limits, days, date)} : left = None \/ left > 0
<1> DEFINE start == [ok |-> TRUE, allowed |-> amount]
           l1 == DailyLeft(limits, days, date)
           l2 == TotalLeft(limits, days)
           l3 == DynamicLeft(limits, days, date)
           byDay == Within(start, l1)
           total == Within(byDay, l2)
           check == Within(total, l3)
<1>1. l1 \in Int \cup {None} /\ l2 \in Int \cup {None} /\ l3 \in Int \cup {None}
  BY LeftTypes
<1>2. start \in Acc /\ start.ok = TRUE
  BY DEF Acc
<1>3. CheckPositive(limits, days, date, amount) = check
  BY DEF CheckPositive
<1> HIDE DEF start, l1, l2, l3
<1>4. byDay \in Acc /\ (byDay.ok <=> (l1 = None \/ l1 > 0))
  BY <1>1, <1>2, WithinResult, WithinOk
<1> HIDE DEF byDay
<1>5. total \in Acc /\ (total.ok <=> byDay.ok /\ (l2 = None \/ l2 > 0))
  BY <1>1, <1>4, WithinResult, WithinOk
<1> HIDE DEF total
<1>6. check.ok <=> total.ok /\ (l3 = None \/ l3 > 0)
  BY <1>1, <1>5, WithinOk
<1> HIDE DEF check
<1>7. check.ok <=> \A left \in {l1, l2, l3} : left = None \/ left > 0
  BY <1>4, <1>5, <1>6
<1> QED  BY <1>3, <1>7 DEF l1, l2, l3

(* check() of a campaign or group allows what confirm_amount() confirms a  *)
(* part of, whatever the amount. *)
THEOREM AvailableIsConfirmed ==
    ASSUME NEW limits \in EntityLimits, NEW days, IsHolder(days), NEW now \in Int,
           NEW amount \in Int, amount > 0
    PROVE  Available(limits, days, now) <=>
              ConfirmAmount(limits, days, now, amount, FALSE).confirmed > 0
<1> DEFINE date == AdvDate(limits, now)
           r == ConfirmAmount(limits, days, now, amount, FALSE)
           check == CheckPositive(limits, days, date, amount)
           one == CheckPositive(limits, days, date, 1)
<1>1. date \in Int
  BY NoneAssumption DEF AdvDate, EntityLimits
<1>2. Available(limits, days, now) <=> (CheckRequired(limits) => one.ok)
  BY DEF Available
<1>3. CASE ~CheckRequired(limits)
  <2>1. r.confirmed = amount
    BY <1>3 DEF ConfirmAmount
  <2> QED  BY <1>2, <1>3, <2>1
<1>4. CASE CheckRequired(limits)
  <2>1. r.confirmed = IF check.ok THEN check.allowed ELSE 0
    BY <1>4 DEF ConfirmAmount, Check
  <2> HIDE DEF date
  <2>2. check.allowed > 0
    BY <1>1, CheckPositiveResult
  <2>3. check.ok <=> one.ok
    BY <1>1, CheckPositiveOk
  <2> HIDE DEF check, one, r
  <2>4. r.confirmed > 0 <=> one.ok
    BY <2>1, <2>2, <2>3
  <2> QED  BY <1>2, <1>4, <2>4 DEF r
<1> QED  BY <1>3, <1>4

(* ... and so does check_available_account_budget_ for an account. *)
LEMMA AccountAvailableIsConfirmed ==
    ASSUME NEW limits \in AccountLimits, NEW days, IsHolder(days),
           NEW amount \in Int, amount > 0
    PROVE  AccountAvailable(limits, days) <=>
              ConfirmAccountAmount(limits, days, amount, FALSE).confirmed > 0
<1> DEFINE left == limits.budget - TotalAmount(days)
           r == ConfirmAccountAmount(limits, days, amount, FALSE)
<1>1. limits.budget \in Int /\ TotalAmount(days) \in Int
  BY AmountsType DEF AccountLimits
<1>2. left \in Int /\ (AccountAvailable(limits, days) <=> left > 0)
  BY <1>1 DEF AccountAvailable
<1>3. r.confirmed = IF ~(left > 0) THEN 0 ELSE IF left > amount THEN amount ELSE left
  BY DEF ConfirmAccountAmount
<1> HIDE DEF left, r
<1>4. r.confirmed > 0 <=> left > 0
  BY <1>2, <1>3
<1> QED  BY <1>2, <1>4 DEF r

-----------------------------------------------------------------------------
(* The container.                                                          *)

(* Every bid is booked on a day of the calendar: in the configuration that *)
(* is in force, and with the limits its call has taken.                    *)
ConfigDates ==
    config # None =>
        \A b \in Bids, level \in Level :
            config[level][EntityId(b, level)] # None =>
                AdvDate(config[level][EntityId(b, level)], b.time) \in Date

CallDates ==
    \A b \in Bids, level \in Level : AdvDate(call[b].limits[level], b.time) \in Date

TypeInv == TypeOK /\ ConfigDates /\ CallDates

-----------------------------------------------------------------------------
(* The constants.                                                          *)

LEMMA BidType ==
    ASSUME NEW b \in Bids
    PROVE  /\ b.time \in Int /\ b.amount \in Int /\ b.account_amount \in Int
           /\ b.imps \in Int /\ b.forced \in BOOLEAN
           /\ \A level \in Level : EntityId(b, level) \in Id /\ Requested(b, level) \in Int
<1>1. b \in [id : Nat, time : Int, account_id : Id, campaign_id : Id, ccg_id : Id,
             account_amount : Int, amount : Int, imps : Int, forced : BOOLEAN]
  BY BidAssumption
<1>2. \A level \in Level : Requested(b, level) \in Int
  BY <1>1 DEF Requested
<1>3. EntityId(b, "account") = b.account_id /\ EntityId(b, "campaign") = b.campaign_id
      /\ EntityId(b, "ccg") = b.ccg_id
  BY DEF EntityId
<1>4. \A level \in Level : EntityId(b, level) \in Id
  BY <1>1, <1>3 DEF Level
<1> QED  BY <1>1, <1>2, <1>4

LEMMA TraitsType ==
    ASSUME NEW level \in Level
    PROVE  /\ Traits(level) \in LimitsOf(level) /\ Traits(level).time_offset = 0
           /\ LimitsOf(level) \subseteq AnyLimits
<1>1. NoAccount \in AccountLimits /\ NoAccount.time_offset = 0
  BY DEF NoAccount, AccountLimits
<1>2. NoLimits \in EntityLimits /\ NoLimits.time_offset = 0
  BY DEF NoLimits, EntityLimits
<1> QED  BY <1>1, <1>2 DEF Traits, LimitsOf, AnyLimits

LEMMA NoTraitsType == NoTraits \in LimitsType
BY TraitsType DEF NoTraits, LimitsType

LEMMA DefaultDate ==
    ASSUME NEW b \in Bids, NEW level \in Level
    PROVE  AdvDate(Traits(level), b.time) \in Date
BY BidType, TraitsType, BidAssumption DEF AdvDate

LEMMA OffsetType ==
    ASSUME NEW level \in Level, NEW limits \in LimitsOf(level)
    PROVE  limits.time_offset \in Int
BY DEF LimitsOf, AccountLimits, EntityLimits

LEMMA AdaptType ==
    ASSUME NEW new \in Configs, NEW level \in Level, NEW id \in Id
    PROVE  /\ Adapt(level, new[level][id]) \in LimitsOf(level) \cup {None}
           /\ Adapt(level, new[level][id]) # None =>
                 /\ new[level][id] # None
                 /\ Adapt(level, new[level][id]).time_offset = new[level][id].time_offset
<1> DEFINE traits == new[level][id]
<1>1. traits \in ConfigTraits(level) \cup {None}
  BY ConfigAssumption
<1>2. CASE traits = None
  BY <1>2 DEF Adapt
<1>3. CASE traits # None /\ level = "account"
  <2>1. traits \in [budget : Int, time_offset : Int, active : BOOLEAN]
    BY <1>1, <1>3 DEF ConfigTraits
  <2>2. Adapt(level, traits) = [traits EXCEPT !.budget = MulFloor(LimitCoef, @)]
    BY <1>3 DEF Adapt, AdaptAccount
  <2> HIDE DEF traits
  <2>3. MulFloor(LimitCoef, traits.budget) \in Int
    BY <2>1, CoefType
  <2>4. Adapt(level, traits) \in AccountLimits
        /\ Adapt(level, traits).time_offset = traits.time_offset
    BY <2>1, <2>2, <2>3 DEF AccountLimits
  <2> QED  BY <1>3, <2>4 DEF LimitsOf, traits
<1>4. CASE traits # None /\ level # "account"
  <2>1. traits \in [budget : Int \cup {None}, daily_budget : Int \cup {None},
                    delivery_pacing : {"F", "D", "U"}, date_end : Int,
                    time_offset : Int, active : BOOLEAN]
    BY <1>1, <1>4 DEF ConfigTraits
  <2>2. Adapt(level, traits) = AdaptDeliveryLimits(traits)
    BY <1>4 DEF Adapt
  <2> HIDE DEF traits
  <2>3. Part(traits.budget) \in Int \cup {None} /\ Part(traits.daily_budget) \in Int \cup {None}
    BY <2>1, CoefType DEF Part
  <2>4. (IF traits.date_end = 0 THEN 0
         ELSE (traits.date_end + traits.time_offset) \div DayLength) \in Int
    BY <2>1, NoneAssumption
  <2>5. AdaptDeliveryLimits(traits) \in EntityLimits
        /\ AdaptDeliveryLimits(traits).time_offset = traits.time_offset
    BY <2>1, <2>3, <2>4 DEF AdaptDeliveryLimits, EntityLimits
  <2> QED  BY <1>4, <2>2, <2>5 DEF LimitsOf, traits
<1> QED  BY <1>2, <1>3, <1>4

-----------------------------------------------------------------------------
(* Parts of a step.                                                        *)

LEMMA CallUpdate ==
    ASSUME TypeInv, NEW b \in Bids, NEW new \in CallType,
           call' = [call EXCEPT ![b] = new],
           \A level \in Level : AdvDate(new.limits[level], b.time) \in Date
    PROVE  call' \in [Bids -> CallType] /\ CallDates'
<1>1. call \in [Bids -> CallType]
  BY DEF TypeInv, TypeOK
<1>2. call' \in [Bids -> CallType]
  BY <1>1
<1>3. ASSUME NEW c \in Bids, NEW level \in Level
      PROVE  AdvDate(call'[c].limits[level], c.time) \in Date
  BY <1>1 DEF TypeInv, CallDates
<1> QED  BY <1>2, <1>3 DEF CallDates

(* Booking an amount on a level: the books stay books, the entity has the  *)
(* amount more in all and on the day of the bid.                           *)
LEMMA BookResult ==
    ASSUME TypeInv, NEW b \in Bids, NEW level \in Level, NEW amount \in Int,
           Book(b, level, amount),
           NEW id, id = EntityId(b, level),
           NEW date, date = AdvDate(call[b].limits[level], b.time)
    PROVE  /\ AreBooks(books)'
           /\ booked' \in [Bids -> [Level -> Int]]
           /\ booked'[b][level] = booked[b][level] + amount
           /\ \A c \in Bids, l \in Level : <<c, l>> # <<b, level>> =>
                 booked'[c][l] = booked[c][l]
           /\ TotalAmount(books'[level][id]) = TotalAmount(books[level][id]) + amount
           /\ AmountOf(books'[level][id], date) = AmountOf(books[level][id], date) + amount
<1>1. id \in Id /\ date \in Date
  BY BidType DEF TypeInv, CallDates
<1>2. /\ books = [l \in Level |-> [i \in Id |-> books[l][i]]]
      /\ \A l \in Level, i \in Id : IsHolder(books[l][i])
  BY DEF TypeInv, TypeOK, AreBooks
<1>3. booked \in [Bids -> [Level -> Int]]
  BY DEF TypeInv, TypeOK
<1>4. booked' = [booked EXCEPT ![b][level] = @ + amount]
  BY DEF Book
<1>5. /\ booked' \in [Bids -> [Level -> Int]]
      /\ booked'[b][level] = booked[b][level] + amount
      /\ \A c \in Bids, l \in Level : <<c, l>> # <<b, level>> =>
            booked'[c][l] = booked[c][l]
  BY <1>3, <1>4
<1>6. CASE amount = 0
  <2>1. books' = books
    BY <1>6 DEF Book
  <2>2. TotalAmount(books[level][id]) \in Int /\ AmountOf(books[level][id], date) \in Int
    BY <1>1, <1>2, AmountsType
  <2> QED  BY <1>2, <1>5, <1>6, <2>1, <2>2 DEF AreBooks
<1>7. CASE amount # 0
  <2> DEFINE new == AddAmount(books[level][id], date, amount)
  <2>1. books' = [books EXCEPT ![level][id] = new]
    BY <1>7 DEF Book
  <2>2. /\ IsHolder(new)
        /\ TotalAmount(new) = TotalAmount(books[level][id]) + amount
        /\ AmountOf(new, date) = AmountOf(books[level][id], date) + amount
    BY <1>1, <1>2, AddAmountAdds
  <2> HIDE DEF new
  <2>3. /\ books' = [l \in Level |-> [i \in Id |-> books'[l][i]]]
        /\ books'[level][id] = new
        /\ \A l \in Level, i \in Id : <<l, i>> # <<level, id>> => books'[l][i] = books[l][i]
    BY <1>1, <1>2, <2>1
  <2>4. AreBooks(books')
    BY <1>2, <2>2, <2>3 DEF AreBooks
  <2> QED  BY <1>5, <2>2, <2>3, <2>4
<1> QED  BY <1>6, <1>7

LEMMA MinShareType ==
    ASSUME TypeInv, NEW b \in Bids, NEW c \in CallType, NEW done \in SUBSET Level
    PROVE  /\ MinShare(b, c, done) \in Nat
           /\ \A level \in done : Requested(b, level) # 0 =>
                 MinShare(b, c, done) <= Share(c.confirmed[level], Requested(b, level))
<1> DEFINE shares == {Unit} \cup {Share(c.confirmed[level], Requested(b, level)) :
                         level \in {l \in done : Requested(b, l) # 0}}
<1>1. ASSUME NEW level \in Level, Requested(b, level) # 0
      PROVE  Share(c.confirmed[level], Requested(b, level)) \in Nat
  <2>1. c.confirmed[level] \in Int /\ Requested(b, level) \in Int
    BY BidType DEF CallType
  <2>2. /\ Magnitude(c.confirmed[level]) * Unit \in Nat
        /\ Magnitude(Requested(b, level)) \in Nat \ {0}
    BY <1>1, <2>1, UnitAssumption DEF Magnitude
  <2> QED  BY <2>2 DEF Share
<1>2. shares \in SUBSET Nat /\ shares # {}
  BY <1>1, UnitAssumption
<1>3. MinShare(b, c, done) = First(shares)
  BY DEF MinShare
<1>4. \A level \in done : Requested(b, level) # 0 =>
         Share(c.confirmed[level], Requested(b, level)) \in shares
  OBVIOUS
<1> HIDE DEF shares
<1>5. First(shares) \in shares /\ \A e \in shares : First(shares) <= e
  BY <1>2, FirstResult
<1> QED  BY <1>2, <1>3, <1>4, <1>5

LEMMA RecalcType ==
    ASSUME TypeInv, NEW b \in Bids, NEW c \in CallType, NEW done \in SUBSET Level
    PROVE  /\ RecalcRemindAmounts(b, c, done) \in CallType
           /\ RecalcRemindAmounts(b, c, done).limits = c.limits
<1> DEFINE target == [level \in Level |-> MulFloor(MinShare(b, c, done), Requested(b, level))]
           revert == [level \in Level |->
                         IF level \in done /\ target[level] # c.confirmed[level]
                         THEN c.confirmed[level] - target[level]
                         ELSE c.revert[level]]
           available == [level \in Level |-> IF level \in done THEN 0 ELSE target[level]]
<1>1. target \in [Level -> Int]
  <2>1. MinShare(b, c, done) \in Int
    BY MinShareType
  <2> QED  BY <2>1, MulFloorType, BidType
<1> HIDE DEF target
<1>2. revert \in [Level -> Int] /\ available \in [Level -> Int]
  BY <1>1 DEF CallType
<1>3. RecalcRemindAmounts(b, c, done) = [c EXCEPT !.revert = revert, !.available = available]
  BY DEF RecalcRemindAmounts, CallType, target
<1> HIDE DEF revert, available
<1> QED  BY <1>2, <1>3 DEF CallType

LEMMA SettledType ==
    ASSUME NEW b \in Bids, NEW c \in CallType,
           \A level \in Level : AdvDate(c.limits[level], b.time) \in Date
    PROVE  /\ Settled(c) \in CallType
           /\ \A level \in Level : AdvDate(Settled(c).limits[level], b.time) \in Date
<1>1. NoTraits \in LimitsType /\ \A level \in Level : NoTraits[level] = Traits(level)
  BY NoTraitsType DEF NoTraits
<1>2. CASE \E level \in Level : c.revert[level] # 0
  <2>1. Settled(c) = [c EXCEPT !.pc = "revert"]
    BY <1>2 DEF Settled
  <2> QED  BY <2>1 DEF CallType
<1>3. CASE ~\E level \in Level : c.revert[level] # 0
  <2>1. Settled(c) = [c EXCEPT !.pc = "done", !.limits = NoTraits]
    BY <1>3 DEF Settled
  <2>2. Settled(c) \in CallType /\ Settled(c).limits = NoTraits
    BY <1>1, <2>1 DEF CallType
  <2> QED  BY <1>1, <2>2, DefaultDate
<1> QED  BY <1>2, <1>3

LEMMA LimitsType1 ==
    ASSUME TypeInv, NEW b \in Bids
    PROVE  /\ [level \in Level |-> Limits(b, level)] \in LimitsType
           /\ \A level \in Level : AdvDate(Limits(b, level), b.time) \in Date
<1>1. ASSUME NEW level \in Level
      PROVE  /\ Limits(b, level) \in LimitsOf(level) /\ Limits(b, level) \in AnyLimits
             /\ AdvDate(Limits(b, level), b.time) \in Date
  <2>1. CASE config # None /\ config[level][EntityId(b, level)] # None
    <3>1. Limits(b, level) = config[level][EntityId(b, level)]
      BY <2>1 DEF Limits
    <3>2. EntityId(b, level) \in Id /\ config \in ConfigType
      BY <2>1, BidType DEF TypeInv, TypeOK
    <3>3. config[level][EntityId(b, level)] \in LimitsOf(level) \cup {None}
      BY <3>2 DEF ConfigType
    <3>4. Limits(b, level) \in LimitsOf(level)
      BY <2>1, <3>1, <3>3
    <3>5. AdvDate(Limits(b, level), b.time) \in Date
      BY <2>1, <3>1 DEF TypeInv, ConfigDates
    <3> QED  BY <3>4, <3>5, TraitsType
  <2>2. CASE ~(config # None /\ config[level][EntityId(b, level)] # None)
    <3>1. Limits(b, level) = Traits(level)
      BY <2>2 DEF Limits
    <3> QED  BY <3>1, TraitsType, DefaultDate
  <2> QED  BY <2>1, <2>2
<1> QED  BY <1>1 DEF LimitsType

-----------------------------------------------------------------------------
(* One lemma per action.                                                   *)

LEMMA InitType == Init => TypeInv
<1> SUFFICES ASSUME Init PROVE TypeInv
  OBVIOUS
<1>1. AreBooks(books)
  BY NoDaysType DEF Init, AreBooks
<1>2. Zero \in [Level -> Int]
  BY DEF Zero
<1>3. NewCall \in CallType /\ NewCall.limits = NoTraits
  BY <1>2, NoTraitsType DEF NewCall, CallType
<1>4. call \in [Bids -> CallType] /\ \A b \in Bids : call[b].limits = NoTraits
  BY <1>3 DEF Init
<1>5. CallDates
  BY <1>4, DefaultDate DEF CallDates, NoTraits
<1>6. imps \in [Id -> [Id -> Int]] /\ booked \in [Bids -> [Level -> Int]]
  BY <1>2 DEF Init
<1>7. config = None /\ stat = None /\ aborted = FALSE
  BY DEF Init
<1>8. TypeOK
  BY <1>1, <1>4, <1>6, <1>7 DEF TypeOK
<1>9. ConfigDates
  BY <1>7 DEF ConfigDates
<1> QED  BY <1>5, <1>8, <1>9 DEF TypeInv

LEMMA NewConfigType ==
    ASSUME NEW new \in Configs, Config(new)
    PROVE  config' \in ConfigType
<1>1. config' = [level \in Level |-> [id \in Id |-> Adapt(level, new[level][id])]]
  BY DEF Config
<1>2. \A level \in Level, id \in Id :
         Adapt(level, new[level][id]) \in LimitsOf(level) \cup {None}
  BY AdaptType
<1>3. \A level \in Level : LimitsOf(level) \subseteq AnyLimits
  BY TraitsType
<1>4. config' \in [Level -> [Id -> AnyLimits \cup {None}]]
  BY <1>1, <1>2, <1>3
<1> QED  BY <1>1, <1>2, <1>4 DEF ConfigType

LEMMA ConfigStep ==
    ASSUME TypeInv, NEW new \in Configs, Config(new)
    PROVE  TypeInv'
<1>1. config' = [level \in Level |-> [id \in Id |-> Adapt(level, new[level][id])]]
  BY DEF Config
<1>2. config' \in ConfigType
  BY NewConfigType
<1>3. ConfigDates'
  <2>1. ASSUME NEW b \in Bids, NEW level \in Level,
               config'[level][EntityId(b, level)] # None
        PROVE  AdvDate(config'[level][EntityId(b, level)], b.time) \in Date
    <3> DEFINE id == EntityId(b, level)
    <3>1. id \in Id
      BY BidType
    <3>2. config'[level][id] = Adapt(level, new[level][id])
      BY <1>1, <3>1
    <3>3. new[level][id] # None /\ config'[level][id].time_offset = new[level][id].time_offset
      BY <2>1, <3>1, <3>2, AdaptType
    <3>4. (b.time + new[level][id].time_offset) \div DayLength \in Date
      BY <3>3, BidAssumption
    <3> QED  BY <3>3, <3>4 DEF AdvDate
  <2> QED  BY <2>1 DEF ConfigDates
<1> QED  BY <1>2, <1>3 DEF Config, TypeInv, TypeOK, CallDates, AreBooks

LEMMA BeginStep ==
    ASSUME TypeInv, NEW b \in Bids, Begin(b)
    PROVE  TypeInv'
<1>1. call[b] \in CallType
  BY DEF TypeInv, TypeOK
<1>2. CASE b.forced \/ Resolved(b)
  <2> DEFINE limits == [level \in Level |-> Limits(b, level)]
             available == [level \in Level |-> Requested(b, level)]
             new == [call[b] EXCEPT !.pc = "account", !.limits = limits,
                                    !.available = available, !.imps = b.imps]
  <2>1. limits \in LimitsType
        /\ \A level \in Level : AdvDate(limits[level], b.time) \in Date
    BY LimitsType1
  <2>2. available \in [Level -> Int] /\ b.imps \in Int
    BY BidType
  <2>3. call' = [call EXCEPT ![b] = new]
    BY <1>2 DEF Begin
  <2> HIDE DEF limits, available
  <2>4. "account" \in Level
    BY DEF Level
  <2>5. new \in CallType /\ new.limits = limits
    BY <1>1, <2>1, <2>2, <2>4 DEF CallType
  <2> HIDE DEF new
  <2>6. call' \in [Bids -> CallType] /\ CallDates'
    BY <2>1, <2>3, <2>5, CallUpdate
  <2> QED  BY <2>6 DEF Begin, TypeInv, TypeOK, ConfigDates, AreBooks
<1>3. CASE ~(b.forced \/ Resolved(b))
  <2> DEFINE new == [call[b] EXCEPT !.pc = "done", !.ok = FALSE]
  <2>1. call' = [call EXCEPT ![b] = new]
    BY <1>3 DEF Begin
  <2>2. new \in CallType /\ new.limits = call[b].limits
    BY <1>1 DEF CallType
  <2> HIDE DEF new
  <2>3. call' \in [Bids -> CallType] /\ CallDates'
    BY <2>1, <2>2, CallUpdate DEF TypeInv, CallDates
  <2> QED  BY <2>3 DEF Begin, TypeInv, TypeOK, ConfigDates, AreBooks
<1> QED  BY <1>2, <1>3

LEMMA ConfirmStep ==
    ASSUME TypeInv, NEW b \in Bids, NEW level \in Level, NEW result,
           result.ok \in BOOLEAN, result.confirmed \in Int,
           Confirm(b, level, result)
    PROVE  TypeInv'
<1> DEFINE c == [call[b] EXCEPT !.pc = After(level), !.confirmed[level] = result.confirmed,
                                !.ok = @ /\ result.ok]
           new == IF result.ok \/ b.forced THEN c ELSE RecalcRemindAmounts(b, c, Done(level))
<1>1. call[b] \in CallType
  BY DEF TypeInv, TypeOK
<1>2. After(level) \in {"campaign", "ccg", "rate"} /\ Done(level) \in SUBSET Level
  BY DEF After, Done, Level
<1>3. c \in CallType /\ c.limits = call[b].limits
  <2>1. After(level) \in {"new", "rate", "revert", "done"} \cup Level
    BY <1>2 DEF Level
  <2>2. [call[b].confirmed EXCEPT ![level] = result.confirmed] \in [Level -> Int]
    BY <1>1 DEF CallType
  <2>3. (call[b].ok /\ result.ok) \in BOOLEAN
    OBVIOUS
  <2>4. c = [call[b] EXCEPT !.pc = After(level),
                            !.confirmed = [call[b].confirmed EXCEPT ![level] = result.confirmed],
                            !.ok = call[b].ok /\ result.ok]
    BY <1>1 DEF CallType
  <2> QED  BY <1>1, <2>1, <2>2, <2>3, <2>4 DEF CallType
<1>4. call' = [call EXCEPT ![b] = new]
  BY DEF Confirm
<1> HIDE DEF c
<1>5. new \in CallType /\ new.limits = call[b].limits
  BY <1>2, <1>3, RecalcType
<1> HIDE DEF new
<1>6. call' \in [Bids -> CallType] /\ CallDates'
  BY <1>4, <1>5, CallUpdate DEF TypeInv, CallDates
<1>7. AreBooks(books)' /\ booked' \in [Bids -> [Level -> Int]]
  BY BookResult DEF Confirm
<1> QED  BY <1>6, <1>7 DEF Confirm, TypeInv, TypeOK, ConfigDates

LEMMA ConfirmAccountResult ==
    ASSUME TypeInv, NEW b \in Bids, ConfirmAccount(b)
    PROVE  \E result :
              /\ Confirm(b, "account", result)
              /\ result.ok \in BOOLEAN /\ result.confirmed \in Int
              /\ ~b.forced /\ result.confirmed > 0 =>
                    TotalAmount(books["account"][EntityId(b, "account")]) + result.confirmed
                       <= call[b].limits["account"].budget
              /\ ~b.forced /\ result.ok => result.confirmed = call[b].available["account"]
              /\ call[b].available["account"] > 0 => result.confirmed >= 0
<1> DEFINE days == books["account"][b.account_id]
           result == ConfirmAccountAmount(call[b].limits["account"], days,
                                          call[b].available["account"], b.forced)
<1>1. "account" \in Level /\ EntityId(b, "account") = b.account_id /\ call[b] \in CallType
  BY DEF Level, EntityId, TypeInv, TypeOK
<1>2. IsHolder(days) /\ b.forced \in BOOLEAN
  BY <1>1, BidType DEF TypeInv, TypeOK, AreBooks
<1>3. call[b].limits["account"] \in AccountLimits /\ call[b].available["account"] \in Int
  BY <1>1 DEF CallType, LimitsType, LimitsOf
<1>4. Confirm(b, "account", result)
  BY DEF ConfirmAccount
<1> HIDE DEF days
<1>5. /\ result.ok \in BOOLEAN /\ result.confirmed \in Int
      /\ ~b.forced /\ result.confirmed > 0 =>
            TotalAmount(days) + result.confirmed <= call[b].limits["account"].budget
      /\ ~b.forced /\ result.ok => result.confirmed = call[b].available["account"]
      /\ call[b].available["account"] > 0 => result.confirmed >= 0
  BY <1>2, <1>3, ConfirmAccountAmountKeepsBudget
<1> HIDE DEF result
<1> QED  BY <1>1, <1>4, <1>5 DEF days

LEMMA ConfirmBidResult ==
    ASSUME TypeInv, NEW b \in Bids, NEW level \in {"campaign", "ccg"}, ConfirmBid(b, level),
           NEW days, days = books[level][EntityId(b, level)],
           NEW limits, limits = call[b].limits[level],
           NEW date, date = AdvDate(limits, b.time)
    PROVE  \E result :
              /\ Confirm(b, level, result)
              /\ result.ok \in BOOLEAN /\ result.confirmed \in Int
              /\ ~b.forced /\ result.confirmed > 0 =>
                    /\ limits.budget # None => TotalAmount(days) + result.confirmed <= limits.budget
                    /\ limits.delivery_pacing = "F" /\ limits.daily_budget # None =>
                          AmountOf(days, date) + result.confirmed <= limits.daily_budget
              /\ ~b.forced /\ result.confirmed < 0 /\ CheckRequired(limits) =>
                    /\ AmountOf(days, date) + result.confirmed >= 0
                    /\ TotalAmount(days) + result.confirmed >= 0
              /\ ~b.forced => /\ Magnitude(result.confirmed) <= Magnitude(call[b].available[level])
                              /\ ~result.ok => result.confirmed = 0
              /\ call[b].available[level] > 0 => result.confirmed >= 0
<1> DEFINE amount == call[b].available[level]
           result == ConfirmAmount(limits, days, b.time, amount, b.forced)
<1>1. level \in Level /\ level # "account" /\ call[b] \in CallType
  BY DEF Level, TypeInv, TypeOK
<1>2. IsHolder(days) /\ b.forced \in BOOLEAN /\ b.time \in Int
  BY <1>1, BidType DEF TypeInv, TypeOK, AreBooks
<1>3. limits \in EntityLimits /\ amount \in Int
  BY <1>1 DEF CallType, LimitsType, LimitsOf
<1>4. Confirm(b, level, result)
  BY DEF ConfirmBid
<1>5. amount # 0
  BY <1>4 DEF Confirm
<1>6. result = ConfirmAmount(limits, days, b.time, amount, b.forced)
  OBVIOUS
<1>7. amount = call[b].available[level]
  OBVIOUS
<1> HIDE DEF amount, result
<1>8. b.forced \in BOOLEAN /\ b.time \in Int /\ amount \in Int /\ amount # 0
  BY <1>2, <1>3, <1>5
<1>9. /\ result.ok \in BOOLEAN /\ result.confirmed \in Int
      /\ ~b.forced /\ result.confirmed > 0 =>
            /\ limits.budget # None => TotalAmount(days) + result.confirmed <= limits.budget
            /\ limits.delivery_pacing = "F" /\ limits.daily_budget # None =>
                  AmountOf(days, date) + result.confirmed <= limits.daily_budget
      /\ ~b.forced /\ result.confirmed < 0 /\ CheckRequired(limits) =>
            /\ AmountOf(days, date) + result.confirmed >= 0
            /\ TotalAmount(days) + result.confirmed >= 0
  BY <1>2, <1>3, <1>5, <1>6, ConfirmAmountKeepsLimits
<1>10. /\ ~b.forced => Magnitude(result.confirmed) <= Magnitude(amount)
       /\ amount > 0 => result.confirmed >= 0
  BY <1>2, <1>3, <1>5, <1>6, ConfirmAmountKeepsLimits
<1>11. ~b.forced /\ ~result.ok => result.confirmed = 0
  BY <1>6 DEF ConfirmAmount
<1> QED  BY <1>4, <1>7, <1>9, <1>10, <1>11

LEMMA SkipStep ==
    ASSUME TypeInv, NEW b \in Bids, NEW level \in Level, Skip(b, level)
    PROVE  TypeInv'
<1> DEFINE new == [call[b] EXCEPT !.pc = After(level)]
<1>1. call[b] \in CallType
  BY DEF TypeInv, TypeOK
<1>2. After(level) \in {"new", "rate", "revert", "done"} \cup Level
  BY DEF After, Level
<1>3. new \in CallType /\ new.limits = call[b].limits
  BY <1>1, <1>2 DEF CallType
<1>4. call' = [call EXCEPT ![b] = new]
  BY DEF Skip
<1> HIDE DEF new
<1>5. call' \in [Bids -> CallType] /\ CallDates'
  BY <1>3, <1>4, CallUpdate DEF TypeInv, CallDates
<1> QED  BY <1>5 DEF Skip, TypeInv, TypeOK, ConfigDates, AreBooks

LEMMA ConfirmBidRateStep ==
    ASSUME TypeInv, NEW b \in Bids, ConfirmBidRate(b)
    PROVE  TypeInv'
<1> DEFINE confirmed == IF b.amount = 0 THEN b.imps
                        ELSE MulFloor(Share(call[b].confirmed["ccg"], b.amount), b.imps)
           c == [call[b] EXCEPT !.imps = @ - confirmed]
           new == Settled(c)
<1>1. call[b] \in CallType /\ b.amount \in Int /\ b.imps \in Int
  BY BidType DEF TypeInv, TypeOK
<1>2. confirmed \in Int
  <2>1. CASE b.amount = 0
    BY <1>1, <2>1
  <2>2. CASE b.amount # 0
    <3>1. call[b].confirmed["ccg"] \in Int
      BY <1>1 DEF CallType, Level
    <3>2. /\ Magnitude(call[b].confirmed["ccg"]) * Unit \in Int
          /\ Magnitude(b.amount) \in Nat \ {0}
      BY <1>1, <2>2, <3>1, UnitAssumption DEF Magnitude
    <3>3. Share(call[b].confirmed["ccg"], b.amount) \in Int
      BY <3>2 DEF Share
    <3> QED  BY <1>1, <2>2, <3>3, MulFloorType
  <2> QED  BY <2>1, <2>2
<1>3. /\ imps' = [imps EXCEPT ![b.campaign_id][b.ccg_id] = @ + confirmed]
      /\ call' = [call EXCEPT ![b] = new]
  BY DEF ConfirmBidRate
<1> HIDE DEF confirmed
<1>4. c \in CallType /\ c.limits = call[b].limits
  BY <1>1, <1>2 DEF CallType
<1> HIDE DEF c
<1>5. new \in CallType /\ \A level \in Level : AdvDate(new.limits[level], b.time) \in Date
  BY <1>4, SettledType DEF TypeInv, CallDates
<1> HIDE DEF new
<1>6. call' \in [Bids -> CallType] /\ CallDates'
  BY <1>3, <1>5, CallUpdate
<1>7. imps' \in [Id -> [Id -> Int]]
  <2>1. b.campaign_id \in Id /\ b.ccg_id \in Id
    BY BidAssumption
  <2>2. imps \in [Id -> [Id -> Int]]
    BY DEF TypeInv, TypeOK
  <2> DEFINE row == [imps[b.campaign_id] EXCEPT ![b.ccg_id] = @ + confirmed]
  <2>3. row \in [Id -> Int]
    BY <1>2, <2>1, <2>2
  <2>4. imps' = [imps EXCEPT ![b.campaign_id] = row]
    BY <1>3
  <2> HIDE DEF row
  <2> QED  BY <2>2, <2>3, <2>4
<1> QED  BY <1>6, <1>7 DEF ConfirmBidRate, TypeInv, TypeOK, ConfigDates, AreBooks

LEMMA RevertStep ==
    ASSUME TypeInv, NEW b \in Bids, RevertConfirmedBid(b)
    PROVE  TypeInv'
<1> DEFINE level == NextRevert(call[b])
           c == [call[b] EXCEPT !.revert[level] = 0,
                                !.confirmed[level] = @ - call[b].revert[level]]
           new == Settled(c)
<1>1. call[b] \in CallType
  BY DEF TypeInv, TypeOK
<1>2. level \in Level
  BY DEF NextRevert, Level
<1>3. CASE books[level][EntityId(b, level)] = NoDays
  <2>1. aborted' = TRUE /\ UNCHANGED <<config, books, imps, call, stat, booked>>
    BY <1>3 DEF RevertConfirmedBid
  <2> QED  BY <2>1 DEF TypeInv, TypeOK, ConfigDates, CallDates, AreBooks
<1>4. CASE books[level][EntityId(b, level)] # NoDays
  <2>1. /\ Book(b, level, -call[b].revert[level])
        /\ call' = [call EXCEPT ![b] = new]
        /\ UNCHANGED <<config, imps, stat, aborted>>
    BY <1>4 DEF RevertConfirmedBid
  <2> HIDE DEF level
  <2>2. -call[b].revert[level] \in Int
    BY <1>1, <1>2 DEF CallType
  <2>3. AreBooks(books)' /\ booked' \in [Bids -> [Level -> Int]]
    BY <1>2, <2>1, <2>2, BookResult
  <2>4. c \in CallType /\ c.limits = call[b].limits
    <3>1. /\ [call[b].revert EXCEPT ![level] = 0] \in [Level -> Int]
          /\ [call[b].confirmed EXCEPT ![level] = @ - call[b].revert[level]] \in [Level -> Int]
      BY <1>1, <1>2 DEF CallType
    <3>2. c = [call[b] EXCEPT
                 !.revert = [call[b].revert EXCEPT ![level] = 0],
                 !.confirmed = [call[b].confirmed EXCEPT ![level] = @ - call[b].revert[level]]]
      BY <1>1 DEF CallType
    <3> QED  BY <1>1, <3>1, <3>2 DEF CallType
  <2> HIDE DEF c
  <2>5. new \in CallType /\ \A l \in Level : AdvDate(new.limits[l], b.time) \in Date
    BY <2>4, SettledType DEF TypeInv, CallDates
  <2> HIDE DEF new
  <2>6. call' \in [Bids -> CallType] /\ CallDates'
    BY <2>1, <2>5, CallUpdate
  <2> QED  BY <2>1, <2>3, <2>6 DEF TypeInv, TypeOK, ConfigDates
<1> QED  BY <1>3, <1>4

LEMMA StatStep ==
    ASSUME TypeInv, NEW source \in Stats, Stat(source)
    PROVE  TypeInv'
<1>1. /\ stat' = [source |-> source, config |-> config, level |-> "account"]
      /\ UNCHANGED <<config, books, imps, call, booked, aborted>>
  BY DEF Stat
<1>2. "account" \in Level /\ config \in ConfigType \cup {None}
  BY DEF Level, TypeInv, TypeOK
<1>3. stat' \in [source : Stats, config : ConfigType \cup {None}, level : Level]
  BY <1>1, <1>2
<1> QED  BY <1>1, <1>3 DEF TypeInv, TypeOK, ConfigDates, CallDates, AreBooks

LEMMA EndDateType ==
    ASSUME NEW level \in Level, NEW limits \in LimitsOf(level) \cup {None}
    PROVE  UseSourceEndDate(limits) \in Int
<1>1. (IF limits = None THEN -MaxOffset ELSE limits.time_offset) \in Int
  BY OffsetType, StatAssumption
<1>2. Now \in Int /\ StatDelay \in Int /\ DayLength \in Nat \ {0}
  BY StatAssumption, NoneAssumption
<1> DEFINE offset == IF limits = None THEN -MaxOffset ELSE limits.time_offset
<1>3. UseSourceEndDate(limits) = (Now - StatDelay + offset) \div DayLength
  BY DEF UseSourceEndDate
<1> HIDE DEF offset
<1> QED  BY <1>1, <1>2, <1>3 DEF offset

LEMMA OffsetEntityType ==
    ASSUME NEW local \in SUBSET Id, NEW id \in Id
    PROVE  OffsetEntity(local, id) \in Id
<1> DEFINE later == {l \in local : l >= id}
<1>1. CASE later = {}
  BY <1>1 DEF OffsetEntity
<1>2. CASE later # {}
  <2>1. later \in SUBSET Nat /\ OffsetEntity(local, id) = First(later)
    BY <1>2, IdAssumption DEF OffsetEntity
  <2>2. First(later) \in later
    BY <1>2, <2>1, FirstResult
  <2> QED  BY <2>1, <2>2
<1> QED  BY <1>1, <1>2

LEMMA ReplaceStep ==
    ASSUME TypeInv, ReplaceAmounts
    PROVE  TypeInv'
<1> DEFINE level == stat.level
           local == {id \in Id : books[level][id] # NoDays}
           limits(id) == IF stat.config = None THEN None
                         ELSE stat.config[level][OffsetEntity(local, id)]
           new(id) == ReplaceAmount(books[level][id], stat.source[level][id],
                                    UseSourceEndDate(limits(id)))
<1>1. /\ level \in Level /\ stat.source \in Stats /\ stat.config \in ConfigType \cup {None}
      /\ stat \in [source : Stats, config : ConfigType \cup {None}, level : Level]
  BY DEF ReplaceAmounts, TypeInv, TypeOK
<1>2. /\ books = [l \in Level |-> [id \in Id |-> books[l][id]]]
      /\ \A l \in Level, id \in Id : IsHolder(books[l][id])
  BY DEF TypeInv, TypeOK, AreBooks
<1>3. ASSUME NEW id \in Id
      PROVE  IsHolder(new(id))
  <2>1. OffsetEntity(local, id) \in Id
    BY OffsetEntityType
  <2>2. limits(id) \in LimitsOf(level) \cup {None}
    <3>1. CASE stat.config = None
      BY <3>1
    <3>2. CASE stat.config # None
      <4>1. stat.config \in ConfigType
        BY <1>1, <3>2
      <4>2. \A l \in Level, i \in Id : stat.config[l][i] \in LimitsOf(l) \cup {None}
        BY <4>1 DEF ConfigType
      <4> HIDE DEF local
      <4> QED  BY <1>1, <2>1, <3>2, <4>2
    <3> QED  BY <3>1, <3>2
  <2> DEFINE end == UseSourceEndDate(limits(id))
             source == stat.source[level][id]
  <2>3. end \in Int
    BY <1>1, <2>2, EndDateType
  <2>4. source # NoSource => IsSource(source)
    BY <1>1, StatAssumption DEF IsSource
  <2> HIDE DEF end, source
  <2>5. IsHolder(ReplaceAmount(books[level][id], source, end))
    BY <1>1, <1>2, <2>3, <2>4, ReplaceAmountType
  <2> QED  BY <2>5 DEF end, source
<1>4. books' = [books EXCEPT ![level] = [id \in Id |-> new(id)]]
  BY <1>2, <1>1 DEF ReplaceAmounts
<1> HIDE DEF new
<1>5. AreBooks(books)'
  <2> HIDE DEF level
  <2>1. /\ books' = [l \in Level |-> IF l = level THEN [id \in Id |-> new(id)] ELSE books[l]]
    BY <1>1, <1>2, <1>4
  <2>2. /\ books' = [l \in Level |-> [id \in Id |-> books'[l][id]]]
        /\ \A l \in Level, id \in Id :
              books'[l][id] = IF l = level THEN new(id) ELSE books[l][id]
    BY <1>1, <1>2, <2>1
  <2>3. \A l \in Level, id \in Id : IsHolder(books'[l][id])
    BY <1>2, <1>3, <2>2
  <2> QED  BY <2>2, <2>3 DEF AreBooks
<1>6. stat' \in [source : Stats, config : ConfigType \cup {None}, level : Level] \cup {None}
  <2>1. stat' = CASE level = "account"  -> [stat EXCEPT !.level = "campaign"]
                  [] level = "campaign" -> [stat EXCEPT !.level = "ccg"]
                  [] level = "ccg"      -> None
    BY DEF ReplaceAmounts
  <2>2. "campaign" \in Level /\ "ccg" \in Level
    BY DEF Level
  <2>3. CASE level = "account"
    <3>1. stat' = [stat EXCEPT !.level = "campaign"]
      BY <2>1, <2>3
    <3> QED  BY <1>1, <2>2, <3>1
  <2>4. CASE level = "campaign"
    <3>1. stat' = [stat EXCEPT !.level = "ccg"]
      BY <2>1, <2>4
    <3> QED  BY <1>1, <2>2, <3>1
  <2>5. CASE level = "ccg"
    BY <2>1, <2>5
  <2> QED  BY <1>1, <2>3, <2>4, <2>5 DEF Level
<1>7. UNCHANGED <<config, imps, call, booked, aborted>>
  BY DEF ReplaceAmounts
<1> QED  BY <1>5, <1>6, <1>7 DEF TypeInv, TypeOK, ConfigDates, CallDates

LEMMA ConfirmAnyStep ==
    ASSUME TypeInv, NEW b \in Bids
    PROVE  /\ ConfirmAccount(b) => TypeInv'
           /\ \A level \in {"campaign", "ccg"} : ConfirmBid(b, level) => TypeInv'
<1>1. ASSUME ConfirmAccount(b) PROVE TypeInv'
  <2>1. PICK result : Confirm(b, "account", result)
                      /\ result.ok \in BOOLEAN /\ result.confirmed \in Int
    BY <1>1, ConfirmAccountResult
  <2>2. "account" \in Level
    BY DEF Level
  <2> QED  BY <2>1, <2>2, ConfirmStep
<1>2. ASSUME NEW level \in {"campaign", "ccg"}, ConfirmBid(b, level) PROVE TypeInv'
  <2>1. PICK result : Confirm(b, level, result)
                      /\ result.ok \in BOOLEAN /\ result.confirmed \in Int
    BY <1>2, ConfirmBidResult
  <2>2. level \in Level
    BY DEF Level
  <2> QED  BY <2>1, <2>2, ConfirmStep
<1> QED  BY <1>1, <1>2

LEMMA NextType ==
    ASSUME TypeInv, [Next]_vars
    PROVE  TypeInv'
<1>1. CASE UNCHANGED vars
  BY <1>1 DEF vars, TypeInv, TypeOK, ConfigDates, CallDates, AreBooks
<1>2. ASSUME NEW new \in Configs, Config(new) PROVE TypeInv'
  BY <1>2, ConfigStep
<1>3. ASSUME NEW b \in Bids, CallNext(b) PROVE TypeInv'
  BY <1>3, BeginStep, ConfirmAnyStep, SkipStep, ConfirmBidRateStep, RevertStep DEF CallNext
<1>4. ASSUME NEW source \in Stats, Stat(source) PROVE TypeInv'
  BY <1>4, StatStep
<1>5. CASE ReplaceAmounts
  BY <1>5, ReplaceStep
<1> QED  BY <1>1, <1>2, <1>3, <1>4, <1>5 DEF Next

LEMMA TypeInvariant == Spec => []TypeInv
<1>1. Init => TypeInv
  BY InitType
<1>2. TypeInv /\ [Next]_vars => TypeInv'
  BY NextType
<1> QED  BY <1>1, <1>2, PTL DEF Spec

-----------------------------------------------------------------------------

(* Whatever accounts, campaigns and groups there are and whatever the      *)
(* configurations and statistics say, the state of the billing server      *)
(* stays of its type: in particular confirm_bid and stat leave every       *)
(* amount holder one whose days are all days of the calendar.              *)
THEOREM TypeCorrect == Spec => []TypeOK
<1>1. TypeInv => TypeOK
  BY DEF TypeInv
<1> QED  BY <1>1, TypeInvariant, PTL

(* A step that books nothing for the bid on the level keeps the limits.    *)
LEMMA NothingBooked ==
    ASSUME TypeInv, NEW b \in Bids, NEW level \in Level,
           booked'[b][level] = booked[b][level]
    PROVE  KeepsLimits(b, level)
<1>1. booked[b][level] \in Int
  BY DEF TypeInv, TypeOK
<1>2. ~(booked'[b][level] > booked[b][level]) /\ ~(booked'[b][level] < booked[b][level])
  BY <1>1
<1> QED  BY <1>2 DEF KeepsLimits

LEMMA OthersBookNothing ==
    ASSUME TypeInv, NEW b \in Bids, NEW level \in Level, NEW c \in Bids, NEW l \in Level,
           NEW result, result.confirmed \in Int, Confirm(c, l, result),
           call[b].pc = level, <<c, l>> # <<b, level>>
    PROVE  KeepsLimits(b, level)
<1>1. booked'[b][level] = booked[b][level]
  BY BookResult DEF Confirm
<1> QED  BY <1>1, NothingBooked

(* What the limits let through is booked. *)
LEMMA AccountConfirmKeeps ==
    ASSUME TypeInv, NEW b \in Bids, ConfirmAccount(b)
    PROVE  KeepsLimits(b, "account")
<1> DEFINE id == EntityId(b, "account")
           limits == call[b].limits["account"]
           date == AdvDate(limits, b.time)
           total == TotalAmount(books["account"][id])
<1>1. PICK result :
         /\ Confirm(b, "account", result)
         /\ result.ok \in BOOLEAN /\ result.confirmed \in Int
         /\ ~b.forced /\ result.confirmed > 0 => total + result.confirmed <= limits.budget
  BY ConfirmAccountResult
<1>2. "account" \in Level
  BY DEF Level
<1>3. Book(b, "account", result.confirmed)
  BY <1>1 DEF Confirm
<1>4. booked[b]["account"] \in Int
  BY <1>2 DEF TypeInv, TypeOK
<1>5. /\ booked'[b]["account"] = booked[b]["account"] + result.confirmed
      /\ TotalAmount(books'["account"][id]) = total + result.confirmed
  BY <1>1, <1>2, <1>3, BookResult
<1>6. books["account"][id]' = books'["account"][id]
  OBVIOUS
<1> HIDE DEF id, limits, total
<1>7. ~b.forced /\ booked'[b]["account"] > booked[b]["account"] =>
         TotalAmount(books'["account"][id]) <= limits.budget
  BY <1>1, <1>4, <1>5
<1> QED  BY <1>7 DEF KeepsLimits, id, limits

LEMMA BidConfirmKeeps ==
    ASSUME TypeInv, NEW b \in Bids, NEW level \in {"campaign", "ccg"}, ConfirmBid(b, level)
    PROVE  KeepsLimits(b, level)
<1> DEFINE id == EntityId(b, level)
           limits == call[b].limits[level]
           date == AdvDate(limits, b.time)
           total == TotalAmount(books[level][id])
           today == AmountOf(books[level][id], date)
           total1 == TotalAmount(books'[level][id])
           today1 == AmountOf(books'[level][id], date)
<1>1. PICK result :
         /\ Confirm(b, level, result)
         /\ result.ok \in BOOLEAN /\ result.confirmed \in Int
         /\ ~b.forced /\ result.confirmed > 0 =>
               /\ limits.budget # None => total + result.confirmed <= limits.budget
               /\ limits.delivery_pacing = "F" /\ limits.daily_budget # None =>
                     today + result.confirmed <= limits.daily_budget
         /\ ~b.forced /\ result.confirmed < 0 /\ CheckRequired(limits) =>
               /\ today + result.confirmed >= 0
               /\ total + result.confirmed >= 0
  BY ConfirmBidResult
<1>2. level \in Level /\ level # "account"
  BY DEF Level
<1>3. Book(b, level, result.confirmed)
  BY <1>1 DEF Confirm
<1>4. booked[b][level] \in Int
  BY <1>2 DEF TypeInv, TypeOK
<1>5. /\ booked'[b][level] = booked[b][level] + result.confirmed
      /\ total1 = total + result.confirmed
      /\ today1 = today + result.confirmed
  BY <1>1, <1>2, <1>3, BookResult
<1> HIDE DEF id, limits, total, today, total1, today1, date
<1>6. /\ ~b.forced /\ booked'[b][level] > booked[b][level] =>
            /\ limits.budget # None => total1 <= limits.budget
            /\ limits.delivery_pacing = "F" /\ limits.daily_budget # None =>
                  today1 <= limits.daily_budget
      /\ ~b.forced /\ booked'[b][level] < booked[b][level] /\ CheckRequired(limits) =>
            today1 >= 0 /\ total1 >= 0
  <2>1. booked'[b][level] > booked[b][level] => result.confirmed > 0
    BY <1>1, <1>4, <1>5
  <2>2. booked'[b][level] < booked[b][level] => result.confirmed < 0
    BY <1>1, <1>4, <1>5
  <2> QED  BY <1>1, <1>5, <2>1, <2>2
<1> QED  BY <1>6 DEF KeepsLimits, id, limits, total1, today1, date

LEMMA NextKeepsLimits ==
    ASSUME TypeInv, [Next]_vars, NEW b \in Bids, NEW level \in Level
    PROVE  KeepsLimits(b, level)
<1> SUFFICES ASSUME call[b].pc = level PROVE KeepsLimits(b, level)
  BY DEF KeepsLimits
<1>1. CASE UNCHANGED booked
  BY <1>1, NothingBooked
<1>2. ASSUME NEW c \in Bids, ConfirmAccount(c) PROVE KeepsLimits(b, level)
  <2>1. PICK result : Confirm(c, "account", result) /\ result.confirmed \in Int
    BY <1>2, ConfirmAccountResult
  <2>2. "account" \in Level
    BY DEF Level
  <2>3. CASE <<c, "account">> = <<b, level>>
    BY <1>2, <2>3, AccountConfirmKeeps
  <2>4. CASE <<c, "account">> # <<b, level>>
    BY <2>1, <2>2, <2>4, OthersBookNothing
  <2> QED  BY <2>3, <2>4
<1>3. ASSUME NEW c \in Bids, NEW l \in {"campaign", "ccg"}, ConfirmBid(c, l)
      PROVE  KeepsLimits(b, level)
  <2>1. PICK result : Confirm(c, l, result) /\ result.confirmed \in Int
    BY <1>3, ConfirmBidResult
  <2>2. l \in Level
    BY DEF Level
  <2>3. CASE <<c, l>> = <<b, level>>
    BY <1>3, <2>3, BidConfirmKeeps
  <2>4. CASE <<c, l>> # <<b, level>>
    BY <2>1, <2>2, <2>4, OthersBookNothing
  <2> QED  BY <2>3, <2>4
<1>4. ASSUME NEW c \in Bids, RevertConfirmedBid(c) PROVE KeepsLimits(b, level)
  <2> DEFINE l == NextRevert(call[c])
  <2>1. l \in Level /\ call[c].pc = "revert" /\ call[c] \in CallType
    BY <1>4 DEF RevertConfirmedBid, NextRevert, Level, TypeInv, TypeOK
  <2>2. c # b
    BY <2>1 DEF Level
  <2>3. CASE books[l][EntityId(c, l)] = NoDays
    BY <1>4, <2>3, <1>1 DEF RevertConfirmedBid
  <2>4. CASE books[l][EntityId(c, l)] # NoDays
    <3>1. Book(c, l, -call[c].revert[l])
      BY <1>4, <2>4 DEF RevertConfirmedBid
    <3> HIDE DEF l
    <3>2. -call[c].revert[l] \in Int
      BY <2>1 DEF CallType
    <3>3. booked'[b][level] = booked[b][level]
      BY <2>1, <2>2, <3>1, <3>2, BookResult
    <3> QED  BY <3>3, NothingBooked
  <2> QED  BY <2>3, <2>4
<1>5. ASSUME NEW c \in Bids, CallNext(c) PROVE KeepsLimits(b, level)
  <2>1. ASSUME Begin(c) \/ (\E l \in Level : Skip(c, l)) \/ ConfirmBidRate(c)
        PROVE  UNCHANGED booked
    BY <2>1 DEF Begin, Skip, ConfirmBidRate
  <2> QED  BY <1>1, <1>2, <1>3, <1>4, <1>5, <2>1 DEF CallNext
<1>6. ASSUME UNCHANGED vars \/ (\E new \in Configs : Config(new))
             \/ (\E source \in Stats : Stat(source)) \/ ReplaceAmounts
      PROVE  UNCHANGED booked
  BY <1>6 DEF vars, Config, Stat, ReplaceAmounts
<1> QED  BY <1>1, <1>5, <1>6 DEF Next

(* Whatever calls, configurations and statistics interleave: a charge that *)
(* is not forced leaves the account, campaign or group within the budget   *)
(* and the fixed daily budget its call began with, and a refund of a       *)
(* limited campaign or group leaves neither its day nor its total below    *)
(* zero.  The limits are those of confirm_bid's configuration, not of the  *)
(* one that has replaced it meanwhile.                                     *)
THEOREM ChargesKeepToLimits == Spec => ChargesStayWithinLimits
<1>1. TypeInv /\ [Next]_vars => [\A b \in Bids, level \in Level : KeepsLimits(b, level)]_vars
  BY NextKeepsLimits
<1> QED  BY <1>1, TypeInvariant, PTL DEF Spec, ChargesStayWithinLimits

(* In every reachable state, for any bid with positive amounts:            *)
(* check_available_bid answers "available" exactly when confirm_bid, with  *)
(* nothing in between, would charge the account and book a part of the bid *)
(* on its campaign and its group.  The two are written twice in the code.  *)
THEOREM CheckedIsConfirmed == Spec => []CheckAgreesWithConfirm
<1>1. ASSUME TypeInv PROVE CheckAgreesWithConfirm
  <2> SUFFICES ASSUME NEW b \in Bids, Resolved(b),
                      \A level \in Level : Limits(b, level).active,
                      b.account_amount > 0, b.amount > 0
               PROVE  CheckAvailableBid(b) <=>
                        \A level \in Level :
                          (IF level = "account"
                           THEN ConfirmAccountAmount(Limits(b, level),
                                    books[level][EntityId(b, level)], b.account_amount, FALSE)
                           ELSE ConfirmAmount(Limits(b, level),
                                    books[level][EntityId(b, level)],
                                    b.time, b.amount, FALSE)).confirmed > 0
    BY DEF CheckAgreesWithConfirm
  <2>1. \A level \in Level :
          /\ [l \in Level |-> Limits(b, l)] \in LimitsType
          /\ Limits(b, level) \in LimitsOf(level)
          /\ IsHolder(books[level][EntityId(b, level)])
    BY <1>1, LimitsType1, BidType DEF LimitsType, TypeInv, TypeOK, AreBooks
  <2>2. /\ "account" \in Level /\ EntityId(b, "account") = b.account_id
        /\ Level = {"account", "campaign", "ccg"}
        /\ b.account_amount \in Int /\ b.amount \in Int /\ b.time \in Int
    BY BidType DEF Level, EntityId
  <2>3. AccountAvailable(Limits(b, "account"), books["account"][b.account_id]) <=>
          ConfirmAccountAmount(Limits(b, "account"), books["account"][b.account_id],
                               b.account_amount, FALSE).confirmed > 0
    <3>1. Limits(b, "account") \in AccountLimits /\ IsHolder(books["account"][b.account_id])
      BY <2>1, <2>2 DEF LimitsOf
    <3> QED  BY <2>2, <3>1, AccountAvailableIsConfirmed
  <2>4. ASSUME NEW level \in {"campaign", "ccg"}
        PROVE  Available(Limits(b, level), books[level][EntityId(b, level)], b.time) <=>
                 ConfirmAmount(Limits(b, level), books[level][EntityId(b, level)],
                               b.time, b.amount, FALSE).confirmed > 0
    <3>1. Limits(b, level) \in EntityLimits /\ IsHolder(books[level][EntityId(b, level)])
      BY <2>1, <2>2 DEF LimitsOf
    <3> QED  BY <2>2, <3>1, AvailableIsConfirmed
  <2> QED  BY <2>2, <2>3, <2>4 DEF CheckAvailableBid
<1> QED  BY <1>1, TypeInvariant, PTL
-----------------------------------------------------------------------------
(* Statistics and the days they may replace.                               *)

(* The walk uses the offset of the entity itself when the entity is local. *)
LEMMA LocalOffset ==
    ASSUME NEW local \in SUBSET Id, NEW id \in local
    PROVE  OffsetEntity(local, id) = id
<1> DEFINE later == {l \in local : l >= id}
<1>1. later \in SUBSET Nat /\ id \in later
  <2>1. local \in SUBSET Nat
    BY IdAssumption
  <2>2. id \in Nat /\ id >= id
    BY <2>1
  <2> QED  BY <2>1, <2>2
<1>2. OffsetEntity(local, id) = First(later)
  <2>1. \E l \in local : l >= id
    BY <1>1
  <2> QED  BY <2>1 DEF OffsetEntity
<1>3. First(later) \in later /\ First(later) <= id
  BY <1>1, FirstResult
<1>4. First(later) >= id /\ First(later) \in Nat
  BY <1>1, <1>3
<1>5. id \in Nat
  BY <1>1
<1> HIDE DEF later
<1> QED  BY <1>2, <1>3, <1>4, <1>5

(* One statistics step at a local entity: the books of the task's level    *)
(* are replaced up to the end date of the entity itself, the others stay.  *)
LEMMA ReplaceResult ==
    ASSUME TypeInv, ReplaceAmounts, NEW level \in Level, NEW id \in Id,
           NEW limits, limits = IF stat.config = None THEN None ELSE stat.config[level][id]
    PROVE  /\ level # stat.level => books'[level][id] = books[level][id]
           /\ level = stat.level /\ books[level][id] # NoDays =>
                 books'[level][id] = ReplaceAmount(books[level][id], stat.source[level][id],
                                                   UseSourceEndDate(limits))
           /\ level = stat.level => limits \in LimitsOf(level) \cup {None}
           /\ stat.source[level][id] = NoSource \/ IsSource(stat.source[level][id])
<1> DEFINE local == {i \in Id : books[stat.level][i] # NoDays}
           lim(i) == IF stat.config = None THEN None
                     ELSE stat.config[stat.level][OffsetEntity(local, i)]
           new(i) == ReplaceAmount(books[stat.level][i], stat.source[stat.level][i],
                                   UseSourceEndDate(lim(i)))
<1>1. /\ stat \in [source : Stats, config : ConfigType \cup {None}, level : Level]
      /\ books = [l \in Level |-> [i \in Id |-> books[l][i]]]
  BY DEF ReplaceAmounts, TypeInv, TypeOK, AreBooks
<1>2. books' = [books EXCEPT ![stat.level] = [i \in Id |-> new(i)]]
  BY <1>1 DEF ReplaceAmounts
<1>3. stat.level \in Level /\ stat.source \in Stats /\ stat.config \in ConfigType \cup {None}
  BY <1>1
<1>4. books[level][id] # NoDays /\ level = stat.level => lim(id) = limits
  <2> SUFFICES ASSUME books[level][id] # NoDays, level = stat.level
               PROVE  lim(id) = limits
    OBVIOUS
  <2>1. local \in SUBSET Id /\ id \in local
    OBVIOUS
  <2> HIDE DEF local
  <2>2. OffsetEntity(local, id) = id
    BY <2>1, LocalOffset
  <2> QED  BY <2>2
<1> HIDE DEF lim
<1>5. new(id) = ReplaceAmount(books[stat.level][id], stat.source[stat.level][id],
                              UseSourceEndDate(lim(id)))
  OBVIOUS
<1> HIDE DEF new
<1>6. books'[level][id] = IF level = stat.level THEN new(id) ELSE books[level][id]
  BY <1>1, <1>2, <1>3
<1>7. limits \in LimitsOf(level) \cup {None}
  BY <1>3 DEF ConfigType
<1>8. stat.source[level][id] = NoSource \/ IsSource(stat.source[level][id])
  BY <1>3, StatAssumption DEF IsSource
<1> QED  BY <1>4, <1>5, <1>6, <1>7, <1>8

LEMMA ReplaceKeepsFresh ==
    ASSUME TypeInv, ReplaceAmounts, NEW level \in Level, NEW id \in Id,
           books[level][id] # NoDays,
           NEW limits, limits = IF stat.config = None THEN None ELSE stat.config[level][id],
           NEW d \in Date, level = stat.level => d >= UseSourceEndDate(limits)
    PROVE  /\ AmountOf(books'[level][id], d) = AmountOf(books[level][id], d)
           /\ d \in DOMAIN books[level][id] => d \in DOMAIN books'[level][id]
<1>1. CASE level # stat.level
  BY <1>1, ReplaceResult
<1>2. CASE level = stat.level
  <2> DEFINE end == UseSourceEndDate(limits)
             source == stat.source[level][id]
             days == books[level][id]
  <2>1. books'[level][id] = ReplaceAmount(days, source, end)
    BY <1>2, ReplaceResult
  <2>2. source = NoSource \/ IsSource(source)
    BY ReplaceResult
  <2>3. end \in Int
    BY <1>2, ReplaceResult, EndDateType
  <2>4. IsHolder(days) /\ d >= end
    BY <1>2 DEF TypeInv, TypeOK, AreBooks
  <2> HIDE DEF end, source, days
  <2>5. /\ AmountOf(ReplaceAmount(days, source, end), d) = AmountOf(days, d)
        /\ d \in DOMAIN days => d \in DOMAIN ReplaceAmount(days, source, end)
    BY <2>2, <2>3, <2>4, ReplaceKeepsFreshDays
  <2> QED  BY <2>1, <2>5 DEF days
<1> QED  BY <1>1, <1>2

(* Statistics read back from the database never change what a local day    *)
(* holds that is not old enough in the time zone of its own account,       *)
(* campaign or group, whatever other entities are there and whatever the   *)
(* statistics say, and however calls and configurations come in between.   *)
THEOREM FreshDaysSurvive == Spec => FreshDaysSurviveStatistics
<1> DEFINE Kept ==
        \A level \in Level, id \in Id :
          stat # None /\ books[level]'[id] # books[level][id] /\ stat' # stat
            /\ books[level][id] # NoDays =>
              LET limits == IF stat.config = None THEN None ELSE stat.config[level][id]
              IN  \A d \in Date : d >= UseSourceEndDate(limits) =>
                     AmountOf(books[level]'[id], d) = AmountOf(books[level][id], d)
<1>1. ASSUME TypeInv, [Next]_vars PROVE [Kept]_vars
  <2> SUFFICES ASSUME NEW level \in Level, NEW id \in Id,
                      books[level]'[id] # books[level][id], stat' # stat,
                      books[level][id] # NoDays,
                      NEW limits,
                      limits = IF stat.config = None THEN None ELSE stat.config[level][id],
                      NEW d \in Date, d >= UseSourceEndDate(limits)
               PROVE  AmountOf(books[level]'[id], d) = AmountOf(books[level][id], d)
    OBVIOUS
  <2>1. ReplaceAmounts
    <3>1. ASSUME NEW b \in Bids, CallNext(b) PROVE stat' = stat
      BY <3>1 DEF CallNext, Begin, ConfirmAccount, ConfirmBid, Confirm, Skip,
                  ConfirmBidRate, RevertConfirmedBid
    <3>2. ASSUME NEW new \in Configs, Config(new) PROVE stat' = stat
      BY <3>2 DEF Config
    <3>3. ASSUME NEW source \in Stats, Stat(source) PROVE books' = books
      BY <3>3 DEF Stat
    <3> QED  BY <1>1, <3>1, <3>2, <3>3 DEF Next, vars
  <2>2. AmountOf(books'[level][id], d) = AmountOf(books[level][id], d)
    BY <1>1, <2>1, ReplaceKeepsFresh
  <2> QED  BY <2>2
<1>2. TypeInv /\ [Next]_vars => [Kept]_vars
  BY <1>1
<1> QED  BY <1>2, TypeInvariant, PTL DEF Spec, FreshDaysSurviveStatistics

-----------------------------------------------------------------------------
(* What a call has confirmed, gives back and may still confirm.            *)

Ahead(pc) ==
    IF pc \in {"new", "account"} THEN Level
    ELSE IF pc = "campaign" THEN {"campaign", "ccg"}
    ELSE IF pc = "ccg" THEN {"ccg"}
    ELSE {}

(* Levels that are not confirmed yet have nothing to give back, and only   *)
(* what was confirmed is given back.                                       *)
CallOK(b, c) ==
    /\ \A level \in Ahead(c.pc) : c.confirmed[level] = 0 /\ c.revert[level] = 0
    /\ \A level \in Level : c.revert[level] # 0 => c.confirmed[level] # 0
    /\ c.pc = "revert" => \E level \in Level : c.revert[level] # 0
    /\ c.pc = "done" => \A level \in Level : c.revert[level] = 0
    /\ c.pc = "account" => \A level \in Level : c.available[level] = Requested(b, level)

(* What is left of a level when everything is given back; x of an amount   *)
(* is fair when it is no larger a share of it than the account pays for.   *)
Final(c, level) == c.confirmed[level] - c.revert[level]

Fair(b, x, paid) ==
    Magnitude(x) * Magnitude(b.account_amount) <= (Magnitude(paid) + 1) * Magnitude(b.amount)

FairCall(b, c) ==
    ~b.forced /\ b.account_amount # 0 /\ c.pc \notin {"new", "account"} =>
        \A level \in {"campaign", "ccg"} :
            /\ Fair(b, Final(c, level), Final(c, "account"))
            /\ level \in Ahead(c.pc) => Fair(b, c.available[level], Final(c, "account"))

CallInv ==
    \A b \in Bids :
        CallOK(b, call[b]) /\ FairCall(b, call[b]) /\ booked[b] = call[b].confirmed

LEMMA Times ==
    ASSUME NEW x \in Nat, NEW y \in Nat, NEW a \in Nat, x <= y
    PROVE  x * a <= y * a /\ a * x <= a * y
OBVIOUS

LEMMA Quotient ==
    ASSUME NEW x \in Nat
    PROVE  /\ x \div Unit \in Nat
           /\ (x \div Unit) * Unit <= x
           /\ x < (x \div Unit + 1) * Unit
BY UnitAssumption

(* Shares of two amounts, both rounded down, differ by less than a unit.   *)
LEMMA FloorShares ==
    ASSUME NEW share \in Nat, NEW a \in Nat, NEW m \in Nat
    PROVE  ((share * m) \div Unit) * a <= ((share * a) \div Unit + 1) * m
<1> DEFINE q == (share * m) \div Unit
           p == (share * a) \div Unit
<1>1. share * m \in Nat /\ share * a \in Nat
  OBVIOUS
<1>2. q \in Nat /\ q * Unit <= share * m
  BY <1>1, Quotient
<1>3. p \in Nat /\ share * a <= (p + 1) * Unit
  BY <1>1, Quotient, UnitAssumption
<1> HIDE DEF q, p
<1>4. (q * Unit) * a <= (share * m) * a
  BY <1>1, <1>2, Times, UnitAssumption
<1>5. (share * a) * m <= ((p + 1) * Unit) * m
  BY <1>1, <1>3, Times, UnitAssumption
<1>6. (q * a) * Unit <= ((p + 1) * m) * Unit
  <2>1. (q * Unit) * a = (q * a) * Unit /\ ((p + 1) * Unit) * m = ((p + 1) * m) * Unit
        /\ (share * m) * a = (share * a) * m
    BY <1>2, <1>3, UnitAssumption
  <2> QED  BY <1>2, <1>3, <1>4, <1>5, <2>1, UnitAssumption
<1>7. q * a \in Nat /\ (p + 1) * m \in Nat
  BY <1>2, <1>3
<1>8. q * a <= (p + 1) * m
  <2> DEFINE x == q * a
             y == (p + 1) * m
  <2>1. x \in Nat /\ y \in Nat /\ x * Unit <= y * Unit
    BY <1>6, <1>7
  <2> HIDE DEF x, y
  <2>2. x <= y
    <3> SUFFICES ASSUME y + 1 <= x PROVE FALSE
      BY <2>1
    <3>1. (y + 1) * Unit <= x * Unit
      BY <2>1, Times, UnitAssumption
    <3>2. (y + 1) * Unit = y * Unit + Unit
      BY <2>1, UnitAssumption
    <3> QED  BY <2>1, <3>1, <3>2, UnitAssumption
  <2> QED  BY <2>2 DEF x, y
<1> QED  BY <1>8 DEF q, p

LEMMA MagnitudeType == \A x \in Int : Magnitude(x) \in Nat
BY DEF Magnitude

LEMMA FloorMagnitude ==
    ASSUME NEW share \in Nat, NEW x \in Int
    PROVE  Magnitude(MulFloor(share, x)) = (share * Magnitude(x)) \div Unit
<1> DEFINE m == (share * Magnitude(x)) \div Unit
<1>1. share * Magnitude(x) \in Nat
  BY MagnitudeType
<1>2. m \in Nat
  BY <1>1, Quotient
<1>3. MulFloor(share, x) = Signed(x, m)
  BY DEF MulFloor
<1> HIDE DEF m
<1>4. Magnitude(Signed(x, m)) = m
  BY <1>2 DEF Signed, Magnitude
<1> QED  BY <1>3, <1>4 DEF m

LEMMA NoShare ==
    /\ \A x \in Int : MulFloor(0, x) = 0
    /\ \A share \in Nat : MulFloor(share, 0) = 0
    /\ \A whole \in Int \ {0} : Share(0, whole) = 0
<1>1. 0 \div Unit = 0 /\ Magnitude(0) = 0
  BY UnitAssumption DEF Magnitude
<1>2. ASSUME NEW x \in Int PROVE MulFloor(0, x) = 0
  <2>1. 0 * Magnitude(x) = 0
    BY MagnitudeType
  <2> QED  BY <1>1, <2>1 DEF MulFloor, Signed
<1>3. ASSUME NEW share \in Nat PROVE MulFloor(share, 0) = 0
  <2>1. share * Magnitude(0) = 0
    BY <1>1
  <2> QED  BY <1>1, <2>1 DEF MulFloor, Signed
<1>4. ASSUME NEW whole \in Int \ {0} PROVE Share(0, whole) = 0
  <2>1. Magnitude(whole) \in Nat \ {0} /\ Magnitude(0) * Unit = 0
    BY UnitAssumption DEF Magnitude
  <2> QED  BY <2>1 DEF Share
<1> QED  BY <1>2, <1>3, <1>4

(* No more of an amount than a share of it, rounded down, stands for.      *)
LEMMA FloorOfShare ==
    ASSUME NEW whole \in Nat, NEW part \in Nat, NEW share \in Nat,
           whole # 0 => share <= Share(part, whole)
    PROVE  MulFloor(share, whole) <= part
<1>1. CASE whole = 0
  BY <1>1, NoShare
<1>2. CASE whole # 0
  <2>1. Share(part, whole) = (part * Unit) \div whole
    BY DEF Share, Magnitude
  <2>2. MulFloor(share, whole) = (share * whole) \div Unit
    BY DEF MulFloor, Magnitude, Signed
  <2> DEFINE s == (part * Unit) \div whole
             q == (share * whole) \div Unit
  <2>3. part * Unit \in Nat /\ share * whole \in Nat
    BY UnitAssumption
  <2>4. s \in Nat /\ s * whole <= part * Unit
    BY <1>2, <2>3
  <2>5. q \in Nat /\ q * Unit <= share * whole
    BY <2>3, Quotient
  <2>6. share <= s
    BY <1>2, <2>1
  <2> HIDE DEF s, q
  <2>7. share * whole <= s * whole
    BY <2>4, <2>6, Times
  <2>8. q * Unit <= part * Unit /\ q * Unit \in Nat
    BY <2>3, <2>4, <2>5, <2>7, UnitAssumption
  <2>9. q <= part
    <3> SUFFICES ASSUME part + 1 <= q PROVE FALSE
      BY <2>5
    <3>1. (part + 1) * Unit <= q * Unit
      BY <2>5, Times, UnitAssumption
    <3>2. (part + 1) * Unit = part * Unit + Unit
      BY UnitAssumption
    <3> QED  BY <2>3, <2>8, <3>1, <3>2, UnitAssumption
  <2> QED  BY <2>2, <2>9 DEF q
<1> QED  BY <1>1, <1>2

LEMMA Levels ==
    /\ Level = {"account", "campaign", "ccg"}
    /\ After("account") = "campaign" /\ After("campaign") = "ccg" /\ After("ccg") = "rate"
    /\ Done("account") = {"account"} /\ Done("campaign") = {"account", "campaign"}
    /\ Done("ccg") = Level
    /\ \A level \in Level : /\ level \in Done(level) /\ Done(level) \subseteq Level
                            /\ Ahead(After(level)) = Level \ Done(level)
                            /\ level \in Ahead(level)
                            /\ Level \ Done(level) \subseteq Ahead(level)
                            /\ After(level) \notin {"new", "account", "revert", "done"}
    /\ Ahead("rate") = {} /\ Ahead("revert") = {} /\ Ahead("done") = {}
BY DEF Level, After, Done, Ahead

LEMMA FairZero ==
    ASSUME NEW b \in Bids, NEW paid \in Int
    PROVE  Fair(b, 0, paid)
<1>1. Magnitude(b.account_amount) \in Nat /\ Magnitude(b.amount) \in Nat
      /\ Magnitude(paid) \in Nat
  BY BidType, MagnitudeType
<1>2. 0 * Magnitude(b.account_amount) = 0 /\ Magnitude(0) = 0
      /\ (Magnitude(paid) + 1) * Magnitude(b.amount) \in Nat
  BY <1>1 DEF Magnitude
<1> QED  BY <1>2 DEF Fair

LEMMA FairLess ==
    ASSUME NEW b \in Bids, NEW paid \in Int, NEW x \in Int, NEW y \in Int,
           Magnitude(x) <= Magnitude(y), Fair(b, y, paid)
    PROVE  Fair(b, x, paid)
<1>1. /\ Magnitude(b.account_amount) \in Nat /\ Magnitude(b.amount) \in Nat
      /\ Magnitude(paid) \in Nat /\ Magnitude(x) \in Nat /\ Magnitude(y) \in Nat
  BY BidType, MagnitudeType
<1>2. Magnitude(x) * Magnitude(b.account_amount) <= Magnitude(y) * Magnitude(b.account_amount)
  BY <1>1, Times
<1>3. /\ Magnitude(x) * Magnitude(b.account_amount) \in Nat
      /\ Magnitude(y) * Magnitude(b.account_amount) \in Nat
      /\ (Magnitude(paid) + 1) * Magnitude(b.amount) \in Nat
  BY <1>1
<1> QED  BY <1>2, <1>3 DEF Fair

(* All of a bid is fair when the account pays in full, one share of both   *)
(* is fair, and of a bid of nothing only nothing is.                       *)
LEMMA FairShares ==
    ASSUME NEW b \in Bids
    PROVE  /\ Fair(b, b.amount, b.account_amount)
           /\ \A share \in Nat :
                 Fair(b, MulFloor(share, b.amount), MulFloor(share, b.account_amount))
           /\ \A x \in Int, paid \in Int :
                 b.account_amount # 0 /\ b.amount = 0 /\ Fair(b, x, paid) => x = 0
<1> DEFINE a == Magnitude(b.account_amount)
           m == Magnitude(b.amount)
<1>1. b.amount \in Int /\ b.account_amount \in Int /\ a \in Nat /\ m \in Nat
  BY BidType, MagnitudeType
<1>2. Fair(b, b.amount, b.account_amount)
  <2>1. m * a <= (a + 1) * m
    <3> HIDE DEF a, m
    <3> QED  BY <1>1
  <2> QED  BY <2>1 DEF Fair
<1>3. ASSUME NEW share \in Nat
      PROVE  Fair(b, MulFloor(share, b.amount), MulFloor(share, b.account_amount))
  <2>1. /\ Magnitude(MulFloor(share, b.amount)) = (share * m) \div Unit
        /\ Magnitude(MulFloor(share, b.account_amount)) = (share * a) \div Unit
    BY <1>1, FloorMagnitude
  <2>2. ((share * m) \div Unit) * a <= ((share * a) \div Unit + 1) * m
    <3> HIDE DEF a, m
    <3> QED  BY <1>1, FloorShares
  <2> QED  BY <2>1, <2>2 DEF Fair
<1>4. ASSUME NEW x \in Int, NEW paid \in Int, b.account_amount # 0, b.amount = 0,
             Fair(b, x, paid)
      PROVE  x = 0
  <2> DEFINE y == Magnitude(x)
             z == Magnitude(paid)
  <2>1. y \in Nat /\ z \in Nat /\ m = 0 /\ a \in Nat \ {0}
    BY <1>1, <1>4, MagnitudeType DEF Magnitude
  <2>2. y * a <= (z + 1) * m
    BY <1>4 DEF Fair
  <2>3. y = 0 => x = 0
    BY DEF Magnitude
  <2> HIDE DEF y, z, a, m
  <2>4. (z + 1) * m = 0
    BY <2>1
  <2>5. y * a <= 0
    BY <2>2, <2>4
  <2>6. y * 1 <= y * a
    BY <2>1, Times
  <2> QED  BY <2>1, <2>3, <2>5, <2>6
<1> QED  BY <1>2, <1>3, <1>4

(* The call after a level of it is confirmed, amount of it, or refused.    *)
Advance(b, c, level, ok, amount) ==
    LET confirmed == [c EXCEPT !.pc = After(level), !.confirmed[level] = amount,
                               !.ok = @ /\ ok]
    IN  IF ok \/ b.forced THEN confirmed
        ELSE RecalcRemindAmounts(b, confirmed, Done(level))

(* A share of what is requested is given to each level: the levels done    *)
(* give back what they have above it, the others may have no more.         *)
Shared(b, c, new, done, share) ==
    \A level \in Level :
        /\ level \in done =>
              /\ new.available[level] = 0
              /\ MulFloor(share, Requested(b, level)) # new.confirmed[level] =>
                    new.revert[level] = new.confirmed[level] - MulFloor(share, Requested(b, level))
              /\ MulFloor(share, Requested(b, level)) = new.confirmed[level] =>
                    new.revert[level] = c.revert[level]
              /\ new.confirmed[level] = 0 /\ Requested(b, level) # 0 => share = 0
              /\ new.confirmed[level] >= 0 /\ Requested(b, level) >= 0 =>
                    MulFloor(share, Requested(b, level)) <= new.confirmed[level]
        /\ level \notin done =>
              /\ new.available[level] = MulFloor(share, Requested(b, level))
              /\ new.revert[level] = c.revert[level]

LEMMA RecalcShares ==
    ASSUME TypeInv, NEW b \in Bids, NEW c \in CallType, NEW done \in SUBSET Level,
           NEW new, new = RecalcRemindAmounts(b, c, done)
    PROVE  /\ new.pc = c.pc /\ new.confirmed = c.confirmed
           /\ \E share \in Nat : Shared(b, c, new, done, share)
<1> DEFINE share == MinShare(b, c, done)
           target == [level \in Level |-> MulFloor(share, Requested(b, level))]
           revert == [level \in Level |->
                         IF level \in done /\ target[level] # c.confirmed[level]
                         THEN c.confirmed[level] - target[level]
                         ELSE c.revert[level]]
           available == [level \in Level |-> IF level \in done THEN 0 ELSE target[level]]
<1>1. new = [c EXCEPT !.revert = revert, !.available = available]
  BY DEF RecalcRemindAmounts, CallType
<1>2. \A level \in done : c.confirmed[level] = 0 /\ Requested(b, level) # 0 => share = 0
  <2> SUFFICES ASSUME NEW level \in done, c.confirmed[level] = 0, Requested(b, level) # 0
               PROVE  share = 0
    OBVIOUS
  <2>1. Requested(b, level) \in Int \ {0}
    BY BidType
  <2>2. Share(c.confirmed[level], Requested(b, level)) = 0
    BY <2>1, NoShare
  <2>3. share \in Nat /\ share <= Share(c.confirmed[level], Requested(b, level))
    BY MinShareType
  <2> HIDE DEF share
  <2> QED  BY <2>2, <2>3
<1>3. \A level \in done : c.confirmed[level] >= 0 /\ Requested(b, level) >= 0 =>
         MulFloor(share, Requested(b, level)) <= c.confirmed[level]
  <2> SUFFICES ASSUME NEW level \in done, c.confirmed[level] >= 0, Requested(b, level) >= 0
               PROVE  MulFloor(share, Requested(b, level)) <= c.confirmed[level]
    OBVIOUS
  <2>1. Requested(b, level) \in Nat /\ c.confirmed[level] \in Nat /\ share \in Nat
    BY BidType, MinShareType DEF CallType
  <2>2. Requested(b, level) # 0 => share <= Share(c.confirmed[level], Requested(b, level))
    BY MinShareType
  <2> HIDE DEF share
  <2> QED  BY <2>1, <2>2, FloorOfShare
<1>4. share \in Nat
  BY MinShareType
<1> HIDE DEF share
<1>5. \A level \in Level :
         /\ target[level] = MulFloor(share, Requested(b, level))
         /\ revert[level] = IF level \in done /\ target[level] # c.confirmed[level]
                            THEN c.confirmed[level] - target[level]
                            ELSE c.revert[level]
         /\ available[level] = IF level \in done THEN 0 ELSE target[level]
  OBVIOUS
<1> HIDE DEF target, revert, available
<1>6. /\ new.pc = c.pc /\ new.confirmed = c.confirmed
      /\ new.revert = revert /\ new.available = available
  BY <1>1 DEF CallType
<1>7. Shared(b, c, new, done, share)
  BY <1>2, <1>3, <1>5, <1>6 DEF Shared
<1> QED  BY <1>6, <1>7, <1>4

LEMMA AdvanceFields ==
    ASSUME TypeInv, NEW b \in Bids, NEW c \in CallType, NEW level \in Level,
           NEW ok \in BOOLEAN, NEW amount \in Int,
           NEW new, new = Advance(b, c, level, ok, amount)
    PROVE  /\ new.pc = After(level)
           /\ new.confirmed = [c.confirmed EXCEPT ![level] = amount]
           /\ ok \/ b.forced => new.revert = c.revert /\ new.available = c.available
           /\ ~(ok \/ b.forced) => \E share \in Nat : Shared(b, c, new, Done(level), share)
<1> DEFINE confirmed == [c EXCEPT !.pc = After(level), !.confirmed[level] = amount,
                                  !.ok = @ /\ ok]
<1>1. /\ confirmed \in CallType
      /\ confirmed.pc = After(level)
      /\ confirmed.confirmed = [c.confirmed EXCEPT ![level] = amount]
      /\ confirmed.revert = c.revert /\ confirmed.available = c.available
  <2>1. After(level) \in {"new", "rate", "revert", "done"} \cup Level
    BY Levels
  <2>2. [c.confirmed EXCEPT ![level] = amount] \in [Level -> Int]
    BY DEF CallType
  <2>3. (c.ok /\ ok) \in BOOLEAN
    OBVIOUS
  <2>4. confirmed = [c EXCEPT !.pc = After(level),
                              !.confirmed = [c.confirmed EXCEPT ![level] = amount],
                              !.ok = c.ok /\ ok]
    BY DEF CallType
  <2> HIDE DEF confirmed
  <2> QED  BY <2>1, <2>2, <2>3, <2>4 DEF CallType
<1>2. new = IF ok \/ b.forced THEN confirmed ELSE RecalcRemindAmounts(b, confirmed, Done(level))
  BY DEF Advance
<1> HIDE DEF confirmed
<1>3. CASE ok \/ b.forced
  BY <1>1, <1>2, <1>3
<1>4. CASE ~(ok \/ b.forced)
  <2>1. new = RecalcRemindAmounts(b, confirmed, Done(level))
    BY <1>2, <1>4
  <2>2. Done(level) \in SUBSET Level
    BY Levels
  <2>3. /\ new.pc = confirmed.pc /\ new.confirmed = confirmed.confirmed
        /\ \E share \in Nat : Shared(b, confirmed, new, Done(level), share)
    BY <1>1, <2>1, <2>2, RecalcShares
  <2>4. PICK share \in Nat : Shared(b, confirmed, new, Done(level), share)
    BY <2>3
  <2>5. Shared(b, c, new, Done(level), share)
    BY <1>1, <2>4 DEF Shared
  <2> QED  BY <1>1, <1>4, <2>3, <2>5
<1> QED  BY <1>3, <1>4

LEMMA AdvanceCall ==
    ASSUME TypeInv, NEW b \in Bids, NEW c \in CallType, NEW level \in Level, c.pc = level,
           NEW ok \in BOOLEAN, NEW amount \in Int,
           NEW new \in CallType, new = Advance(b, c, level, ok, amount), CallOK(b, c)
    PROVE  CallOK(b, new)
<1>1. /\ new.pc = After(level)
      /\ new.confirmed = [c.confirmed EXCEPT ![level] = amount]
      /\ ok \/ b.forced => new.revert = c.revert /\ new.available = c.available
      /\ ~(ok \/ b.forced) => \E share \in Nat : Shared(b, c, new, Done(level), share)
  BY AdvanceFields
<1>2. /\ level \in Ahead(level) /\ Level \ Done(level) \subseteq Ahead(level)
      /\ Ahead(new.pc) = Level \ Done(level) /\ level \in Done(level)
      /\ new.pc \notin {"account", "revert", "done"}
  BY <1>1, Levels
<1>3. /\ \A l \in Level : new.confirmed[l] = IF l = level THEN amount ELSE c.confirmed[l]
      /\ \A l \in Level : c.revert[l] # 0 => c.confirmed[l] # 0
      /\ \A l \in Ahead(level) : c.confirmed[l] = 0 /\ c.revert[l] = 0
      /\ c.revert[level] = 0
  BY <1>1, <1>2 DEF CallOK, CallType
<1>4. ASSUME NEW l \in Level
      PROVE  /\ new.revert[l] # 0 => new.confirmed[l] # 0
             /\ l \notin Done(level) => new.confirmed[l] = 0 /\ new.revert[l] = 0
  <2>1. CASE ok \/ b.forced
    BY <1>1, <1>2, <1>3, <2>1
  <2>2. CASE ~(ok \/ b.forced)
    <3>1. PICK share \in Nat : Shared(b, c, new, Done(level), share)
      BY <1>1, <2>2
    <3>2. l \notin Done(level) => new.revert[l] = c.revert[l]
      BY <3>1 DEF Shared
    <3>3. ASSUME l \in Done(level), new.confirmed[l] = 0
          PROVE  new.revert[l] = 0
      <4>1. MulFloor(share, Requested(b, l)) = 0
        <5>1. Requested(b, l) \in Int
          BY BidType
        <5>2. Requested(b, l) # 0 => share = 0
          BY <3>1, <3>3 DEF Shared
        <5> QED  BY <5>1, <5>2, NoShare
      <4>2. new.revert[l] = c.revert[l]
        BY <3>1, <3>3, <4>1 DEF Shared
      <4>3. c.confirmed[l] = 0 \/ l = level
        BY <1>3, <3>3
      <4> QED  BY <1>3, <4>2, <4>3
    <3> QED  BY <1>2, <1>3, <3>2, <3>3
  <2> QED  BY <2>1, <2>2
<1> QED  BY <1>2, <1>4 DEF CallOK

(* A refused bid: campaign and group are left with the share the account   *)
(* is left with.                                                           *)
LEMMA SharedIsFair ==
    ASSUME NEW b \in Bids, NEW c \in CallType, NEW new \in CallType, CallOK(b, new),
           NEW level \in Level, NEW share \in Nat, Shared(b, c, new, Done(level), share),
           new.pc = After(level),
           \A l \in Done(level) : MulFloor(share, Requested(b, l)) = new.confirmed[l] =>
              c.revert[l] = 0 \/ share = 0
    PROVE  FairCall(b, new)
<1>1. /\ Level = {"account", "campaign", "ccg"} /\ "account" \in Done(level)
      /\ Ahead(new.pc) = Level \ Done(level)
  BY Levels
<1>2. /\ Requested(b, "account") = b.account_amount
      /\ \A l \in {"campaign", "ccg"} : Requested(b, l) = b.amount
      /\ b.amount \in Int /\ b.account_amount \in Int
  BY BidType DEF Requested
<1>3. ASSUME NEW l \in Done(level)
      PROVE  Final(new, l) = MulFloor(share, Requested(b, l))
  <2>1. l \in Level /\ Requested(b, l) \in Int
    BY BidType, Levels
  <2>2. MulFloor(share, Requested(b, l)) \in Int
    BY <2>1, MulFloorType
  <2>3. new.confirmed[l] \in Int /\ new.revert[l] \in Int
    BY <2>1 DEF CallType
  <2>4. CASE MulFloor(share, Requested(b, l)) # new.confirmed[l]
    <3>1. new.revert[l] = new.confirmed[l] - MulFloor(share, Requested(b, l))
      BY <2>1, <2>4 DEF Shared
    <3> QED  BY <2>2, <2>3, <3>1 DEF Final
  <2>5. CASE MulFloor(share, Requested(b, l)) = new.confirmed[l]
    <3>1. new.revert[l] = c.revert[l]
      BY <2>1, <2>5 DEF Shared
    <3>2. new.revert[l] = 0
      <4>1. CASE c.revert[l] = 0
        BY <3>1, <4>1
      <4>2. CASE share = 0
        <5>1. new.confirmed[l] = 0
          BY <2>1, <2>5, <4>2, NoShare
        <5> QED  BY <2>1, <5>1 DEF CallOK
      <4> QED  BY <2>5, <4>1, <4>2
    <3> QED  BY <2>3, <2>5, <3>2 DEF Final
  <2> QED  BY <2>4, <2>5
<1>4. ASSUME NEW l \in {"campaign", "ccg"}
      PROVE  /\ Fair(b, Final(new, l), Final(new, "account"))
             /\ l \in Ahead(new.pc) => Fair(b, new.available[l], Final(new, "account"))
  <2>1. Final(new, "account") = MulFloor(share, b.account_amount)
    BY <1>1, <1>2, <1>3
  <2>2. Fair(b, MulFloor(share, b.amount), MulFloor(share, b.account_amount))
    BY FairShares
  <2>3. CASE l \in Done(level)
    <3>1. Final(new, l) = MulFloor(share, b.amount)
      BY <1>2, <1>3, <2>3
    <3> QED  BY <1>1, <2>1, <2>2, <2>3, <3>1
  <2>4. CASE l \notin Done(level)
    <3>1. new.available[l] = MulFloor(share, b.amount)
      BY <1>1, <1>2, <2>4 DEF Shared
    <3>2. new.confirmed[l] = 0 /\ new.revert[l] = 0
      BY <1>1, <2>4 DEF CallOK
    <3>3. Final(new, l) = 0
      BY <3>2 DEF Final
    <3>4. Fair(b, 0, MulFloor(share, b.account_amount))
      <4>1. MulFloor(share, b.account_amount) \in Int
        <5>1. share \in Int /\ b.account_amount \in Int
          BY <1>2
        <5> QED  BY <5>1, MulFloorType
      <4> QED  BY <4>1, FairZero
    <3> QED  BY <2>1, <2>2, <3>1, <3>3, <3>4
  <2> QED  BY <2>3, <2>4
<1> QED  BY <1>4 DEF FairCall

LEMMA AdvanceFair ==
    ASSUME TypeInv, NEW b \in Bids, NEW c \in CallType, NEW level \in Level, c.pc = level,
           NEW ok \in BOOLEAN, NEW amount \in Int,
           NEW new \in CallType, new = Advance(b, c, level, ok, amount),
           CallOK(b, c), CallOK(b, new), FairCall(b, c), c.available[level] # 0,
           ~b.forced /\ level = "account" /\ ok => amount = c.available[level],
           ~b.forced /\ level # "account" =>
              Magnitude(amount) <= Magnitude(c.available[level]) /\ (~ok => amount = 0)
    PROVE  FairCall(b, new)
<1> SUFFICES ASSUME ~b.forced, b.account_amount # 0 PROVE FairCall(b, new)
  BY DEF FairCall
<1>1. /\ new.pc = After(level)
      /\ new.confirmed = [c.confirmed EXCEPT ![level] = amount]
      /\ ok => new.revert = c.revert /\ new.available = c.available
      /\ ~ok => \E share \in Nat : Shared(b, c, new, Done(level), share)
  BY AdvanceFields
<1>2. /\ Level = {"account", "campaign", "ccg"} /\ "account" \in Done(level)
      /\ Ahead(new.pc) = Level \ Done(level) /\ level \in Done(level)
      /\ Level \ Done(level) \subseteq Ahead(level) /\ level \in Ahead(level)
      /\ new.pc \notin {"new", "account"}
  BY <1>1, Levels
<1>3. /\ Requested(b, "account") = b.account_amount
      /\ \A l \in {"campaign", "ccg"} : Requested(b, l) = b.amount
      /\ b.amount \in Int /\ b.account_amount \in Int
  BY BidType DEF Requested
<1>4. /\ c.confirmed \in [Level -> Int] /\ c.revert \in [Level -> Int]
      /\ c.available \in [Level -> Int]
      /\ new.confirmed \in [Level -> Int] /\ new.revert \in [Level -> Int]
  BY DEF CallType
<1>5. /\ \A l \in Level : new.confirmed[l] = IF l = level THEN amount ELSE c.confirmed[l]
      /\ \A l \in Ahead(level) : c.confirmed[l] = 0 /\ c.revert[l] = 0
      /\ ok => \A l \in Level : new.revert[l] = c.revert[l] /\ new.available[l] = c.available[l]
      /\ \A l \in Level : c.confirmed[l] \in Int /\ c.revert[l] \in Int
  BY <1>1, <1>4 DEF CallOK
<1>6. CASE level = "account"
  <2>1. \A l \in Level : c.available[l] = Requested(b, l) /\ c.confirmed[l] = 0 /\ c.revert[l] = 0
    <3>1. Ahead("account") = Level
      BY DEF Ahead
    <3> QED  BY <1>5, <1>6, <3>1 DEF CallOK
  <2>2. CASE ok
    <3>1. Final(new, "account") = b.account_amount
      <4>1. amount = b.account_amount
        BY <1>2, <1>3, <1>6, <2>1, <2>2
      <4>2. new.confirmed["account"] = amount /\ new.revert["account"] = 0
        BY <1>2, <1>5, <1>6, <2>1, <2>2
      <4> QED  BY <4>1, <4>2 DEF Final
    <3>2. \A l \in {"campaign", "ccg"} : Final(new, l) = 0 /\ new.available[l] = b.amount
      <4> SUFFICES ASSUME NEW l \in {"campaign", "ccg"}
                   PROVE  Final(new, l) = 0 /\ new.available[l] = b.amount
        OBVIOUS
      <4>1. l \in Level /\ l # level
        BY <1>2, <1>6
      <4>2. new.confirmed[l] = 0 /\ new.revert[l] = 0 /\ new.available[l] = b.amount
        <5>1. new.confirmed[l] = c.confirmed[l] /\ new.revert[l] = c.revert[l]
              /\ new.available[l] = c.available[l]
          BY <1>5, <2>2, <4>1
        <5>2. c.available[l] = Requested(b, l) /\ Requested(b, l) = b.amount
          BY <1>3, <2>1, <4>1
        <5>3. c.confirmed[l] = 0 /\ c.revert[l] = 0
          BY <2>1, <4>1
        <5> QED  BY <5>1, <5>2, <5>3
      <4> QED  BY <4>2 DEF Final
    <3>3. Fair(b, 0, b.account_amount) /\ Fair(b, b.amount, b.account_amount)
      BY <1>3, FairZero, FairShares
    <3> QED  BY <3>1, <3>2, <3>3 DEF FairCall
  <2>3. CASE ~ok
    <3>1. PICK share \in Nat : Shared(b, c, new, Done(level), share)
      BY <1>1, <2>3
    <3>2. \A l \in Done(level) : c.revert[l] = 0
      BY <2>1, Levels
    <3> QED  BY <1>1, <3>1, <3>2, SharedIsFair
  <2> QED  BY <2>2, <2>3
<1>7. CASE level # "account"
  <2>1. level \in {"campaign", "ccg"} /\ c.pc \notin {"new", "account"}
    BY <1>2, <1>7
  <2>2. \A l \in {"campaign", "ccg"} :
           /\ Fair(b, Final(c, l), Final(c, "account"))
           /\ l \in Ahead(c.pc) => Fair(b, c.available[l], Final(c, "account"))
    BY <2>1 DEF FairCall
  <2>3. Final(c, "account") \in Int
    BY <1>2, <1>4 DEF Final
  <2>4. Fair(b, c.available[level], Final(c, "account"))
    BY <1>2, <2>1, <2>2
  <2>5. CASE ok
    <3>1. Final(new, "account") = Final(c, "account")
      BY <1>1, <1>2, <1>5, <1>7, <2>5 DEF Final
    <3>2. Final(new, level) = amount
      <4>1. new.confirmed[level] = amount /\ new.revert[level] = 0
        BY <1>2, <1>5, <2>5
      <4> QED  BY <4>1 DEF Final
    <3>3. Fair(b, amount, Final(c, "account"))
      <4>1. c.available[level] \in Int
        BY <1>4
      <4> QED  BY <1>7, <2>3, <2>4, <4>1, FairLess
    <3>4. ASSUME NEW l \in {"campaign", "ccg"}
          PROVE  /\ Fair(b, Final(new, l), Final(new, "account"))
                 /\ l \in Ahead(new.pc) => Fair(b, new.available[l], Final(new, "account"))
      <4>1. l \in Ahead(new.pc) => l \in Ahead(c.pc) /\ new.available[l] = c.available[l]
        BY <1>1, <1>2, <2>5
      <4>2. l # level => Final(new, l) = Final(c, l)
        BY <1>1, <1>2, <1>5, <2>5 DEF Final
      <4> QED  BY <2>2, <3>1, <3>2, <3>3, <4>1, <4>2
    <3> QED  BY <3>4 DEF FairCall
  <2>6. CASE ~ok
    <3>1. PICK share \in Nat : Shared(b, c, new, Done(level), share)
      BY <1>1, <2>6
    <3>2. new.confirmed[level] = 0
      BY <1>5, <1>7, <2>6
    <3>3. b.amount # 0
      <4>1. c.available[level] \in Int
        BY <1>4
      <4> QED  BY <2>3, <2>4, <4>1, FairShares
    <3>4. share = 0
      BY <1>2, <1>3, <2>1, <3>1, <3>2, <3>3 DEF Shared
    <3> QED  BY <1>1, <3>1, <3>4, SharedIsFair
  <2> QED  BY <2>5, <2>6
<1> QED  BY <1>6, <1>7

(* The end of a call, and what is given back, leave what is final.         *)
LEMMA SettledCall ==
    ASSUME NEW b \in Bids, NEW c \in CallType, NEW new \in CallType, new = Settled(c),
           \A level \in Level : c.revert[level] # 0 => c.confirmed[level] # 0,
           ~b.forced /\ b.account_amount # 0 =>
              \A level \in {"campaign", "ccg"} : Fair(b, Final(c, level), Final(c, "account"))
    PROVE  /\ CallOK(b, new) /\ FairCall(b, new) /\ new.confirmed = c.confirmed
           /\ new.revert = c.revert
           /\ new.pc # "done" => new.limits = c.limits
<1>1. /\ new.confirmed = c.confirmed /\ new.revert = c.revert
      /\ new.pc \in {"revert", "done"}
      /\ new.pc # "done" => new.limits = c.limits
      /\ new.pc = "revert" => \E level \in Level : c.revert[level] # 0
      /\ new.pc = "done" => ~\E level \in Level : c.revert[level] # 0
  <2>1. CASE \E level \in Level : c.revert[level] # 0
    <3>1. new = [c EXCEPT !.pc = "revert"]
      BY <2>1 DEF Settled
    <3> QED  BY <2>1, <3>1 DEF CallType
  <2>2. CASE ~\E level \in Level : c.revert[level] # 0
    <3>1. new = [c EXCEPT !.pc = "done", !.limits = NoTraits]
      BY <2>2 DEF Settled
    <3> QED  BY <2>2, <3>1 DEF CallType
  <2> QED  BY <2>1, <2>2
<1>2. Ahead(new.pc) = {}
  BY <1>1, Levels
<1>3. CallOK(b, new)
  BY <1>1, <1>2 DEF CallOK
<1>4. \A level \in Level : Final(new, level) = Final(c, level)
  BY <1>1 DEF Final
<1>5. FairCall(b, new)
  <2>1. \A level \in {"campaign", "ccg"} : Final(new, level) = Final(c, level)
        /\ Final(new, "account") = Final(c, "account")
    BY <1>4, Levels
  <2> QED  BY <1>2, <2>1 DEF FairCall
<1> QED  BY <1>1, <1>3, <1>5

(* The calls in the state: CallInv is kept by every step.                  *)

(* A step of one call that books amount for it on one level.               *)
LEMMA CallStep ==
    ASSUME TypeInv, CallInv, NEW b \in Bids, NEW new, call' = [call EXCEPT ![b] = new],
           CallOK(b, new), FairCall(b, new), booked'[b] = new.confirmed,
           \A d \in Bids : d # b => booked'[d] = booked[d]
    PROVE  CallInv'
<1>1. call \in [Bids -> CallType]
  BY DEF TypeInv, TypeOK
<1>2. \A d \in Bids : call'[d] = IF d = b THEN new ELSE call[d]
  BY <1>1
<1>3. ASSUME NEW d \in Bids
      PROVE  CallOK(d, call'[d]) /\ FairCall(d, call'[d]) /\ booked'[d] = call'[d].confirmed
  BY <1>2 DEF CallInv
<1> QED  BY <1>3 DEF CallInv

LEMMA BookedRow ==
    ASSUME TypeInv, NEW b \in Bids, NEW level \in Level, NEW amount \in Int,
           Book(b, level, amount)
    PROVE  /\ booked'[b] = [booked[b] EXCEPT ![level] = @ + amount]
           /\ \A d \in Bids : d # b => booked'[d] = booked[d]
<1>1. booked \in [Bids -> [Level -> Int]]
  BY DEF TypeInv, TypeOK
<1>2. booked' = [booked EXCEPT ![b][level] = @ + amount]
  BY DEF Book
<1> QED  BY <1>1, <1>2

LEMMA ConfirmCalls ==
    ASSUME TypeInv, CallInv, NEW b \in Bids, NEW level \in Level, NEW result,
           NEW ok \in BOOLEAN, ok = result.ok, NEW amount \in Int, amount = result.confirmed,
           Confirm(b, level, result),
           ~b.forced /\ level = "account" /\ ok => amount = call[b].available[level],
           ~b.forced /\ level # "account" =>
              Magnitude(amount) <= Magnitude(call[b].available[level]) /\ (~ok => amount = 0),
           TypeInv'
    PROVE  CallInv'
<1> DEFINE c == call[b]
           new == Advance(b, c, level, ok, amount)
<1>1. c \in CallType /\ c.pc = level /\ c.available[level] # 0
  BY DEF TypeInv, TypeOK, Confirm
<1>2. CallOK(b, c) /\ FairCall(b, c) /\ booked[b] = c.confirmed
  BY DEF CallInv
<1>3. call' = [call EXCEPT ![b] = new]
  BY DEF Confirm, Advance
<1> HIDE DEF new
<1>4. new \in CallType
  <2>1. call \in [Bids -> CallType] /\ call' \in [Bids -> CallType]
    BY DEF TypeInv, TypeOK
  <2>2. call'[b] = new
    BY <1>3, <2>1
  <2> QED  BY <2>1, <2>2
<1>5. new = Advance(b, c, level, ok, amount)
  BY DEF new
<1>6. /\ ~b.forced /\ level = "account" /\ ok => amount = c.available[level]
      /\ ~b.forced /\ level # "account" =>
            Magnitude(amount) <= Magnitude(c.available[level]) /\ (~ok => amount = 0)
  OBVIOUS
<1> HIDE DEF c
<1>7. CallOK(b, new) /\ new.confirmed = [c.confirmed EXCEPT ![level] = amount]
  BY <1>1, <1>2, <1>4, <1>5, AdvanceCall, AdvanceFields
<1>8. FairCall(b, new)
  BY <1>1, <1>2, <1>4, <1>5, <1>6, <1>7, AdvanceFair
<1>9. booked'[b] = new.confirmed /\ \A d \in Bids : d # b => booked'[d] = booked[d]
  <2>1. Book(b, level, amount)
    BY DEF Confirm
  <2>2. c.confirmed[level] = 0 /\ c.confirmed \in [Level -> Int]
    BY <1>1, <1>2, Levels DEF CallOK, CallType
  <2>3. booked'[b] = [c.confirmed EXCEPT ![level] = @ + amount]
    BY <1>2, <2>1, BookedRow
  <2>4. booked'[b] = [c.confirmed EXCEPT ![level] = amount]
    BY <2>2, <2>3
  <2> QED  BY <1>7, <2>1, <2>4, BookedRow
<1> QED  BY <1>3, <1>7, <1>8, <1>9, CallStep

LEMMA BeginCalls ==
    ASSUME TypeInv, CallInv, NEW b \in Bids, Begin(b)
    PROVE  CallInv'
<1>1. call[b] \in CallType /\ call[b].pc = "new"
  BY DEF TypeInv, TypeOK, Begin
<1>2. CallOK(b, call[b]) /\ booked[b] = call[b].confirmed
  BY DEF CallInv
<1>3. Ahead("new") = Level /\ Ahead("account") = Level
  BY DEF Ahead
<1>4. \A level \in Level : call[b].confirmed[level] = 0 /\ call[b].revert[level] = 0
  BY <1>1, <1>2, <1>3 DEF CallOK
<1>5. \A d \in Bids : booked'[d] = booked[d]
  BY DEF Begin
<1>6. CASE b.forced \/ Resolved(b)
  <2> DEFINE limits == [level \in Level |-> Limits(b, level)]
             available == [level \in Level |-> Requested(b, level)]
             new == [call[b] EXCEPT !.pc = "account", !.limits = limits,
                                    !.available = available, !.imps = b.imps]
  <2>1. call' = [call EXCEPT ![b] = new]
    BY <1>6 DEF Begin
  <2>2. \A level \in Level : available[level] = Requested(b, level)
    OBVIOUS
  <2> HIDE DEF limits, available
  <2>3. /\ new.pc = "account" /\ new.available = available
        /\ new.confirmed = call[b].confirmed /\ new.revert = call[b].revert
    BY <1>1 DEF CallType
  <2> HIDE DEF new
  <2>4. CallOK(b, new) /\ FairCall(b, new)
    BY <1>3, <1>4, <2>2, <2>3 DEF CallOK, FairCall
  <2> QED  BY <1>2, <1>5, <2>1, <2>3, <2>4, CallStep
<1>7. CASE ~(b.forced \/ Resolved(b))
  <2> DEFINE new == [call[b] EXCEPT !.pc = "done", !.ok = FALSE]
  <2>1. call' = [call EXCEPT ![b] = new]
    BY <1>7 DEF Begin
  <2>2. new.pc = "done" /\ new.confirmed = call[b].confirmed /\ new.revert = call[b].revert
    BY <1>1 DEF CallType
  <2> HIDE DEF new
  <2>3. CallOK(b, new)
    BY <1>4, <2>2, Levels DEF CallOK
  <2>4. FairCall(b, new)
    <3>1. \A level \in Level : Final(new, level) = 0
      BY <1>4, <2>2 DEF Final
    <3>2. Fair(b, 0, 0)
      BY FairZero
    <3> QED  BY <2>2, <3>1, <3>2, Levels DEF FairCall
  <2> QED  BY <1>2, <1>5, <2>1, <2>2, <2>3, <2>4, CallStep
<1> QED  BY <1>6, <1>7

LEMMA SkipCalls ==
    ASSUME TypeInv, CallInv, NEW b \in Bids, NEW level \in Level, Skip(b, level)
    PROVE  CallInv'
<1> DEFINE c == call[b]
           new == [c EXCEPT !.pc = After(level)]
<1>1. c \in CallType /\ c.pc = level /\ c.available[level] = 0
  BY DEF TypeInv, TypeOK, Skip
<1>2. CallOK(b, c) /\ FairCall(b, c) /\ booked[b] = c.confirmed
  BY DEF CallInv
<1>3. call' = [call EXCEPT ![b] = new] /\ \A d \in Bids : booked'[d] = booked[d]
  BY DEF Skip
<1> HIDE DEF c
<1>4. /\ new.pc = After(level) /\ new.confirmed = c.confirmed /\ new.revert = c.revert
      /\ new.available = c.available
  BY <1>1 DEF CallType
<1> HIDE DEF new
<1>5. /\ new.pc \notin {"new", "account", "revert", "done"}
      /\ Ahead(new.pc) \subseteq Ahead(level)
  BY <1>4, Levels
<1>6. CallOK(b, new)
  BY <1>1, <1>2, <1>4, <1>5 DEF CallOK
<1>7. FairCall(b, new)
  <2> SUFFICES ASSUME ~b.forced, b.account_amount # 0 PROVE FairCall(b, new)
    BY DEF FairCall
  <2>1. \A l \in Level : Final(new, l) = Final(c, l)
    BY <1>4 DEF Final
  <2>2. level # "account"
    <3> SUFFICES ASSUME level = "account" PROVE FALSE
      OBVIOUS
    <3>1. c.available["account"] = Requested(b, "account")
      BY <1>1, <1>2 DEF CallOK
    <3> QED  BY <1>1, <3>1 DEF Requested
  <2>3. \A l \in {"campaign", "ccg"} :
           /\ Fair(b, Final(c, l), Final(c, "account"))
           /\ l \in Ahead(level) => Fair(b, c.available[l], Final(c, "account"))
    <3>1. c.pc \notin {"new", "account"}
      BY <1>1, <2>2, Levels
    <3> QED  BY <1>1, <1>2, <3>1 DEF FairCall
  <2> QED  BY <1>4, <1>5, <2>1, <2>3, Levels DEF FairCall
<1> QED  BY <1>2, <1>3, <1>4, <1>6, <1>7, CallStep

LEMMA RateCalls ==
    ASSUME TypeInv, CallInv, NEW b \in Bids, ConfirmBidRate(b), TypeInv'
    PROVE  CallInv'
<1> DEFINE confirmed == IF b.amount = 0 THEN b.imps
                        ELSE MulFloor(Share(call[b].confirmed["ccg"], b.amount), b.imps)
           c == [call[b] EXCEPT !.imps = @ - confirmed]
           new == Settled(c)
<1>1. call[b] \in CallType /\ call[b].pc = "rate"
  BY DEF TypeInv, TypeOK, ConfirmBidRate
<1>2. CallOK(b, call[b]) /\ FairCall(b, call[b]) /\ booked[b] = call[b].confirmed
  BY DEF CallInv
<1>3. call' = [call EXCEPT ![b] = new] /\ \A d \in Bids : booked'[d] = booked[d]
  BY DEF ConfirmBidRate
<1>4. c.confirmed = call[b].confirmed /\ c.revert = call[b].revert
  BY <1>1 DEF CallType
<1>5. c \in CallType
  <2>1. confirmed \in Int
    <3>1. b.amount \in Int /\ b.imps \in Int /\ call[b].confirmed["ccg"] \in Int
      BY <1>1, BidType, Levels DEF CallType
    <3>2. ASSUME b.amount # 0 PROVE Share(call[b].confirmed["ccg"], b.amount) \in Int
      <4>1. /\ Magnitude(call[b].confirmed["ccg"]) * Unit \in Int
            /\ Magnitude(b.amount) \in Nat \ {0}
        BY <3>1, <3>2, UnitAssumption DEF Magnitude
      <4> QED  BY <4>1 DEF Share
    <3> QED  BY <3>1, <3>2, MulFloorType
  <2> HIDE DEF confirmed
  <2> QED  BY <1>1, <2>1 DEF CallType
<1> HIDE DEF confirmed, c
<1>6. new \in CallType
  <2>1. call \in [Bids -> CallType] /\ call' \in [Bids -> CallType]
    BY DEF TypeInv, TypeOK
  <2>2. call'[b] = new
    BY <1>3, <2>1
  <2> QED  BY <2>1, <2>2
<1>7. \A level \in Level : c.revert[level] # 0 => c.confirmed[level] # 0
  BY <1>2, <1>4 DEF CallOK
<1>8. ~b.forced /\ b.account_amount # 0 =>
         \A level \in {"campaign", "ccg"} : Fair(b, Final(c, level), Final(c, "account"))
  BY <1>1, <1>2, <1>4 DEF FairCall, Final
<1>9. new = Settled(c)
  OBVIOUS
<1> HIDE DEF new
<1>10. CallOK(b, new) /\ FairCall(b, new) /\ new.confirmed = c.confirmed
  BY <1>5, <1>6, <1>7, <1>8, <1>9, SettledCall
<1> QED  BY <1>2, <1>3, <1>4, <1>10, CallStep

LEMMA RevertCalls ==
    ASSUME TypeInv, CallInv, NEW b \in Bids, RevertConfirmedBid(b), TypeInv'
    PROVE  CallInv'
<1> DEFINE level == NextRevert(call[b])
           c == [call[b] EXCEPT !.revert[level] = 0,
                                !.confirmed[level] = @ - call[b].revert[level]]
           new == Settled(c)
<1>1. call[b] \in CallType /\ call[b].pc = "revert" /\ level \in Level
  BY DEF TypeInv, TypeOK, RevertConfirmedBid, NextRevert, Level
<1>2. CallOK(b, call[b]) /\ FairCall(b, call[b]) /\ booked[b] = call[b].confirmed
  BY DEF CallInv
<1>3. CASE books[level][EntityId(b, level)] = NoDays
  <2>1. call' = call /\ booked' = booked
    BY <1>3 DEF RevertConfirmedBid
  <2> QED  BY <2>1 DEF CallInv
<1>4. CASE books[level][EntityId(b, level)] # NoDays
  <2>1. /\ Book(b, level, -call[b].revert[level])
        /\ call' = [call EXCEPT ![b] = new]
    BY <1>4 DEF RevertConfirmedBid
  <2> HIDE DEF level
  <2>2. /\ c.confirmed = [call[b].confirmed EXCEPT ![level] = @ - call[b].revert[level]]
        /\ c.revert = [call[b].revert EXCEPT ![level] = 0]
        /\ c \in CallType
    <3>1. /\ [call[b].revert EXCEPT ![level] = 0] \in [Level -> Int]
          /\ [call[b].confirmed EXCEPT ![level] = @ - call[b].revert[level]] \in [Level -> Int]
      BY <1>1 DEF CallType
    <3>2. c = [call[b] EXCEPT
                 !.revert = [call[b].revert EXCEPT ![level] = 0],
                 !.confirmed = [call[b].confirmed EXCEPT ![level] = @ - call[b].revert[level]]]
      BY <1>1 DEF CallType
    <3> QED  BY <1>1, <3>1, <3>2 DEF CallType
  <2> HIDE DEF c
  <2>3. new \in CallType
    <3>1. call \in [Bids -> CallType] /\ call' \in [Bids -> CallType]
      BY DEF TypeInv, TypeOK
    <3>2. call'[b] = new
      BY <2>1, <3>1
    <3> QED  BY <3>1, <3>2
  <2>4. new = Settled(c)
    OBVIOUS
  <2> HIDE DEF new
  <2>5. \A l \in Level : call[b].confirmed[l] \in Int /\ call[b].revert[l] \in Int
    BY <1>1 DEF CallType
  <2>6. \A l \in Level : /\ c.revert[l] = IF l = level THEN 0 ELSE call[b].revert[l]
                         /\ c.confirmed[l] = IF l = level
                                             THEN call[b].confirmed[l] - call[b].revert[l]
                                             ELSE call[b].confirmed[l]
    BY <1>1, <2>2 DEF CallType
  <2>7. \A l \in Level : Final(c, l) = Final(call[b], l)
    BY <2>5, <2>6 DEF Final
  <2>8. \A l \in Level : c.revert[l] # 0 => c.confirmed[l] # 0
    BY <1>2, <2>6 DEF CallOK
  <2>9. ~b.forced /\ b.account_amount # 0 =>
           \A l \in {"campaign", "ccg"} : Fair(b, Final(c, l), Final(c, "account"))
    <3>1. \A l \in {"campaign", "ccg"} : Final(c, l) = Final(call[b], l)
          /\ Final(c, "account") = Final(call[b], "account")
      BY <2>7, Levels
    <3> QED  BY <1>1, <1>2, <3>1 DEF FairCall
  <2>10. CallOK(b, new) /\ FairCall(b, new) /\ new.confirmed = c.confirmed
    <3>1. c \in CallType
      BY <2>2
    <3> QED  BY ONLY <3>1, <2>3, <2>4, <2>8, <2>9, SettledCall, b \in Bids
  <2>11. booked'[b] = c.confirmed /\ \A d \in Bids : d # b => booked'[d] = booked[d]
    <3>1. -call[b].revert[level] \in Int
      BY <1>1, <2>5
    <3>2. /\ booked'[b] = [booked[b] EXCEPT ![level] = @ + (-call[b].revert[level])]
          /\ \A d \in Bids : d # b => booked'[d] = booked[d]
      BY <1>1, <2>1, <3>1, BookedRow
    <3>3. call[b].confirmed[level] + (-call[b].revert[level])
            = call[b].confirmed[level] - call[b].revert[level]
      BY <1>1, <2>5
    <3> QED  BY <1>2, <2>2, <3>2, <3>3
  <2> QED  BY <2>1, <2>10, <2>11, CallStep
<1> QED  BY <1>3, <1>4

LEMMA CallInvariant == Spec => []CallInv
<1>1. Init => CallInv
  <2> SUFFICES ASSUME Init, NEW b \in Bids
               PROVE  CallOK(b, call[b]) /\ FairCall(b, call[b]) /\ booked[b] = call[b].confirmed
    BY DEF CallInv
  <2>1. call[b] = NewCall /\ booked[b] = Zero
    BY DEF Init
  <2>2. /\ NewCall.pc = "new" /\ NewCall.confirmed = Zero /\ NewCall.revert = Zero
        /\ \A level \in Level : Zero[level] = 0
    BY DEF NewCall, Zero
  <2>3. Ahead("new") = Level
    BY DEF Ahead
  <2> QED  BY <2>1, <2>2, <2>3 DEF CallOK, FairCall
<1>2. ASSUME TypeInv, CallInv, TypeInv', [Next]_vars PROVE CallInv'
  <2>1. ASSUME UNCHANGED <<call, booked>> PROVE CallInv'
    BY <1>2, <2>1 DEF CallInv
  <2>2. ASSUME NEW b \in Bids, ConfirmAccount(b) PROVE CallInv'
    <3>1. PICK result :
             /\ Confirm(b, "account", result)
             /\ result.ok \in BOOLEAN /\ result.confirmed \in Int
             /\ ~b.forced /\ result.ok => result.confirmed = call[b].available["account"]
      BY <1>2, <2>2, ConfirmAccountResult
    <3>2. PICK ok \in BOOLEAN : ok = result.ok
      BY <3>1
    <3>3. PICK amount \in Int : amount = result.confirmed
      BY <3>1
    <3>4. ~b.forced /\ ok => amount = call[b].available["account"]
      BY <3>1, <3>2, <3>3
    <3>5. "account" \in Level
      BY Levels
    <3> QED  BY <1>2, <3>1, <3>2, <3>3, <3>4, <3>5, ConfirmCalls
  <2>3. ASSUME NEW b \in Bids, NEW level \in {"campaign", "ccg"}, ConfirmBid(b, level)
        PROVE  CallInv'
    <3>1. PICK result :
             /\ Confirm(b, level, result)
             /\ result.ok \in BOOLEAN /\ result.confirmed \in Int
             /\ ~b.forced => /\ Magnitude(result.confirmed) <= Magnitude(call[b].available[level])
                             /\ ~result.ok => result.confirmed = 0
      BY <1>2, <2>3, ConfirmBidResult
    <3>2. PICK ok \in BOOLEAN : ok = result.ok
      BY <3>1
    <3>3. PICK amount \in Int : amount = result.confirmed
      BY <3>1
    <3>4. ~b.forced => Magnitude(amount) <= Magnitude(call[b].available[level])
                       /\ (~ok => amount = 0)
      BY <3>1, <3>2, <3>3
    <3>5. level \in Level /\ level # "account"
      BY Levels
    <3> QED  BY <1>2, <3>1, <3>2, <3>3, <3>4, <3>5, ConfirmCalls
  <2>4. ASSUME NEW b \in Bids, CallNext(b) PROVE CallInv'
    BY <1>2, <2>2, <2>3, <2>4, BeginCalls, SkipCalls, RateCalls, RevertCalls DEF CallNext
  <2>5. ASSUME UNCHANGED vars \/ (\E new \in Configs : Config(new))
               \/ (\E source \in Stats : Stat(source)) \/ ReplaceAmounts
        PROVE  UNCHANGED <<call, booked>>
    BY <2>5 DEF vars, Config, Stat, ReplaceAmounts
  <2> QED  BY <1>2, <2>1, <2>4, <2>5 DEF Next
<1> QED  BY <1>1, <1>2, TypeInvariant, PTL DEF Spec

(* However the calls of other bids, configurations and statistics come in  *)
(* between its levels: when a call that is not forced is answered, its     *)
(* campaign and its group keep no larger a share of the bid than its       *)
(* account has been charged for, up to one unit of rounding; a refusal or  *)
(* a cut at one level is given back at the levels confirmed before.        *)
THEOREM AccountPays == Spec => []AccountPaysForDelivery
<1>1. ASSUME TypeInv, CallInv PROVE AccountPaysForDelivery
  <2> SUFFICES ASSUME NEW b \in Bids, Answered(b), ~b.forced, b.account_amount # 0,
                      NEW level \in {"campaign", "ccg"}
               PROVE  Fair(b, booked[b][level], booked[b]["account"])
    BY DEF AccountPaysForDelivery, Fair
  <2>1. /\ call[b] \in CallType /\ call[b].pc = "done"
        /\ CallOK(b, call[b]) /\ FairCall(b, call[b]) /\ booked[b] = call[b].confirmed
    BY <1>1 DEF TypeInv, TypeOK, CallInv, Answered
  <2>2. \A l \in Level : Final(call[b], l) = booked[b][l]
    BY <2>1 DEF CallOK, CallType, Final
  <2>3. Fair(b, Final(call[b], level), Final(call[b], "account"))
    BY <2>1 DEF FairCall
  <2> QED  BY <2>2, <2>3, Levels
<1> QED  BY <1>1, TypeInvariant, CallInvariant, PTL

-----------------------------------------------------------------------------
(* The entry a call has booked on stays, when no bid is made for a day     *)
(* that the statistics settle.                                             *)

(* The limits in use: absent ones, and those with the offset of known ones.*)
OffsetKnown(level, id, limits) ==
    \/ limits = None
    \/ \E known \in KnownLimits(level, id) : limits.time_offset = known.time_offset

OffsetsKnown(conf) ==
    conf # None => \A level \in Level, id \in Id : OffsetKnown(level, id, conf[level][id])

ConfirmedEntry(b, level) ==
    call[b].pc # "done" /\ call[b].confirmed[level] # 0 =>
        AdvDate(call[b].limits[level], b.time) \in DOMAIN books[level][EntityId(b, level)]

EntryInv ==
    /\ OffsetsKnown(config)
    /\ stat # None => OffsetsKnown(stat.config)
    /\ \A b \in Bids, level \in Level :
          /\ AdvDate(call[b].limits[level], b.time) \in OpenDays(level, EntityId(b, level))
          /\ ConfirmedEntry(b, level)
    /\ ~aborted

LEMMA TraitsKnown ==
    ASSUME NEW level \in Level, NEW id \in Id
    PROVE  Traits(level) \in KnownLimits(level, id)
<1>1. Traits(level) # None
  BY TraitsType, NoneAssumption DEF AnyLimits
<1> QED  BY <1>1 DEF KnownLimits

LEMMA AdaptKnown ==
    ASSUME NEW new \in Configs
    PROVE  OffsetsKnown([level \in Level |-> [id \in Id |-> Adapt(level, new[level][id])]])
<1>1. ASSUME NEW level \in Level, NEW id \in Id
      PROVE  OffsetKnown(level, id, Adapt(level, new[level][id]))
  <2>1. CASE Adapt(level, new[level][id]) = None
    BY <2>1 DEF OffsetKnown
  <2>2. CASE Adapt(level, new[level][id]) # None
    <3>1. /\ new[level][id] # None
          /\ Adapt(level, new[level][id]).time_offset = new[level][id].time_offset
      BY <2>2, AdaptType
    <3>2. new[level][id] \in KnownLimits(level, id)
      BY <3>1 DEF KnownLimits
    <3> QED  BY <3>1, <3>2 DEF OffsetKnown
  <2> QED  BY <2>1, <2>2
<1> QED  BY <1>1 DEF OffsetsKnown

(* A day that is open is one the statistics leave alone.                   *)
LEMMA OpenIsFresh ==
    ASSUME NEW level \in Level, NEW id \in Id, NEW limits, OffsetKnown(level, id, limits),
           NEW d \in OpenDays(level, id), Stats # {}
    PROVE  d \in Date /\ d >= UseSourceEndDate(limits)
<1>1. d \in Date /\ \A known \in KnownLimits(level, id) \cup {None} : d >= UseSourceEndDate(known)
  BY DEF OpenDays
<1>2. CASE limits = None
  BY <1>1, <1>2
<1>3. CASE limits # None
  <2>1. PICK known \in KnownLimits(level, id) : limits.time_offset = known.time_offset
    BY <1>3 DEF OffsetKnown
  <2>2. known # None
    BY DEF KnownLimits
  <2>3. UseSourceEndDate(limits) = UseSourceEndDate(known)
    BY <1>3, <2>1, <2>2 DEF UseSourceEndDate
  <2> QED  BY <1>1, <2>3
<1> QED  BY <1>2, <1>3

LEMMA BidOpen ==
    ASSUME DaysOpen, NEW b \in Bids, NEW level \in Level, NEW limits, limits # None,
           OffsetKnown(level, EntityId(b, level), limits)
    PROVE  AdvDate(limits, b.time) \in OpenDays(level, EntityId(b, level))
<1>1. EntityId(b, level) \in Id
  BY BidType
<1>2. PICK known \in KnownLimits(level, EntityId(b, level)) : limits.time_offset = known.time_offset
  BY DEF OffsetKnown
<1>3. AdvDate(known, b.time) \in OpenDays(level, EntityId(b, level))
  BY <1>1 DEF DaysOpen, BidsStayOpen
<1> QED  BY <1>2, <1>3 DEF AdvDate

LEMMA TraitsOpen ==
    ASSUME DaysOpen, NEW b \in Bids, NEW level \in Level
    PROVE  AdvDate(NoTraits[level], b.time) \in OpenDays(level, EntityId(b, level))
<1>1. EntityId(b, level) \in Id /\ NoTraits[level] = Traits(level)
  BY BidType DEF NoTraits
<1>2. Traits(level) \in KnownLimits(level, EntityId(b, level))
  BY <1>1, TraitsKnown
<1> QED  BY <1>1, <1>2 DEF DaysOpen, BidsStayOpen

LEMMA LimitsOpen ==
    ASSUME DaysOpen, OffsetsKnown(config), NEW b \in Bids, NEW level \in Level
    PROVE  AdvDate(Limits(b, level), b.time) \in OpenDays(level, EntityId(b, level))
<1>1. EntityId(b, level) \in Id
  BY BidType
<1>2. CASE config # None /\ config[level][EntityId(b, level)] # None
  <2>1. Limits(b, level) = config[level][EntityId(b, level)]
    BY <1>2 DEF Limits
  <2>2. OffsetKnown(level, EntityId(b, level), Limits(b, level))
    BY <1>1, <1>2, <2>1 DEF OffsetsKnown
  <2> QED  BY <1>2, <2>1, <2>2, BidOpen
<1>3. CASE ~(config # None /\ config[level][EntityId(b, level)] # None)
  <2>1. Limits(b, level) = NoTraits[level]
    BY <1>3 DEF Limits, NoTraits
  <2> QED  BY <2>1, TraitsOpen
<1> QED  BY <1>2, <1>3

(* A step of one call: its limits are the same or those of a settled call, *)
(* no entry is lost, and what it has confirmed anew is there.              *)
LEMMA EntryStep ==
    ASSUME TypeInv, EntryInv, DaysOpen, NEW b \in Bids, NEW new, call' = [call EXCEPT ![b] = new],
           UNCHANGED <<config, stat, aborted>>,
           \A level \in Level :
              AdvDate(new.limits[level], b.time) \in OpenDays(level, EntityId(b, level)),
           \A level \in Level, id \in Id :
              DOMAIN books[level][id] \subseteq DOMAIN books'[level][id],
           \A level \in Level : new.pc # "done" /\ new.confirmed[level] # 0 =>
              AdvDate(new.limits[level], b.time) \in DOMAIN books'[level][EntityId(b, level)]
    PROVE  EntryInv'
<1>1. \A d \in Bids : call'[d] = IF d = b THEN new ELSE call[d]
  BY DEF TypeInv, TypeOK
<1>2. ASSUME NEW d \in Bids, NEW level \in Level
      PROVE  /\ AdvDate(call'[d].limits[level], d.time) \in OpenDays(level, EntityId(d, level))
             /\ call'[d].pc # "done" /\ call'[d].confirmed[level] # 0 =>
                  AdvDate(call'[d].limits[level], d.time)
                      \in DOMAIN books'[level][EntityId(d, level)]
  <2>1. CASE d = b
    BY <1>1, <2>1
  <2>2. CASE d # b
    <3>1. call'[d] = call[d]
      BY <1>1, <2>2
    <3>2. EntityId(d, level) \in Id
      BY BidType
    <3> QED  BY <3>1, <3>2 DEF EntryInv, ConfirmedEntry
  <2> QED  BY <2>1, <2>2
<1> QED  BY <1>2 DEF EntryInv, ConfirmedEntry

LEMMA BookEntries ==
    ASSUME TypeInv, NEW b \in Bids, NEW level \in Level, NEW amount \in Int,
           Book(b, level, amount),
           NEW date, date = AdvDate(call[b].limits[level], b.time)
    PROVE  /\ \A l \in Level, id \in Id : DOMAIN books[l][id] \subseteq DOMAIN books'[l][id]
           /\ amount # 0 => date \in DOMAIN books'[level][EntityId(b, level)]
<1> DEFINE new == AddAmount(books[level][EntityId(b, level)], date, amount)
<1>1. EntityId(b, level) \in Id /\ books = [l \in Level |-> [id \in Id |-> books[l][id]]]
  BY BidType DEF TypeInv, TypeOK, AreBooks
<1>2. CASE amount = 0
  BY <1>2 DEF Book
<1>3. CASE amount # 0
  <2>1. books' = [books EXCEPT ![level][EntityId(b, level)] = new]
    BY <1>3 DEF Book
  <2>2. DOMAIN new = DOMAIN books[level][EntityId(b, level)] \cup {date}
    BY DEF AddAmount
  <2> HIDE DEF new
  <2>3. \A l \in Level, id \in Id :
           books'[l][id] = IF l = level /\ id = EntityId(b, level) THEN new ELSE books[l][id]
    BY <1>1, <2>1
  <2> QED  BY <1>1, <2>2, <2>3
<1> QED  BY <1>2, <1>3

LEMMA ConfirmEntries ==
    ASSUME TypeInv, EntryInv, DaysOpen, NEW b \in Bids, NEW level \in Level, NEW result,
           result.ok \in BOOLEAN, result.confirmed \in Int, Confirm(b, level, result)
    PROVE  EntryInv'
<1>1. PICK ok \in BOOLEAN : ok = result.ok
  OBVIOUS
<1>2. PICK amount \in Int : amount = result.confirmed
  OBVIOUS
<1> DEFINE c == call[b]
           new == Advance(b, c, level, ok, amount)
<1>3. c \in CallType /\ c.pc = level
  BY DEF TypeInv, TypeOK, Confirm
<1>4. call' = [call EXCEPT ![b] = new] /\ UNCHANGED <<config, stat, aborted>>
  BY <1>1, <1>2 DEF Confirm, Advance
<1>5. Book(b, level, amount)
  BY <1>2 DEF Confirm
<1>6. \A l \in Level : /\ AdvDate(c.limits[l], b.time) \in OpenDays(l, EntityId(b, l))
                       /\ c.confirmed[l] # 0 =>
                            AdvDate(c.limits[l], b.time) \in DOMAIN books[l][EntityId(b, l)]
  <2>1. c.pc # "done"
    BY <1>3 DEF Level
  <2> QED  BY <2>1 DEF EntryInv, ConfirmedEntry
<1>7. PICK date : date = AdvDate(c.limits[level], b.time)
  OBVIOUS
<1>8. /\ \A l \in Level, id \in Id : DOMAIN books[l][id] \subseteq DOMAIN books'[l][id]
      /\ amount # 0 => date \in DOMAIN books'[level][EntityId(b, level)]
  BY <1>5, <1>7, BookEntries
<1> HIDE DEF c
<1>9. new.limits = c.limits
  <2> DEFINE confirmed == [c EXCEPT !.pc = After(level), !.confirmed[level] = amount,
                                    !.ok = @ /\ ok]
  <2>1. confirmed \in CallType /\ confirmed.limits = c.limits
    <3>1. After(level) \in {"new", "rate", "revert", "done"} \cup Level
      BY Levels
    <3>2. [c.confirmed EXCEPT ![level] = amount] \in [Level -> Int]
      BY <1>3 DEF CallType
    <3>3. (c.ok /\ ok) \in BOOLEAN
      OBVIOUS
    <3>4. confirmed = [c EXCEPT !.pc = After(level),
                                !.confirmed = [c.confirmed EXCEPT ![level] = amount],
                                !.ok = c.ok /\ ok]
      BY <1>3 DEF CallType
    <3> HIDE DEF confirmed
    <3> QED  BY <1>3, <3>1, <3>2, <3>3, <3>4 DEF CallType
  <2>2. new = IF ok \/ b.forced THEN confirmed ELSE RecalcRemindAmounts(b, confirmed, Done(level))
    BY DEF Advance
  <2> HIDE DEF confirmed, new
  <2>3. Done(level) \in SUBSET Level
    BY Levels
  <2>4. RecalcRemindAmounts(b, confirmed, Done(level)).limits = confirmed.limits
    BY <2>1, <2>3, RecalcType
  <2> QED  BY <2>1, <2>2, <2>4
<1>10. new.confirmed = [c.confirmed EXCEPT ![level] = amount]
  BY <1>3, AdvanceFields
<1> HIDE DEF new
<1>11. ASSUME NEW l \in Level, new.confirmed[l] # 0
       PROVE  AdvDate(new.limits[l], b.time) \in DOMAIN books'[l][EntityId(b, l)]
  <2>1. EntityId(b, l) \in Id /\ c.confirmed \in [Level -> Int]
    BY <1>3, BidType DEF CallType
  <2>2. CASE l = level
    <3>1. amount # 0
      BY <1>10, <1>11, <2>1, <2>2
    <3> QED  BY <1>7, <1>8, <1>9, <2>2, <3>1
  <2>3. CASE l # level
    <3>1. c.confirmed[l] # 0
      BY <1>10, <1>11, <2>1, <2>3
    <3> QED  BY <1>6, <1>8, <1>9, <2>1, <3>1
  <2> QED  BY <2>2, <2>3
<1>12. \A l \in Level : AdvDate(new.limits[l], b.time) \in OpenDays(l, EntityId(b, l))
  BY <1>6, <1>9
<1> QED  BY <1>4, <1>8, <1>11, <1>12, EntryStep

LEMMA BeginEntries ==
    ASSUME TypeInv, CallInv, EntryInv, DaysOpen, NEW b \in Bids, Begin(b)
    PROVE  EntryInv'
<1>1. call[b] \in CallType /\ call[b].pc = "new"
  BY DEF TypeInv, TypeOK, Begin
<1>2. \A level \in Level : call[b].confirmed[level] = 0
  BY <1>1 DEF CallInv, CallOK, Ahead
<1>3. books' = books /\ UNCHANGED <<config, stat, aborted>>
  BY DEF Begin
<1>4. CASE b.forced \/ Resolved(b)
  <2> DEFINE limits == [level \in Level |-> Limits(b, level)]
             available == [level \in Level |-> Requested(b, level)]
             new == [call[b] EXCEPT !.pc = "account", !.limits = limits,
                                    !.available = available, !.imps = b.imps]
  <2>1. call' = [call EXCEPT ![b] = new]
    BY <1>4 DEF Begin
  <2>2. \A level \in Level : AdvDate(limits[level], b.time) \in OpenDays(level, EntityId(b, level))
    BY LimitsOpen DEF EntryInv
  <2> HIDE DEF limits, available
  <2>3. new.limits = limits /\ new.confirmed = call[b].confirmed
    BY <1>1 DEF CallType
  <2> HIDE DEF new
  <2> QED  BY <1>2, <1>3, <2>1, <2>2, <2>3, EntryStep
<1>5. CASE ~(b.forced \/ Resolved(b))
  <2> DEFINE new == [call[b] EXCEPT !.pc = "done", !.ok = FALSE]
  <2>1. call' = [call EXCEPT ![b] = new]
    BY <1>5 DEF Begin
  <2>2. new.limits = call[b].limits /\ new.confirmed = call[b].confirmed
    BY <1>1 DEF CallType
  <2>3. \A level \in Level :
           AdvDate(call[b].limits[level], b.time) \in OpenDays(level, EntityId(b, level))
    BY DEF EntryInv
  <2> HIDE DEF new
  <2>4. \A level \in Level : /\ new.confirmed[level] = 0
                             /\ AdvDate(new.limits[level], b.time)
                                  \in OpenDays(level, EntityId(b, level))
    BY <1>2, <2>2, <2>3
  <2>5. \A level \in Level, id \in Id : DOMAIN books[level][id] \subseteq DOMAIN books'[level][id]
    BY <1>3
  <2> QED  BY <1>3, <2>1, <2>4, <2>5, EntryStep
<1> QED  BY <1>4, <1>5

LEMMA SkipEntries ==
    ASSUME TypeInv, EntryInv, DaysOpen, NEW b \in Bids, NEW level \in Level, Skip(b, level)
    PROVE  EntryInv'
<1> DEFINE new == [call[b] EXCEPT !.pc = After(level)]
<1>1. call[b] \in CallType /\ call[b].pc # "done"
  BY DEF TypeInv, TypeOK, Skip, Level
<1>2. /\ call' = [call EXCEPT ![b] = new]
      /\ books' = books /\ UNCHANGED <<config, stat, aborted>>
  BY DEF Skip
<1>3. new.limits = call[b].limits /\ new.confirmed = call[b].confirmed
  BY <1>1 DEF CallType
<1>4. \A l \in Level :
         /\ AdvDate(call[b].limits[l], b.time) \in OpenDays(l, EntityId(b, l))
         /\ call[b].confirmed[l] # 0 =>
              AdvDate(call[b].limits[l], b.time) \in DOMAIN books[l][EntityId(b, l)]
  BY <1>1 DEF EntryInv, ConfirmedEntry
<1> HIDE DEF new
<1> QED  BY <1>2, <1>3, <1>4, EntryStep

(* A call that settles keeps its limits or takes those of no entity.       *)
LEMMA SettledEntries ==
    ASSUME TypeInv, EntryInv, DaysOpen, NEW b \in Bids, call[b].pc # "done",
           NEW c \in CallType, c.limits = call[b].limits,
           \A level \in Level : c.confirmed[level] # 0 => call[b].confirmed[level] # 0,
           call' = [call EXCEPT ![b] = Settled(c)],
           UNCHANGED <<config, stat, aborted>>,
           \A level \in Level, id \in Id :
              DOMAIN books[level][id] \subseteq DOMAIN books'[level][id]
    PROVE  EntryInv'
<1> DEFINE new == Settled(c)
<1>1. \A l \in Level :
         /\ AdvDate(call[b].limits[l], b.time) \in OpenDays(l, EntityId(b, l))
         /\ call[b].confirmed[l] # 0 =>
              AdvDate(call[b].limits[l], b.time) \in DOMAIN books[l][EntityId(b, l)]
  BY DEF EntryInv, ConfirmedEntry
<1>2. \A l \in Level : EntityId(b, l) \in Id
  BY BidType
<1>3. call' = [call EXCEPT ![b] = new]
  OBVIOUS
<1>4. CASE \E level \in Level : c.revert[level] # 0
  <2>1. new = [c EXCEPT !.pc = "revert"]
    BY <1>4 DEF Settled
  <2>2. new.limits = call[b].limits /\ new.confirmed = c.confirmed
    BY <2>1 DEF CallType
  <2> HIDE DEF new
  <2>3. \A l \in Level : new.confirmed[l] # 0 =>
           AdvDate(new.limits[l], b.time) \in DOMAIN books'[l][EntityId(b, l)]
    BY <1>1, <1>2, <2>2
  <2>4. \A l \in Level : AdvDate(new.limits[l], b.time) \in OpenDays(l, EntityId(b, l))
    BY <1>1, <2>2
  <2> QED  BY <1>3, <2>3, <2>4, EntryStep
<1>5. CASE ~\E level \in Level : c.revert[level] # 0
  <2>1. new = [c EXCEPT !.pc = "done", !.limits = NoTraits]
    BY <1>5 DEF Settled
  <2>2. new.limits = NoTraits /\ new.pc = "done"
    BY <2>1 DEF CallType
  <2> HIDE DEF new
  <2>3. \A l \in Level : AdvDate(new.limits[l], b.time) \in OpenDays(l, EntityId(b, l))
    BY <2>2, TraitsOpen
  <2> QED  BY <1>3, <2>2, <2>3, EntryStep
<1> QED  BY <1>4, <1>5

LEMMA RateEntries ==
    ASSUME TypeInv, EntryInv, DaysOpen, NEW b \in Bids, ConfirmBidRate(b)
    PROVE  EntryInv'
<1> DEFINE confirmed == IF b.amount = 0 THEN b.imps
                        ELSE MulFloor(Share(call[b].confirmed["ccg"], b.amount), b.imps)
           c == [call[b] EXCEPT !.imps = @ - confirmed]
<1>1. call[b] \in CallType /\ call[b].pc = "rate"
  BY DEF TypeInv, TypeOK, ConfirmBidRate
<1>2. /\ call' = [call EXCEPT ![b] = Settled(c)]
      /\ books' = books /\ UNCHANGED <<config, stat, aborted>>
  BY DEF ConfirmBidRate
<1>3. c \in CallType /\ c.limits = call[b].limits /\ c.confirmed = call[b].confirmed
  <2>1. confirmed \in Int
    <3>1. b.amount \in Int /\ b.imps \in Int /\ call[b].confirmed["ccg"] \in Int
      BY <1>1, BidType, Levels DEF CallType
    <3>2. ASSUME b.amount # 0 PROVE Share(call[b].confirmed["ccg"], b.amount) \in Int
      <4>1. /\ Magnitude(call[b].confirmed["ccg"]) * Unit \in Int
            /\ Magnitude(b.amount) \in Nat \ {0}
        BY <3>1, <3>2, UnitAssumption DEF Magnitude
      <4> QED  BY <4>1 DEF Share
    <3> QED  BY <3>1, <3>2, MulFloorType
  <2> HIDE DEF confirmed
  <2> QED  BY <1>1, <2>1 DEF CallType
<1> HIDE DEF c, confirmed
<1> QED  BY <1>1, <1>2, <1>3, SettledEntries

LEMMA RevertEntries ==
    ASSUME TypeInv, CallInv, EntryInv, DaysOpen, NEW b \in Bids, RevertConfirmedBid(b)
    PROVE  EntryInv'
<1> DEFINE level == NextRevert(call[b])
           c == [call[b] EXCEPT !.revert[level] = 0,
                                !.confirmed[level] = @ - call[b].revert[level]]
<1>1. call[b] \in CallType /\ call[b].pc = "revert" /\ CallOK(b, call[b])
  BY DEF TypeInv, TypeOK, RevertConfirmedBid, CallInv
<1>2. level \in Level /\ call[b].revert[level] # 0
  <2>1. PICK l \in Level : call[b].revert[l] # 0
    BY <1>1 DEF CallOK
  <2> QED  BY <2>1, Levels DEF NextRevert
<1> HIDE DEF level
<1>3. call[b].confirmed[level] # 0
  BY <1>1, <1>2 DEF CallOK
<1>4. AdvDate(call[b].limits[level], b.time) \in DOMAIN books[level][EntityId(b, level)]
  BY <1>1, <1>2, <1>3 DEF EntryInv, ConfirmedEntry
<1>5. books[level][EntityId(b, level)] # NoDays
  BY <1>4 DEF NoDays
<1>6. /\ Book(b, level, -call[b].revert[level])
      /\ call' = [call EXCEPT ![b] = Settled(c)]
      /\ UNCHANGED <<config, stat, aborted>>
  BY <1>5 DEF RevertConfirmedBid, level
<1>7. -call[b].revert[level] \in Int
  BY <1>1, <1>2 DEF CallType
<1>8. PICK date : date = AdvDate(call[b].limits[level], b.time)
  OBVIOUS
<1>9. \A l \in Level, id \in Id : DOMAIN books[l][id] \subseteq DOMAIN books'[l][id]
  BY <1>2, <1>6, <1>7, <1>8, BookEntries
<1>10. /\ c \in CallType /\ c.limits = call[b].limits
       /\ \A l \in Level : c.confirmed[l] # 0 => call[b].confirmed[l] # 0
  <2>1. /\ [call[b].revert EXCEPT ![level] = 0] \in [Level -> Int]
        /\ [call[b].confirmed EXCEPT ![level] = @ - call[b].revert[level]] \in [Level -> Int]
    BY <1>1, <1>2 DEF CallType
  <2>2. c = [call[b] EXCEPT
               !.revert = [call[b].revert EXCEPT ![level] = 0],
               !.confirmed = [call[b].confirmed EXCEPT ![level] = @ - call[b].revert[level]]]
    BY <1>1 DEF CallType
  <2> HIDE DEF c
  <2>3. /\ c \in CallType /\ c.limits = call[b].limits
        /\ c.confirmed = [call[b].confirmed EXCEPT ![level] = @ - call[b].revert[level]]
    BY <1>1, <2>1, <2>2 DEF CallType
  <2>4. call[b].confirmed \in [Level -> Int]
    BY <1>1 DEF CallType
  <2> QED  BY <1>2, <1>3, <2>3, <2>4
<1> HIDE DEF c
<1> QED  BY <1>1, <1>6, <1>9, <1>10, SettledEntries

LEMMA ReplaceEntries ==
    ASSUME TypeInv, EntryInv, DaysOpen, ReplaceAmounts
    PROVE  EntryInv'
<1>1. /\ stat \in [source : Stats, config : ConfigType \cup {None}, level : Level]
      /\ UNCHANGED <<config, call, aborted>>
  BY DEF ReplaceAmounts, TypeInv, TypeOK
<1>2. Stats # {}
  BY <1>1
<1>3. ASSUME NEW b \in Bids, NEW level \in Level,
             call[b].pc # "done", call[b].confirmed[level] # 0
      PROVE  AdvDate(call[b].limits[level], b.time) \in DOMAIN books'[level][EntityId(b, level)]
  <2>1. PICK id \in Id : id = EntityId(b, level)
    BY BidType
  <2>2. PICK d : d = AdvDate(call[b].limits[level], b.time)
    OBVIOUS
  <2>3. d \in OpenDays(level, id) /\ d \in DOMAIN books[level][id]
    BY <1>3, <2>1, <2>2 DEF EntryInv, ConfirmedEntry
  <2>4. PICK limits : limits = IF stat.config = None THEN None ELSE stat.config[level][id]
    OBVIOUS
  <2>5. OffsetKnown(level, id, limits)
    <3>1. stat # None
      BY DEF ReplaceAmounts
    <3> QED  BY <2>4, <3>1 DEF EntryInv, OffsetsKnown, OffsetKnown
  <2>6. d \in Date /\ d >= UseSourceEndDate(limits)
    BY <1>2, <2>3, <2>5, OpenIsFresh
  <2>7. books[level][id] # NoDays
    BY <2>3 DEF NoDays
  <2>8. d \in DOMAIN books'[level][id]
    BY <2>3, <2>4, <2>6, <2>7, ReplaceKeepsFresh
  <2> QED  BY <2>1, <2>2, <2>8
<1>4. stat' # None => stat'.config = stat.config
  <2>1. stat' = CASE stat.level = "account"  -> [stat EXCEPT !.level = "campaign"]
                  [] stat.level = "campaign" -> [stat EXCEPT !.level = "ccg"]
                  [] stat.level = "ccg"      -> None
    BY DEF ReplaceAmounts
  <2>2. stat.level \in {"account", "campaign", "ccg"}
    BY <1>1 DEF Level
  <2>3. stat' \in {[stat EXCEPT !.level = "campaign"], [stat EXCEPT !.level = "ccg"], None}
    BY <2>1, <2>2
  <2> QED  BY <1>1, <2>3
<1>5. stat # None
  BY DEF ReplaceAmounts
<1>6. stat' # None => OffsetsKnown(stat'.config)
  BY <1>4, <1>5 DEF EntryInv
<1> QED  BY <1>1, <1>3, <1>6 DEF EntryInv, ConfirmedEntry

LEMMA EntryInvariant == ASSUME DaysOpen PROVE Spec => []EntryInv
<1>1. Init => EntryInv
  <2> SUFFICES ASSUME Init PROVE EntryInv
    OBVIOUS
  <2>1. ASSUME NEW b \in Bids, NEW level \in Level
        PROVE  /\ AdvDate(call[b].limits[level], b.time) \in OpenDays(level, EntityId(b, level))
               /\ call[b].confirmed[level] = 0
    BY TraitsOpen DEF Init, NewCall, Zero
  <2>2. config = None /\ stat = None /\ aborted = FALSE
    BY DEF Init
  <2> QED  BY <2>1, <2>2 DEF EntryInv, ConfirmedEntry, OffsetsKnown
<1>2. ASSUME TypeInv, CallInv, EntryInv, [Next]_vars PROVE EntryInv'
  <2>1. CASE UNCHANGED vars
    BY <1>2, <2>1 DEF vars, EntryInv, ConfirmedEntry
  <2>2. ASSUME NEW new \in Configs, Config(new) PROVE EntryInv'
    <3>1. PICK conf :
             conf = [level \in Level |-> [id \in Id |-> Adapt(level, new[level][id])]]
      OBVIOUS
    <3>2. config' = conf /\ UNCHANGED <<books, call, stat, aborted>>
      BY <2>2, <3>1 DEF Config
    <3>3. OffsetsKnown(conf)
      BY <3>1, AdaptKnown
    <3> QED  BY <1>2, <3>2, <3>3 DEF EntryInv, ConfirmedEntry
  <2>3. ASSUME NEW source \in Stats, Stat(source) PROVE EntryInv'
    <3>1. stat'.config = config /\ UNCHANGED <<config, books, call, aborted>>
      BY <2>3 DEF Stat
    <3> QED  BY <1>2, <3>1 DEF EntryInv, ConfirmedEntry
  <2>4. ASSUME NEW b \in Bids, CallNext(b) PROVE EntryInv'
    <3>1. ASSUME ConfirmAccount(b) PROVE EntryInv'
      <4>1. PICK result : Confirm(b, "account", result)
                          /\ result.ok \in BOOLEAN /\ result.confirmed \in Int
        BY <1>2, <3>1, ConfirmAccountResult
      <4>2. "account" \in Level
        BY Levels
      <4> QED  BY <1>2, <4>1, <4>2, ConfirmEntries
    <3>2. ASSUME NEW level \in {"campaign", "ccg"}, ConfirmBid(b, level) PROVE EntryInv'
      <4>1. PICK result : Confirm(b, level, result)
                          /\ result.ok \in BOOLEAN /\ result.confirmed \in Int
        BY <1>2, <3>2, ConfirmBidResult
      <4>2. level \in Level
        BY Levels
      <4> QED  BY <1>2, <4>1, <4>2, ConfirmEntries
    <3> QED  BY <1>2, <2>4, <3>1, <3>2, BeginEntries, SkipEntries, RateEntries, RevertEntries
             DEF CallNext
  <2>5. CASE ReplaceAmounts
    BY <1>2, <2>5, ReplaceEntries
  <2> QED  BY <1>2, <2>1, <2>2, <2>3, <2>4, <2>5 DEF Next
<1> QED  BY <1>1, <1>2, TypeInvariant, CallInvariant, PTL DEF Spec

(* When bids are only made for days that the statistics do not settle yet, *)
(* in every time zone the entity is known to have, the assertion of        *)
(* revert_confirmed_bid_ holds: whatever statistics and configurations     *)
(* come between a call's charge and its refusal at a later level, the      *)
(* entity it gives the amount back to is still in the books.               *)
THEOREM RevertNeverAborts == ASSUME DaysOpen PROVE Spec => []RevertFindsEntry
<1>1. EntryInv => RevertFindsEntry
  BY DEF EntryInv, RevertFindsEntry
<1> QED  BY <1>1, EntryInvariant, PTL

-----------------------------------------------------------------------------
(* What the calls have booked is what the books hold on the open days.     *)

LimitsKnown ==
    /\ OffsetsKnown(config)
    /\ stat # None => OffsetsKnown(stat.config)
    /\ \A b \in Bids, level \in Level :
          OffsetKnown(level, EntityId(b, level), call[b].limits[level])

Running(b) == call[b].pc \notin {"new", "done"}

(* A call keeps the limits it has, drops them, or takes those in force.    *)
LEMMA CallLimits ==
    ASSUME TypeInv, NEW b \in Bids, CallNext(b)
    PROVE  /\ \A c \in Bids : c # b => call'[c] = call[c]
           /\ \/ call'[b].limits = call[b].limits /\ (call'[b].pc = "done" \/ Running(b))
              \/ call'[b].limits = NoTraits /\ call'[b].pc = "done"
              \/ call'[b].limits = [level \in Level |-> Limits(b, level)]
                 /\ (b.forced \/ Resolved(b))
           /\ UNCHANGED <<config, stat>>
<1> DEFINE Only(new) == call' = [call EXCEPT ![b] = new]
           Good(new) == \/ new.limits = call[b].limits /\ (new.pc = "done" \/ Running(b))
                        \/ new.limits = NoTraits /\ new.pc = "done"
                        \/ new.limits = [level \in Level |-> Limits(b, level)]
                           /\ (b.forced \/ Resolved(b))
<1>1. call \in [Bids -> CallType] /\ call[b] \in CallType
  BY DEF TypeInv, TypeOK
<1>2. SUFFICES \/ \E new : Only(new) /\ Good(new)
               \/ call' = call /\ Running(b)
  <2>1. UNCHANGED <<config, stat>>
    BY DEF CallNext, Begin, ConfirmAccount, ConfirmBid, Confirm, Skip, ConfirmBidRate,
           RevertConfirmedBid
  <2>2. CASE call' = call /\ Running(b)
    BY <2>1, <2>2
  <2>3. CASE \E new : Only(new) /\ Good(new)
    <3>1. PICK new : Only(new) /\ Good(new)
      BY <2>3
    <3>2. call'[b] = new /\ \A c \in Bids : c # b => call'[c] = call[c]
      BY <1>1, <3>1
    <3> QED  BY <2>1, <3>1, <3>2
  <2> QED  BY <2>2, <2>3
<1>4. ASSUME NEW level \in Level, NEW result, Confirm(b, level, result)
      PROVE  \E new : Only(new) /\ Good(new)
  <2> DEFINE c == [call[b] EXCEPT !.pc = After(level), !.confirmed[level] = result.confirmed,
                                  !.ok = @ /\ result.ok]
             new == IF result.ok \/ b.forced THEN c
                    ELSE RecalcRemindAmounts(b, c, Done(level))
  <2>1. Only(new)
    BY <1>4 DEF Confirm
  <2>2. c.limits = call[b].limits /\ DOMAIN c = DOMAIN call[b]
    BY <1>1 DEF CallType
  <2>3. RecalcRemindAmounts(b, c, Done(level)).limits = c.limits
    <3> HIDE DEF c
    <3>1. "limits" \in DOMAIN c
      BY <1>1, <2>2 DEF CallType
    <3> QED  BY <3>1 DEF RecalcRemindAmounts
  <2> HIDE DEF c
  <2>4. new.limits = call[b].limits
    BY <2>2, <2>3
  <2>5. Running(b)
    BY <1>4 DEF Confirm, Running, Level
  <2> QED  BY <2>1, <2>4, <2>5
<1>5. ASSUME Begin(b) PROVE \E new : Only(new) /\ Good(new)
  <2> DEFINE limits == [level \in Level |-> Limits(b, level)]
             available == [level \in Level |-> Requested(b, level)]
             new == IF b.forced \/ Resolved(b)
                    THEN [call[b] EXCEPT !.pc = "account", !.limits = limits,
                                         !.available = available, !.imps = b.imps]
                    ELSE [call[b] EXCEPT !.pc = "done", !.ok = FALSE]
  <2>1. Only(new)
    BY <1>5 DEF Begin
  <2> HIDE DEF limits, available
  <2>2. /\ b.forced \/ Resolved(b) => new.limits = limits
        /\ ~(b.forced \/ Resolved(b)) => new.limits = call[b].limits /\ new.pc = "done"
    BY <1>1 DEF CallType
  <2> HIDE DEF new
  <2> QED  BY <2>1, <2>2 DEF limits
<1>6. ASSUME NEW level \in Level, Skip(b, level) PROVE \E new : Only(new) /\ Good(new)
  <2>1. Only([call[b] EXCEPT !.pc = After(level)])
    BY <1>6 DEF Skip
  <2>2. [call[b] EXCEPT !.pc = After(level)].limits = call[b].limits
    BY <1>1 DEF CallType
  <2>3. Running(b)
    BY <1>6 DEF Skip, Running, Level
  <2> QED  BY <2>1, <2>2, <2>3
<1>7. ASSUME NEW c, c.limits = call[b].limits, DOMAIN c = DOMAIN call[b], Only(Settled(c)),
             Running(b)
      PROVE  \E new : Only(new) /\ Good(new)
  <2>1. "limits" \in DOMAIN c /\ "pc" \in DOMAIN c
    BY <1>1, <1>7 DEF CallType
  <2>2. \/ Settled(c).limits = c.limits
        \/ Settled(c).limits = NoTraits /\ Settled(c).pc = "done"
    BY <2>1 DEF Settled
  <2> QED  BY <1>7, <2>2
<1>8. ASSUME ConfirmBidRate(b) PROVE \E new : Only(new) /\ Good(new)
  <2>1. PICK amount : Only(Settled([call[b] EXCEPT !.imps = @ - amount]))
    BY <1>8 DEF ConfirmBidRate
  <2> DEFINE c == [call[b] EXCEPT !.imps = @ - amount]
  <2>2. c.limits = call[b].limits /\ DOMAIN c = DOMAIN call[b]
    BY <1>1 DEF CallType
  <2>3. Running(b)
    BY <1>8 DEF ConfirmBidRate, Running
  <2> HIDE DEF c
  <2> QED  BY <1>7, <2>1, <2>2, <2>3 DEF c
<1>9. ASSUME RevertConfirmedBid(b), call' # call PROVE \E new : Only(new) /\ Good(new)
  <2> DEFINE level == NextRevert(call[b])
             c == [call[b] EXCEPT !.revert[level] = 0,
                                  !.confirmed[level] = @ - call[b].revert[level]]
  <2>1. Only(Settled(c))
    BY <1>9 DEF RevertConfirmedBid
  <2>2. c.limits = call[b].limits /\ DOMAIN c = DOMAIN call[b]
    BY <1>1 DEF CallType
  <2>3. Running(b)
    BY <1>9 DEF RevertConfirmedBid, Running
  <2> HIDE DEF c
  <2> QED  BY <1>7, <2>1, <2>2, <2>3
<1>10. RevertConfirmedBid(b) => Running(b)
  BY DEF RevertConfirmedBid, Running
<1> HIDE DEF Only, Good
<1>11. ASSUME ConfirmAccount(b) PROVE \E new : Only(new) /\ Good(new)
  BY <1>4, <1>11, Levels DEF ConfirmAccount
<1>12. ASSUME NEW level \in {"campaign", "ccg"}, ConfirmBid(b, level)
       PROVE  \E new : Only(new) /\ Good(new)
  BY <1>4, <1>12, Levels DEF ConfirmBid
<1> QED  BY <1>5, <1>6, <1>8, <1>9, <1>11, <1>12, <1>10 DEF CallNext

LEMMA LimitsKnownStep ==
    ASSUME TypeInv, LimitsKnown, [Next]_vars
    PROVE  LimitsKnown'
<1>1. \A b \in Bids, level \in Level : EntityId(b, level) \in Id
  BY BidType
<1>2. CASE UNCHANGED vars
  BY <1>2 DEF vars, LimitsKnown
<1>3. ASSUME NEW new \in Configs, Config(new) PROVE LimitsKnown'
  <2>1. PICK conf : conf = [level \in Level |-> [id \in Id |-> Adapt(level, new[level][id])]]
    OBVIOUS
  <2>2. config' = conf /\ UNCHANGED <<call, stat>>
    BY <1>3, <2>1 DEF Config
  <2>3. OffsetsKnown(conf)
    BY <2>1, AdaptKnown
  <2> QED  BY <2>2, <2>3 DEF LimitsKnown
<1>4. ASSUME NEW source \in Stats, Stat(source) PROVE LimitsKnown'
  <2>1. stat'.config = config /\ UNCHANGED <<config, call>>
    BY <1>4 DEF Stat
  <2> QED  BY <2>1 DEF LimitsKnown
<1>5. ASSUME NEW b \in Bids, CallNext(b) PROVE LimitsKnown'
  <2>1. ASSUME NEW level \in Level
        PROVE  OffsetKnown(level, EntityId(b, level), call'[b].limits[level])
    <3>1. OffsetKnown(level, EntityId(b, level), call[b].limits[level])
      BY DEF LimitsKnown
    <3>2. OffsetKnown(level, EntityId(b, level), NoTraits[level])
      <4>1. NoTraits[level] = Traits(level)
        BY DEF NoTraits
      <4> QED  BY <1>1, <4>1, TraitsKnown DEF OffsetKnown
    <3>3. OffsetKnown(level, EntityId(b, level), Limits(b, level))
      <4>1. CASE config # None /\ config[level][EntityId(b, level)] # None
        BY <1>1, <4>1 DEF Limits, LimitsKnown, OffsetsKnown
      <4>2. CASE ~(config # None /\ config[level][EntityId(b, level)] # None)
        BY <1>1, <4>2, TraitsKnown DEF Limits, OffsetKnown
      <4> QED  BY <4>1, <4>2
    <3> QED  BY <1>5, <3>1, <3>2, <3>3, CallLimits
  <2>2. UNCHANGED <<config, stat>> /\ \A c \in Bids : c # b => call'[c] = call[c]
    BY <1>5, CallLimits
  <2> QED  BY <2>1, <2>2 DEF LimitsKnown
<1>6. CASE ReplaceAmounts
  <2>1. stat \in [source : Stats, config : ConfigType \cup {None}, level : Level]
        /\ stat # None /\ UNCHANGED <<config, call>>
    BY <1>6 DEF ReplaceAmounts, TypeInv, TypeOK
  <2>2. stat' \in {[stat EXCEPT !.level = "campaign"], [stat EXCEPT !.level = "ccg"], None}
    <3>1. stat.level \in {"account", "campaign", "ccg"}
      BY <2>1 DEF Level
    <3> QED  BY <1>6, <3>1 DEF ReplaceAmounts
  <2>3. stat' # None => stat'.config = stat.config
    BY <2>1, <2>2
  <2> QED  BY <2>1, <2>3 DEF LimitsKnown
<1> QED  BY <1>2, <1>3, <1>4, <1>5, <1>6 DEF Next

LEMMA LimitsInvariant == Spec => []LimitsKnown
<1>1. Init => LimitsKnown
  <2> SUFFICES ASSUME Init PROVE LimitsKnown
    OBVIOUS
  <2>1. config = None /\ stat = None /\ \A b \in Bids : call[b].limits = NoTraits
    BY DEF Init, NewCall
  <2>2. ASSUME NEW b \in Bids, NEW level \in Level
        PROVE  OffsetKnown(level, EntityId(b, level), NoTraits[level])
    <3>1. NoTraits[level] = Traits(level) /\ EntityId(b, level) \in Id
      BY BidType DEF NoTraits
    <3> QED  BY <3>1, TraitsKnown DEF OffsetKnown
  <2> QED  BY <2>1, <2>2 DEF LimitsKnown, OffsetsKnown
<1>2. TypeInv /\ LimitsKnown /\ [Next]_vars => LimitsKnown'
  BY LimitsKnownStep
<1> QED  BY <1>1, <1>2, TypeInvariant, PTL DEF Spec

Held(level, id) == [d \in OpenDays(level, id) |-> AmountOf(books[level][id], d)]

Charged(level, id) ==
    [b \in Bids |-> IF EntityId(b, level) = id THEN booked[b][level] ELSE 0]

AddsUp(level, id) ==
    SumOver(Held(level, id), OpenDays(level, id)) = SumOver(Charged(level, id), Bids)

(* An amount is booked on the day and the entity of its bid, nowhere else. *)
LEMMA BookElsewhere ==
    ASSUME TypeInv, NEW b \in Bids, NEW level \in Level, NEW amount \in Int,
           Book(b, level, amount), NEW l \in Level, NEW id \in Id, NEW d \in Date,
           <<l, id, d>> # <<level, EntityId(b, level), AdvDate(call[b].limits[level], b.time)>>
    PROVE  AmountOf(books'[l][id], d) = AmountOf(books[l][id], d)
<1> DEFINE date == AdvDate(call[b].limits[level], b.time)
           new == AddAmount(books[level][EntityId(b, level)], date, amount)
<1>1. EntityId(b, level) \in Id /\ books = [k \in Level |-> [i \in Id |-> books[k][i]]]
  BY BidType DEF TypeInv, TypeOK, AreBooks
<1>2. IsHolder(books[level][EntityId(b, level)]) /\ date \in Date
  BY <1>1 DEF TypeInv, TypeOK, AreBooks, CallDates
<1>3. CASE amount = 0
  BY <1>3 DEF Book
<1>4. CASE amount # 0
  <2>1. books' = [books EXCEPT ![level][EntityId(b, level)] = new]
    BY <1>4 DEF Book
  <2>2. d # date => AmountOf(new, d) = AmountOf(books[level][EntityId(b, level)], d)
    BY <1>2, AddAmountAdds
  <2> HIDE DEF new
  <2>3. books'[l][id] = IF l = level /\ id = EntityId(b, level) THEN new ELSE books[l][id]
    BY <1>1, <2>1
  <2> QED  BY <2>2, <2>3
<1> QED  BY <1>3, <1>4

LEMMA HeldType ==
    ASSUME TypeInv, NEW level \in Level, NEW id \in Id
    PROVE  /\ IsFiniteSet(OpenDays(level, id)) /\ OpenDays(level, id) \in SUBSET Date
           /\ \A d \in OpenDays(level, id) :
                 Held(level, id)[d] = AmountOf(books[level][id], d) /\ Held(level, id)[d] \in Int
           /\ \A b \in Bids :
                 /\ Charged(level, id)[b] = IF EntityId(b, level) = id THEN booked[b][level] ELSE 0
                 /\ Charged(level, id)[b] \in Int
<1>1. OpenDays(level, id) \in SUBSET Date
  BY DEF OpenDays
<1>2. IsHolder(books[level][id]) /\ booked \in [Bids -> [Level -> Int]]
  BY DEF TypeInv, TypeOK, AreBooks
<1>3. \A d : AmountOf(books[level][id], d) \in Int
  BY <1>2, AmountsType
<1> QED  BY <1>1, <1>2, <1>3, DaysFinite DEF Held, Charged

(* Booking adds the same amount on both sides, or to neither of them.      *)
LEMMA BookAddsUp ==
    ASSUME TypeInv, TypeInv', NEW b \in Bids, NEW l \in Level, NEW amount \in Int,
           Book(b, l, amount), NEW level \in Level, NEW id \in Id, AddsUp(level, id),
           l = level /\ EntityId(b, level) = id =>
              AdvDate(call[b].limits[level], b.time) \in OpenDays(level, id)
    PROVE  AddsUp(level, id)'
<1> DEFINE open == OpenDays(level, id)
           date == AdvDate(call[b].limits[l], b.time)
<1>1. PICK held : held = Held(level, id)
  OBVIOUS
<1>2. PICK held2 : held2 = Held(level, id)'
  OBVIOUS
<1>3. PICK charged : charged = Charged(level, id)
  OBVIOUS
<1>4. PICK charged2 : charged2 = Charged(level, id)'
  OBVIOUS
<1>5. IsFiniteSet(open) /\ open \in SUBSET Date /\ IsFiniteSet(Bids)
  BY HeldType, BidAssumption
<1>6. \A d \in open : held[d] = AmountOf(books[level][id], d) /\ held[d] \in Int
  BY <1>1, HeldType
<1>7. \A c \in Bids : /\ charged[c] = IF EntityId(c, level) = id THEN booked[c][level] ELSE 0
                      /\ charged[c] \in Int
  BY <1>3, HeldType
<1>8. \A d \in open : held2[d] = AmountOf(books'[level][id], d)
  BY <1>2 DEF Held
<1>9. \A c \in Bids : charged2[c] = IF EntityId(c, level) = id THEN booked'[c][level] ELSE 0
  BY <1>4 DEF Charged
<1>10. SumOver(held, open) = SumOver(charged, Bids)
  BY <1>1, <1>3 DEF AddsUp
<1>11. SUFFICES SumOver(held2, open) = SumOver(charged2, Bids)
  BY <1>2, <1>4 DEF AddsUp
<1> HIDE DEF open
<1>12. \A c \in Bids, k \in Level : <<c, k>> # <<b, l>> => booked'[c][k] = booked[c][k]
  BY BookResult
<1>13. CASE l = level /\ EntityId(b, level) = id
  <2>1. date \in open
    BY <1>13 DEF open
  <2>2. held2[date] = held[date] + amount
    <3>1. AmountOf(books'[level][id], date) = AmountOf(books[level][id], date) + amount
      BY <1>13, BookResult
    <3> QED  BY <1>6, <1>8, <2>1, <3>1
  <2>3. \A d \in open \ {date} : held2[d] = held[d]
    <3> TAKE d \in open \ {date}
    <3>1. <<level, id, d>> # <<l, EntityId(b, l), date>> /\ d \in Date
      BY <1>5
    <3>2. AmountOf(books'[level][id], d) = AmountOf(books[level][id], d)
      BY <3>1, BookElsewhere
    <3> QED  BY <1>6, <1>8, <3>2
  <2> HIDE DEF date
  <2>4. held[date] \in Int /\ held2[date] \in Int
    BY <1>6, <2>1, <2>2
  <2>5. SumOver(held2, open) = SumOver(held, open) - held[date] + held2[date]
    BY <1>5, <1>6, <2>1, <2>3, <2>4, SumChange
  <2>6. charged2[b] = charged[b] + amount /\ charged[b] \in Int /\ charged2[b] \in Int
    <3>1. booked'[b][l] = booked[b][l] + amount
      BY BookResult
    <3> QED  BY <1>7, <1>9, <1>13, <3>1
  <2>7. \A c \in Bids \ {b} : charged2[c] = charged[c]
    BY <1>7, <1>9, <1>12
  <2>8. SumOver(charged2, Bids) = SumOver(charged, Bids) - charged[b] + charged2[b]
    BY <1>5, <1>7, <2>6, <2>7, SumChange
  <2>9. SumOver(held, open) \in Int
    BY <1>5, <1>6, SumType
  <2> QED  BY <1>10, <2>2, <2>4, <2>5, <2>6, <2>8, <2>9
<1>14. CASE ~(l = level /\ EntityId(b, level) = id)
  <2>1. \A d \in open : held2[d] = held[d]
    <3> TAKE d \in open
    <3>1. <<level, id, d>> # <<l, EntityId(b, l), date>> /\ d \in Date
      BY <1>5, <1>14
    <3>2. AmountOf(books'[level][id], d) = AmountOf(books[level][id], d)
      BY <3>1, BookElsewhere
    <3> QED  BY <1>6, <1>8, <3>2
  <2>2. \A c \in Bids : charged2[c] = charged[c]
    BY <1>7, <1>9, <1>12, <1>14
  <2>3. SumOver(held2, open) = SumOver(held, open) /\ SumOver(charged2, Bids) = SumOver(charged, Bids)
    BY <1>5, <2>1, <2>2, SumSame
  <2> QED  BY <1>10, <2>3
<1> QED  BY <1>13, <1>14

(* Whatever limits a call works with, it books on an open day.             *)
LEMMA BookedOpen ==
    ASSUME TypeInv, LimitsKnown, NEW b \in Bids, NEW level \in Level, NEW id \in Id,
           EntityId(b, level) = id, BidsStayOpen(level, id)
    PROVE  AdvDate(call[b].limits[level], b.time) \in OpenDays(level, id)
<1>1. PICK limits : limits = call[b].limits[level]
  OBVIOUS
<1>2. OffsetKnown(level, id, limits)
  BY <1>1 DEF LimitsKnown
<1>3. limits # None
  <2>1. call[b].limits \in LimitsType
    BY DEF TypeInv, TypeOK, CallType
  <2>2. limits \in AnyLimits
    BY <1>1, <2>1 DEF LimitsType
  <2> QED  BY <2>2, NoneAssumption DEF AnyLimits
<1>4. PICK known \in KnownLimits(level, id) : limits.time_offset = known.time_offset
  BY <1>2, <1>3 DEF OffsetKnown
<1>5. AdvDate(known, b.time) \in OpenDays(level, id)
  BY DEF BidsStayOpen
<1> QED  BY <1>1, <1>4, <1>5 DEF AdvDate

LEMMA OffsetEntityLater ==
    ASSUME NEW local \in SUBSET Id, NEW id \in Id
    PROVE  OffsetEntity(local, id) \in Id /\ OffsetEntity(local, id) >= id
<1> DEFINE later == {l \in local : l >= id}
<1>1. id \in Nat /\ later \in SUBSET Nat
  BY IdAssumption
<1>2. CASE later = {}
  <2>1. OffsetEntity(local, id) = id
    BY <1>2 DEF OffsetEntity
  <2> QED  BY <1>1, <2>1
<1>3. CASE later # {}
  <2>1. First(later) \in later
    BY <1>1, <1>3, FirstResult
  <2>2. OffsetEntity(local, id) = First(later)
    BY <1>3 DEF OffsetEntity
  <2> QED  BY <2>1, <2>2
<1> QED  BY <1>2, <1>3

(* What a statistics step makes of an entity: it is settled up to the end  *)
(* date of itself or, when it is not there, of a later one.                *)
LEMMA ReplaceAt ==
    ASSUME TypeInv, LimitsKnown, ReplaceAmounts, NEW level \in Level, NEW id \in Id
    PROVE  /\ level # stat.level => books'[level][id] = books[level][id]
           /\ level = stat.level =>
                 \E other \in Id, limits \in LimitsOf(level) \cup {None} :
                    /\ other >= id
                    /\ books[level][id] # NoDays => other = id
                    /\ OffsetKnown(level, other, limits)
                    /\ books'[level][id] =
                          ReplaceAmount(books[level][id], stat.source[level][id],
                                        UseSourceEndDate(limits))
           /\ stat.source \in Stats
           /\ stat.source[level][id] = NoSource \/ IsSource(stat.source[level][id])
<1> DEFINE local == {i \in Id : books[stat.level][i] # NoDays}
           lim(i) == IF stat.config = None THEN None
                     ELSE stat.config[stat.level][OffsetEntity(local, i)]
           new(i) == ReplaceAmount(books[stat.level][i], stat.source[stat.level][i],
                                   UseSourceEndDate(lim(i)))
<1>1. /\ stat \in [source : Stats, config : ConfigType \cup {None}, level : Level]
      /\ stat # None
      /\ books = [l \in Level |-> [i \in Id |-> books[l][i]]]
  BY DEF ReplaceAmounts, TypeInv, TypeOK, AreBooks
<1>2. stat.level \in Level /\ stat.source \in Stats /\ stat.config \in ConfigType \cup {None}
  BY <1>1
<1>3. books' = [books EXCEPT ![stat.level] = [i \in Id |-> new(i)]]
  BY <1>1 DEF ReplaceAmounts
<1>4. PICK other \in Id : other = OffsetEntity(local, id) /\ other >= id
  BY OffsetEntityLater
<1>5. books[stat.level][id] # NoDays => other = id
  <2> SUFFICES ASSUME books[stat.level][id] # NoDays PROVE other = id
    OBVIOUS
  <2>1. local \in SUBSET Id /\ id \in local
    OBVIOUS
  <2> HIDE DEF local
  <2> QED  BY <1>4, <2>1, LocalOffset
<1>6. PICK limits : limits = IF stat.config = None THEN None ELSE stat.config[stat.level][other]
  OBVIOUS
<1>7. new(id) = ReplaceAmount(books[stat.level][id], stat.source[stat.level][id],
                              UseSourceEndDate(limits))
  BY <1>4, <1>6
<1> HIDE DEF new
<1>8. books'[level][id] = IF level = stat.level THEN new(id) ELSE books[level][id]
  BY <1>1, <1>2, <1>3
<1>9. OffsetKnown(stat.level, other, limits)
  BY <1>1, <1>2, <1>6 DEF LimitsKnown, OffsetsKnown, OffsetKnown
<1>10. limits \in LimitsOf(stat.level) \cup {None}
  BY <1>2, <1>6 DEF ConfigType
<1>11. stat.source[level][id] = NoSource \/ IsSource(stat.source[level][id])
  BY <1>2, StatAssumption DEF IsSource
<1> QED  BY <1>2, <1>4, <1>5, <1>7, <1>8, <1>9, <1>10, <1>11

LEMMA ReplaceKeepsOpen ==
    ASSUME TypeInv, LimitsKnown, ZonesAgree, ReplaceAmounts,
           NEW level \in Level, NEW id \in Id, NEW d \in OpenDays(level, id)
    PROVE  AmountOf(books'[level][id], d) = AmountOf(books[level][id], d)
<1>1. CASE level # stat.level
  BY <1>1, ReplaceAt
<1>2. CASE level = stat.level
  <2> DEFINE source == stat.source[level][id]
             days == books[level][id]
  <2>1. PICK other \in Id, limits \in LimitsOf(level) \cup {None} :
           /\ other >= id
           /\ OffsetKnown(level, other, limits)
           /\ books'[level][id] = ReplaceAmount(days, source, UseSourceEndDate(limits))
    BY <1>2, ReplaceAt
  <2>2. d \in OpenDays(level, other) /\ Stats # {}
    BY <2>1, ReplaceAt DEF ZonesAgree
  <2>3. d \in Date /\ d >= UseSourceEndDate(limits)
    BY <2>1, <2>2, OpenIsFresh
  <2> DEFINE end == UseSourceEndDate(limits)
  <2>4. end \in Int
    BY EndDateType
  <2>5. source = NoSource \/ IsSource(source)
    BY ReplaceAt
  <2>6. IsHolder(days)
    BY DEF TypeInv, TypeOK, AreBooks
  <2>7. books'[level][id] = ReplaceAmount(days, source, end)
    BY <2>1
  <2> HIDE DEF end, source, days
  <2>8. AmountOf(ReplaceAmount(days, source, end), d) = AmountOf(days, d)
    BY <2>3, <2>4, <2>5, <2>6, ReplaceKeepsFreshDays DEF end
  <2> QED  BY <2>7, <2>8 DEF days
<1> QED  BY <1>1, <1>2

(* What a step of a call books: one amount, or nothing.                    *)
LEMMA CallBooks ==
    ASSUME TypeInv, NEW b \in Bids, CallNext(b)
    PROVE  \/ UNCHANGED <<books, booked>>
           \/ \E level \in Level, amount \in Int : Book(b, level, amount)
<1>1. ASSUME ConfirmAccount(b) PROVE \E level \in Level, amount \in Int : Book(b, level, amount)
  <2>1. PICK result : Confirm(b, "account", result) /\ result.confirmed \in Int
    BY <1>1, ConfirmAccountResult
  <2>2. Book(b, "account", result.confirmed) /\ "account" \in Level
    BY <2>1, Levels DEF Confirm
  <2> QED  BY <2>1, <2>2
<1>2. ASSUME NEW level \in {"campaign", "ccg"}, ConfirmBid(b, level)
      PROVE  \E l \in Level, amount \in Int : Book(b, l, amount)
  <2>1. PICK result : Confirm(b, level, result) /\ result.confirmed \in Int
    BY <1>2, ConfirmBidResult
  <2>2. Book(b, level, result.confirmed) /\ level \in Level
    BY <2>1, Levels DEF Confirm
  <2> QED  BY <2>1, <2>2
<1>3. ASSUME RevertConfirmedBid(b)
      PROVE  \/ UNCHANGED <<books, booked>>
             \/ \E level \in Level, amount \in Int : Book(b, level, amount)
  <2> DEFINE level == NextRevert(call[b])
  <2>1. level \in Level
    BY Levels DEF NextRevert
  <2>2. call[b] \in CallType
    BY DEF TypeInv, TypeOK
  <2>3. -call[b].revert[level] \in Int
    BY <2>1, <2>2 DEF CallType
  <2>4. UNCHANGED <<books, booked>> \/ Book(b, level, -call[b].revert[level])
    BY <1>3 DEF RevertConfirmedBid
  <2> HIDE DEF level
  <2> QED  BY <2>1, <2>3, <2>4
<1>4. Begin(b) \/ (\E level \in Level : Skip(b, level)) \/ ConfirmBidRate(b)
        => UNCHANGED <<books, booked>>
  BY DEF Begin, Skip, ConfirmBidRate
<1> QED  BY <1>1, <1>2, <1>3, <1>4 DEF CallNext

LEMMA StepAddsUp ==
    ASSUME TypeInv, TypeInv', LimitsKnown, ZonesAgree, [Next]_vars,
           NEW level \in Level, NEW id \in Id, BidsStayOpen(level, id), AddsUp(level, id)
    PROVE  AddsUp(level, id)'
<1>1. CASE UNCHANGED <<books, booked>>
  BY <1>1 DEF AddsUp, Held, Charged
<1>2. ASSUME NEW b \in Bids, CallNext(b) PROVE AddsUp(level, id)'
  <2>1. ASSUME NEW l \in Level, NEW amount \in Int, Book(b, l, amount)
        PROVE  AddsUp(level, id)'
    <3>1. l = level /\ EntityId(b, level) = id =>
             AdvDate(call[b].limits[level], b.time) \in OpenDays(level, id)
      BY BookedOpen
    <3> QED  BY <2>1, <3>1, BookAddsUp
  <2> QED  BY <1>1, <1>2, <2>1, CallBooks
<1>3. CASE ReplaceAmounts
  <2>1. booked' = booked
    BY <1>3 DEF ReplaceAmounts
  <2>2. \A d \in OpenDays(level, id) :
           AmountOf(books'[level][id], d) = AmountOf(books[level][id], d)
    BY <1>3, ReplaceKeepsOpen
  <2>3. Held(level, id)' = Held(level, id) /\ Charged(level, id)' = Charged(level, id)
    BY <2>1, <2>2 DEF Held, Charged
  <2> QED  BY <2>3 DEF AddsUp
<1>4. UNCHANGED vars \/ (\E new \in Configs : Config(new))
        \/ (\E source \in Stats : Stat(source)) => UNCHANGED <<books, booked>>
  BY DEF vars, Config, Stat
<1> QED  BY <1>1, <1>2, <1>3, <1>4 DEF Next

AddsUpInv ==
    \A level \in Level, id \in Id : BidsStayOpen(level, id) => AddsUp(level, id)

LEMMA AddsUpInvariant == ASSUME ZonesAgree PROVE Spec => []AddsUpInv
<1>1. Init => AddsUpInv
  <2> SUFFICES ASSUME Init, NEW level \in Level, NEW id \in Id PROVE AddsUp(level, id)
    BY DEF AddsUpInv
  <2>1. books[level][id] = NoDays /\ \A b \in Bids : booked[b][level] = 0
    BY DEF Init, Zero
  <2>2. \A d : AmountOf(NoDays, d) = 0
    BY DEF AmountOf, NoDays
  <2>3. PICK held : held = Held(level, id)
    OBVIOUS
  <2>4. PICK charged : charged = Charged(level, id)
    OBVIOUS
  <2>5. \A d \in OpenDays(level, id) : held[d] = 0
    BY <2>1, <2>2, <2>3 DEF Held
  <2>6. \A b \in Bids : charged[b] = 0
    BY <2>1, <2>4 DEF Charged
  <2>7. IsFiniteSet(OpenDays(level, id)) /\ IsFiniteSet(Bids)
    <3>1. OpenDays(level, id) \in SUBSET Date
      BY DEF OpenDays
    <3> QED  BY <3>1, DaysFinite, BidAssumption
  <2>8. SumOver(held, OpenDays(level, id)) = 0 /\ SumOver(charged, Bids) = 0
    BY <2>5, <2>6, <2>7, SumOfZeros
  <2> QED  BY <2>3, <2>4, <2>8 DEF AddsUp
<1>2. TypeInv /\ TypeInv' /\ LimitsKnown /\ AddsUpInv /\ [Next]_vars => AddsUpInv'
  <2> SUFFICES ASSUME TypeInv, TypeInv', LimitsKnown, AddsUpInv, [Next]_vars,
                      NEW level \in Level, NEW id \in Id, BidsStayOpen(level, id)
               PROVE  AddsUp(level, id)'
    BY DEF AddsUpInv
  <2> QED  BY StepAddsUp DEF AddsUpInv
<1> QED  BY <1>1, <1>2, TypeInvariant, LimitsInvariant, PTL DEF Spec

(* When all calls are answered, what the callers were told was not charged *)
(* and what the books hold on the days no statistics settle add up to what *)
(* was asked for: whatever was confirmed, cut and given back at each level *)
(* and however calls, configurations and statistics came in between.       *)
THEOREM AnswersAddUp == ASSUME ZonesAgree PROVE Spec => []RepliesAddUp
<1>1. ASSUME TypeInv, CallInv, AddsUpInv PROVE RepliesAddUp
  <2> SUFFICES ASSUME \A b \in Bids : call[b].pc \in {"new", "done"},
                      NEW level \in {"account", "campaign"}, NEW id \in Id,
                      BidsStayOpen(level, id),
                      NEW charged,
                      charged = [b \in Bids |->
                          IF call[b].pc # "done" \/ EntityId(b, level) # id THEN 0
                          ELSE IF level = "account" THEN b.account_amount - AccountRemainder(b)
                          ELSE b.amount - Remainder(b)]
               PROVE  SumOver(Held(level, id), OpenDays(level, id)) = SumOver(charged, Bids)
    BY DEF RepliesAddUp, Held
  <2>1. level \in Level
    BY Levels
  <2>2. PICK all : all = Charged(level, id)
    OBVIOUS
  <2>3. ASSUME NEW b \in Bids PROVE charged[b] = all[b]
    <3>1. call[b] \in CallType /\ booked[b] = call[b].confirmed /\ CallOK(b, call[b])
      BY <1>1 DEF TypeInv, TypeOK, CallInv
    <3>2. call[b].confirmed[level] \in Int
      BY <2>1, <3>1 DEF CallType
    <3>3. all[b] = IF EntityId(b, level) = id THEN call[b].confirmed[level] ELSE 0
      BY <2>2, <3>1 DEF Charged
    <3>4. call[b].pc = "new" => call[b].confirmed[level] = 0
      BY <2>1, <3>1 DEF CallOK, Ahead
    <3>5. /\ level = "account" => b.account_amount - AccountRemainder(b) = call[b].confirmed[level]
          /\ level = "campaign" => b.amount - Remainder(b) = call[b].confirmed[level]
      BY <3>2, BidType DEF AccountRemainder, Remainder
    <3> QED  BY <3>3, <3>4, <3>5
  <2>4. SumOver(charged, Bids) = SumOver(all, Bids)
    <3>1. IsFiniteSet(Bids)
      BY BidAssumption
    <3> QED  BY <2>3, <3>1, SumSame
  <2>5. AddsUp(level, id)
    BY <1>1, <2>1 DEF AddsUpInv
  <2> QED  BY <2>2, <2>4, <2>5 DEF AddsUp
<1> QED  BY <1>1, TypeInvariant, CallInvariant, AddsUpInvariant, PTL

-----------------------------------------------------------------------------
(* An entity the statistics leave alone keeps to its budget.               *)

Charges(b) == ~b.forced /\ b.account_amount >= 0 /\ b.amount >= 0

(* A call that charges gives back no more than it has confirmed.           *)
Positive(c) ==
    \A level \in Level :
        c.available[level] >= 0 /\ c.revert[level] >= 0 /\ c.revert[level] <= c.confirmed[level]

PositiveInv == \A b \in Bids : Charges(b) => Positive(call[b])

LEMMA RequestedPositive ==
    ASSUME NEW b \in Bids, Charges(b), NEW level \in Level
    PROVE  Requested(b, level) \in Nat
BY BidType DEF Charges, Requested

LEMMA FloorNotNegative ==
    ASSUME NEW share \in Nat, NEW x \in Nat
    PROVE  MulFloor(share, x) \in Nat
<1>1. MulFloor(share, x) = (share * x) \div Unit
  BY DEF MulFloor, Signed, Magnitude
<1>2. share * x \in Nat
  OBVIOUS
<1> QED  BY <1>1, <1>2, UnitAssumption

LEMMA AdvancePositive ==
    ASSUME TypeInv, NEW b \in Bids, Charges(b), NEW c \in CallType, NEW level \in Level,
           c.pc = level, NEW ok \in BOOLEAN, NEW amount \in Nat,
           NEW new \in CallType, new = Advance(b, c, level, ok, amount),
           CallOK(b, c), Positive(c)
    PROVE  Positive(new)
<1>1. /\ new.confirmed = [c.confirmed EXCEPT ![level] = amount]
      /\ ok \/ b.forced => new.revert = c.revert /\ new.available = c.available
      /\ ~(ok \/ b.forced) => \E share \in Nat : Shared(b, c, new, Done(level), share)
  BY AdvanceFields
<1>2. c.revert[level] = 0
  BY Levels DEF CallOK
<1>3. \A l \in Level :
         /\ c.available[l] \in Int /\ c.revert[l] \in Int /\ c.confirmed[l] \in Int
         /\ c.available[l] >= 0 /\ c.revert[l] >= 0 /\ c.revert[l] <= c.confirmed[l]
  BY DEF CallType, Positive
<1>4. \A l \in Level :
         /\ new.confirmed[l] \in Nat
         /\ c.revert[l] <= new.confirmed[l]
  BY <1>1, <1>2, <1>3 DEF CallType
<1>5. CASE ok \/ b.forced
  BY <1>1, <1>3, <1>4, <1>5 DEF Positive
<1>6. CASE ~(ok \/ b.forced)
  <2>1. PICK share \in Nat : Shared(b, c, new, Done(level), share)
    BY <1>1, <1>6
  <2> SUFFICES ASSUME NEW l \in Level
               PROVE  /\ new.available[l] >= 0
                      /\ new.revert[l] >= 0 /\ new.revert[l] <= new.confirmed[l]
    BY DEF Positive
  <2>2. Requested(b, l) \in Nat
    BY RequestedPositive
  <2>3. MulFloor(share, Requested(b, l)) \in Nat
    BY <2>2, FloorNotNegative
  <2>4. CASE l \in Done(level)
    <3>1. new.available[l] = 0 /\ MulFloor(share, Requested(b, l)) <= new.confirmed[l]
      BY <1>4, <2>1, <2>2, <2>4 DEF Shared
    <3>2. CASE MulFloor(share, Requested(b, l)) = new.confirmed[l]
      <4>1. new.revert[l] = c.revert[l]
        BY <2>1, <2>4, <3>2 DEF Shared
      <4> QED  BY <1>3, <1>4, <3>1, <4>1
    <3>3. CASE MulFloor(share, Requested(b, l)) # new.confirmed[l]
      <4>1. new.revert[l] = new.confirmed[l] - MulFloor(share, Requested(b, l))
        BY <2>1, <2>4, <3>3 DEF Shared
      <4> QED  BY <1>4, <2>3, <3>1, <4>1
    <3> QED  BY <3>2, <3>3
  <2>5. CASE l \notin Done(level)
    <3>1. new.available[l] = MulFloor(share, Requested(b, l)) /\ new.revert[l] = c.revert[l]
      BY <2>1, <2>5 DEF Shared
    <3> QED  BY <1>3, <1>4, <2>3, <3>1
  <2> QED  BY <2>4, <2>5
<1> QED  BY <1>5, <1>6

(* What a step of a call that charges books keeps to the limits it works   *)
(* with, and what it books above zero was available to it.                 *)
Fits(b, level, amount) ==
    LET limits == call[b].limits[level]
        days == books[level][EntityId(b, level)]
    IN  amount > 0 =>
          /\ limits.budget # None => TotalAmount(days) + amount <= limits.budget
          /\ level # "account" /\ limits.delivery_pacing = "F" /\ limits.daily_budget # None =>
                AmountOf(days, AdvDate(limits, b.time)) + amount <= limits.daily_budget

LEMMA PositiveConfirm ==
    ASSUME TypeInv, TypeInv', CallInv, NEW b \in Bids, Charges(b), Positive(call[b]),
           NEW level \in Level, NEW result, result.ok \in BOOLEAN, result.confirmed \in Int,
           Confirm(b, level, result),
           call[b].available[level] > 0 => result.confirmed >= 0
    PROVE  Positive(call'[b])
<1>1. PICK ok \in BOOLEAN : ok = result.ok
  OBVIOUS
<1>2. PICK amount \in Int : amount = result.confirmed
  OBVIOUS
<1>3. PICK c : c = call[b]
  OBVIOUS
<1>4. c \in CallType /\ c.pc = level /\ c.available[level] # 0 /\ CallOK(b, c) /\ Positive(c)
  BY <1>3 DEF TypeInv, TypeOK, Confirm, CallInv
<1>5. amount \in Nat
  <2>1. c.available[level] \in Int /\ c.available[level] >= 0
    BY <1>4 DEF CallType, Positive
  <2> QED  BY <1>2, <1>3, <1>4, <2>1
<1>6. PICK new : new = Advance(b, c, level, ok, amount)
  OBVIOUS
<1>7. call' = [call EXCEPT ![b] = new]
  BY <1>1, <1>2, <1>3, <1>6 DEF Confirm, Advance
<1>8. call'[b] = new /\ new \in CallType
  <2>1. call \in [Bids -> CallType] /\ call' \in [Bids -> CallType]
    BY DEF TypeInv, TypeOK
  <2> QED  BY <1>7, <2>1
<1> QED  BY <1>4, <1>5, <1>6, <1>8, AdvancePositive

LEMMA PositiveSettled ==
    ASSUME NEW c \in CallType, Positive(c)
    PROVE  Positive(Settled(c))
<1>1. Settled(c).available = c.available /\ Settled(c).revert = c.revert
      /\ Settled(c).confirmed = c.confirmed
  BY DEF Settled, CallType
<1> QED  BY <1>1 DEF Positive

LEMMA PositiveCall ==
    ASSUME TypeInv, TypeInv', CallInv, NEW b \in Bids, CallNext(b), Charges(b), Positive(call[b])
    PROVE  Positive(call'[b])
<1>1. call \in [Bids -> CallType] /\ call[b] \in CallType
  BY DEF TypeInv, TypeOK
<1>2. ASSUME Begin(b) PROVE Positive(call'[b])
  <2> DEFINE limits == [level \in Level |-> Limits(b, level)]
             available == [level \in Level |-> Requested(b, level)]
             new == IF b.forced \/ Resolved(b)
                    THEN [call[b] EXCEPT !.pc = "account", !.limits = limits,
                                         !.available = available, !.imps = b.imps]
                    ELSE [call[b] EXCEPT !.pc = "done", !.ok = FALSE]
  <2>1. call'[b] = new
    BY <1>1, <1>2 DEF Begin
  <2>2. \A level \in Level : available[level] \in Nat
    BY RequestedPositive
  <2> HIDE DEF limits, available
  <2>3. /\ new.available = available \/ new.available = call[b].available
        /\ new.revert = call[b].revert /\ new.confirmed = call[b].confirmed
    BY <1>1 DEF CallType
  <2> HIDE DEF new
  <2> QED  BY <2>1, <2>2, <2>3 DEF Positive
<1>3. ASSUME ConfirmAccount(b) PROVE Positive(call'[b])
  <2>1. PICK result :
           /\ Confirm(b, "account", result) /\ result.ok \in BOOLEAN /\ result.confirmed \in Int
           /\ call[b].available["account"] > 0 => result.confirmed >= 0
    BY <1>3, ConfirmAccountResult
  <2> QED  BY <2>1, PositiveConfirm, Levels
<1>4. ASSUME NEW level \in {"campaign", "ccg"}, ConfirmBid(b, level) PROVE Positive(call'[b])
  <2>1. PICK result :
           /\ Confirm(b, level, result) /\ result.ok \in BOOLEAN /\ result.confirmed \in Int
           /\ call[b].available[level] > 0 => result.confirmed >= 0
    BY <1>4, ConfirmBidResult
  <2>2. level \in Level
    BY Levels
  <2> QED  BY <2>1, <2>2, PositiveConfirm
<1>5. ASSUME NEW level \in Level, Skip(b, level) PROVE Positive(call'[b])
  <2>1. call'[b] = [call[b] EXCEPT !.pc = After(level)]
    BY <1>1, <1>5 DEF Skip
  <2>2. /\ call'[b].available = call[b].available /\ call'[b].revert = call[b].revert
        /\ call'[b].confirmed = call[b].confirmed
    BY <1>1, <2>1 DEF CallType
  <2> QED  BY <2>2 DEF Positive
<1>6. ASSUME ConfirmBidRate(b) PROVE Positive(call'[b])
  <2>1. PICK amount : call' = [call EXCEPT ![b] = Settled([call[b] EXCEPT !.imps = @ - amount])]
    BY <1>6 DEF ConfirmBidRate
  <2> DEFINE c == [call[b] EXCEPT !.imps = @ - amount]
  <2>2. call'[b] = Settled(c)
    BY <1>1, <2>1
  <2>3. /\ c.available = call[b].available /\ c.revert = call[b].revert
        /\ c.confirmed = call[b].confirmed
        /\ {"available", "revert", "confirmed", "pc", "limits"} \subseteq DOMAIN c
    BY <1>1 DEF CallType
  <2> HIDE DEF c
  <2>4. /\ Settled(c).available = c.available /\ Settled(c).revert = c.revert
        /\ Settled(c).confirmed = c.confirmed
    BY <2>3 DEF Settled
  <2> QED  BY <2>2, <2>3, <2>4 DEF Positive
<1>7. ASSUME RevertConfirmedBid(b) PROVE Positive(call'[b])
  <2> DEFINE level == NextRevert(call[b])
             c == [call[b] EXCEPT !.revert[level] = 0,
                                  !.confirmed[level] = @ - call[b].revert[level]]
  <2>1. call' = call \/ call'[b] = Settled(c)
    BY <1>1, <1>7 DEF RevertConfirmedBid
  <2>2. level \in Level
    BY Levels DEF NextRevert
  <2> HIDE DEF level
  <2>3. /\ [call[b].revert EXCEPT ![level] = 0] \in [Level -> Int]
        /\ [call[b].confirmed EXCEPT ![level] = @ - call[b].revert[level]] \in [Level -> Int]
    BY <1>1, <2>2 DEF CallType
  <2>4. c = [call[b] EXCEPT
               !.revert = [call[b].revert EXCEPT ![level] = 0],
               !.confirmed = [call[b].confirmed EXCEPT ![level] = @ - call[b].revert[level]]]
    BY <1>1 DEF CallType
  <2>5. c \in CallType
    BY <1>1, <2>3, <2>4 DEF CallType
  <2>6. \A l \in Level : /\ c.available[l] = call[b].available[l]
                         /\ c.revert[l] = IF l = level THEN 0 ELSE call[b].revert[l]
                         /\ c.confirmed[l] = IF l = level
                                             THEN call[b].confirmed[l] - call[b].revert[l]
                                             ELSE call[b].confirmed[l]
                         /\ call[b].confirmed[l] \in Int /\ call[b].revert[l] \in Int
    BY <1>1, <2>2, <2>4 DEF CallType
  <2> HIDE DEF c
  <2>7. Positive(c)
    BY <2>6 DEF Positive
  <2> QED  BY <2>1, <2>5, <2>7, PositiveSettled
<1> QED  BY <1>2, <1>3, <1>4, <1>5, <1>6, <1>7 DEF CallNext

LEMMA PositiveInvariant == Spec => []PositiveInv
<1>1. Init => PositiveInv
  <2> SUFFICES ASSUME Init, NEW b \in Bids PROVE Positive(call[b])
    BY DEF PositiveInv
  <2>1. call[b].available = Zero /\ call[b].revert = Zero /\ call[b].confirmed = Zero
    BY DEF Init, NewCall
  <2>2. \A level \in Level : Zero[level] = 0
    BY DEF Zero
  <2> QED  BY <2>1, <2>2 DEF Positive
<1>2. TypeInv /\ TypeInv' /\ CallInv /\ PositiveInv /\ [Next]_vars => PositiveInv'
  <2> SUFFICES ASSUME TypeInv, TypeInv', CallInv, PositiveInv, [Next]_vars,
                      NEW b \in Bids, Charges(b)
               PROVE  Positive(call'[b])
    BY DEF PositiveInv
  <2>1. Positive(call[b])
    BY DEF PositiveInv
  <2>2. ASSUME NEW c \in Bids, CallNext(c) PROVE Positive(call'[b])
    <3>1. CASE c = b
      BY <2>1, <2>2, <3>1, PositiveCall
    <3>2. CASE c # b
      <4>1. call'[b] = call[b]
        BY <2>2, <3>2, CallLimits
      <4> QED  BY <2>1, <4>1
    <3> QED  BY <3>1, <3>2
  <2>3. UNCHANGED vars \/ (\E new \in Configs : Config(new))
          \/ (\E source \in Stats : Stat(source)) \/ ReplaceAmounts => UNCHANGED call
    BY DEF vars, Config, Stat, ReplaceAmounts
  <2> QED  BY <2>1, <2>2, <2>3 DEF Next
<1> QED  BY <1>1, <1>2, TypeInvariant, CallInvariant, PTL DEF Spec

LEMMA BookFits ==
    ASSUME TypeInv, PositiveInv, NEW b \in Bids, Charges(b), CallNext(b)
    PROVE  \/ UNCHANGED <<books, booked>>
           \/ \E level \in Level, amount \in Int :
                 Book(b, level, amount) /\ Running(b) /\ Fits(b, level, amount)
<1>1. ASSUME ConfirmAccount(b)
      PROVE  \E level \in Level, amount \in Int :
                Book(b, level, amount) /\ Running(b) /\ Fits(b, level, amount)
  <2>1. PICK result :
           /\ Confirm(b, "account", result) /\ result.confirmed \in Int
           /\ ~b.forced /\ result.confirmed > 0 =>
                 TotalAmount(books["account"][EntityId(b, "account")]) + result.confirmed
                    <= call[b].limits["account"].budget
    BY <1>1, ConfirmAccountResult
  <2>2. Book(b, "account", result.confirmed) /\ Running(b)
    BY <2>1 DEF Confirm, Running
  <2>3. Fits(b, "account", result.confirmed)
    BY <2>1 DEF Fits, Charges
  <2> QED  BY <2>1, <2>2, <2>3, Levels
<1>2. ASSUME NEW level \in {"campaign", "ccg"}, ConfirmBid(b, level)
      PROVE  \E l \in Level, amount \in Int :
                Book(b, l, amount) /\ Running(b) /\ Fits(b, l, amount)
  <2>1. PICK limits : limits = call[b].limits[level]
    OBVIOUS
  <2>2. PICK days : days = books[level][EntityId(b, level)]
    OBVIOUS
  <2>3. PICK date : date = AdvDate(limits, b.time)
    OBVIOUS
  <2>4. PICK result :
           /\ Confirm(b, level, result) /\ result.confirmed \in Int
           /\ ~b.forced /\ result.confirmed > 0 =>
                 /\ limits.budget # None => TotalAmount(days) + result.confirmed <= limits.budget
                 /\ limits.delivery_pacing = "F" /\ limits.daily_budget # None =>
                       AmountOf(days, date) + result.confirmed <= limits.daily_budget
    BY <1>2, <2>1, <2>2, <2>3, ConfirmBidResult
  <2>5. Book(b, level, result.confirmed) /\ Running(b)
    BY <2>4, Levels DEF Confirm, Running
  <2>6. Fits(b, level, result.confirmed)
    BY <2>1, <2>2, <2>3, <2>4 DEF Fits, Charges
  <2> QED  BY <2>4, <2>5, <2>6, Levels
<1>3. ASSUME RevertConfirmedBid(b)
      PROVE  \/ UNCHANGED <<books, booked>>
             \/ \E level \in Level, amount \in Int :
                   Book(b, level, amount) /\ Running(b) /\ Fits(b, level, amount)
  <2> DEFINE level == NextRevert(call[b])
  <2>1. level \in Level
    BY Levels DEF NextRevert
  <2>2. call[b] \in CallType /\ Positive(call[b])
    BY DEF TypeInv, TypeOK, PositiveInv
  <2>3. UNCHANGED <<books, booked>> \/ Book(b, level, -call[b].revert[level])
    BY <1>3 DEF RevertConfirmedBid
  <2>4. Running(b)
    BY <1>3 DEF RevertConfirmedBid, Running
  <2> HIDE DEF level
  <2>5. -call[b].revert[level] \in Int /\ ~(-call[b].revert[level] > 0)
    BY <2>1, <2>2 DEF CallType, Positive
  <2>6. Fits(b, level, -call[b].revert[level])
    BY <2>5 DEF Fits
  <2> QED  BY <2>1, <2>3, <2>4, <2>5, <2>6
<1>4. Begin(b) \/ (\E level \in Level : Skip(b, level)) \/ ConfirmBidRate(b)
        => UNCHANGED <<books, booked>>
  BY DEF Begin, Skip, ConfirmBidRate
<1> QED  BY <1>1, <1>2, <1>3, <1>4 DEF CallNext

(* What a steady entity has booked on a day is what its calls have; its    *)
(* calls work with the limits in force, which stay what they are.          *)
OnDay(level, id, d) ==
    [b \in Bids |->
        IF EntityId(b, level) = id /\ AdvDate(config[level][id], b.time) = d
        THEN booked[b][level] ELSE 0]

KnownEntity(level, id) == config # None /\ config[level][id] # None

CallsAgree(level, id) ==
    \A b \in Bids : EntityId(b, level) = id /\ Running(b) =>
        KnownEntity(level, id) /\ call[b].limits[level] = config[level][id]

KeptWithin(level, limits, days) ==
    /\ limits.budget # None /\ TotalAmount(days) > 0 => TotalAmount(days) <= limits.budget
    /\ level # "account" /\ limits.delivery_pacing = "F" /\ limits.daily_budget # None =>
          \A d \in Date : AmountOf(days, d) > 0 => AmountOf(days, d) <= limits.daily_budget

BooksAgree(level, id) ==
    LET days == books[level][id]
    IN  /\ ~KnownEntity(level, id) =>
              /\ days = NoDays
              /\ \A b \in Bids : EntityId(b, level) = id => booked[b][level] = 0
        /\ DOMAIN days \subseteq OpenDays(level, id)
        /\ NothingCarried(days)
        /\ \A d \in Date : AmountOf(days, d) = SumOver(OnDay(level, id, d), Bids)
        /\ KnownEntity(level, id) => KeptWithin(level, config[level][id], days)

ConfigKnown ==
    config # None =>
        \E new \in Configs :
            config = [level \in Level |-> [id \in Id |-> Adapt(level, new[level][id])]]

SteadyInv ==
    /\ ConfigKnown
    /\ \A e \in Steady : CallsAgree(e.level, e.id) /\ BooksAgree(e.level, e.id)

LEMMA SteadyResult ==
    ASSUME NEW e \in Steady
    PROVE  /\ e.level \in Level /\ e.id \in Id /\ BidsStayOpen(e.level, e.id)
           /\ \A source \in Stats : source[e.level][e.id] = NoSource
           /\ \A b \in Bids : EntityId(b, e.level) = e.id => Charges(b)
           /\ \A known, other \in Configs : known[e.level][e.id] = other[e.level][e.id]
BY DEF Steady, Entities, Charges

(* A call of the entity books on an open day, within its limits.           *)
LEMMA SteadyBooks ==
    ASSUME TypeInv, LimitsKnown, NEW level \in Level, NEW id \in Id, BidsStayOpen(level, id),
           CallsAgree(level, id), BooksAgree(level, id), config' = config,
           NEW b \in Bids, EntityId(b, level) = id, NEW amount \in Int,
           Book(b, level, amount), Running(b), Fits(b, level, amount)
    PROVE  BooksAgree(level, id)'
<1>1. PICK limits : limits = config[level][id]
  OBVIOUS
<1>2. KnownEntity(level, id) /\ limits = call[b].limits[level]
  BY <1>1 DEF CallsAgree
<1>3. PICK date : date = AdvDate(limits, b.time)
  OBVIOUS
<1>4. date \in OpenDays(level, id) /\ date \in Date
  <2>1. AdvDate(call[b].limits[level], b.time) \in OpenDays(level, id)
    BY BookedOpen
  <2> QED  BY <1>2, <1>3, <2>1 DEF OpenDays
<1>5. PICK days : days = books[level][id]
  OBVIOUS
<1>6. PICK after : after = books'[level][id]
  OBVIOUS
<1>7. IsHolder(days) /\ books = [l \in Level |-> [i \in Id |-> books[l][i]]]
  BY <1>5 DEF TypeInv, TypeOK, AreBooks
<1>8. after = days \/ after = AddAmount(days, date, amount)
  <2>1. CASE amount = 0
    BY <1>5, <1>6, <2>1 DEF Book
  <2>2. CASE amount # 0
    <3>1. books' = [books EXCEPT ![level][id] = AddAmount(@, date, amount)]
      BY <1>2, <1>3, <2>2 DEF Book
    <3> QED  BY <1>5, <1>6, <1>7, <3>1
  <2> QED  BY <2>1, <2>2
<1>9. /\ TotalAmount(after) = TotalAmount(days) + amount
      /\ AmountOf(after, date) = AmountOf(days, date) + amount
      /\ booked'[b][level] = booked[b][level] + amount
      /\ \A c \in Bids, l \in Level : <<c, l>> # <<b, level>> => booked'[c][l] = booked[c][l]
  BY <1>2, <1>3, <1>5, <1>6, BookResult
<1>10. \A d \in Date : d # date => AmountOf(after, d) = AmountOf(days, d)
  BY <1>2, <1>3, <1>5, <1>6, BookElsewhere
<1>11. TotalAmount(days) \in Int /\ \A d : AmountOf(days, d) \in Int
  BY <1>7, AmountsType
<1>12. /\ DOMAIN days \subseteq OpenDays(level, id) /\ NothingCarried(days)
       /\ \A d \in Date : AmountOf(days, d) = SumOver(OnDay(level, id, d), Bids)
       /\ KeptWithin(level, limits, days)
  BY <1>1, <1>2, <1>5 DEF BooksAgree
<1>13. DOMAIN after \subseteq OpenDays(level, id) /\ NothingCarried(after)
  <2>1. DOMAIN AddAmount(days, date, amount) = DOMAIN days \cup {date}
        /\ NothingCarried(AddAmount(days, date, amount))
    BY <1>4, <1>7, <1>12, AddAmountEntries, AddAmountCarriesNothing
  <2> QED  BY <1>4, <1>8, <1>12, <2>1
<1>14. KeptWithin(level, limits, after)
  <2>1. amount > 0 =>
          /\ limits.budget # None => TotalAmount(days) + amount <= limits.budget
          /\ level # "account" /\ limits.delivery_pacing = "F" /\ limits.daily_budget # None =>
                AmountOf(days, date) + amount <= limits.daily_budget
    BY <1>2, <1>3, <1>5 DEF Fits
  <2>2. limits \in LimitsOf(level)
    <3>1. call[b].limits \in LimitsType
      BY DEF TypeInv, TypeOK, CallType
    <3> QED  BY <1>2, <3>1 DEF LimitsType
  <2>3. limits.budget # None => limits.budget \in Int
    BY <2>2 DEF LimitsOf, AccountLimits, EntityLimits
  <2>4. level # "account" /\ limits.daily_budget # None => limits.daily_budget \in Int
    BY <2>2 DEF LimitsOf, EntityLimits
  <2>5. limits.budget # None /\ TotalAmount(after) > 0 => TotalAmount(after) <= limits.budget
    BY <1>9, <1>11, <1>12, <2>1, <2>3 DEF KeptWithin
  <2>6. ASSUME level # "account", limits.delivery_pacing = "F", limits.daily_budget # None,
               NEW d \in Date, AmountOf(after, d) > 0
        PROVE  AmountOf(after, d) <= limits.daily_budget
    <3>1. AmountOf(days, d) > 0 => AmountOf(days, d) <= limits.daily_budget
      BY <1>12, <2>6 DEF KeptWithin
    <3>2. AmountOf(days, d) \in Int /\ limits.daily_budget \in Int
      BY <1>11, <2>4, <2>6
    <3>3. CASE d = date
      BY <1>9, <2>1, <2>6, <3>1, <3>2, <3>3
    <3>4. CASE d # date
      BY <1>10, <2>6, <3>1, <3>4
    <3> QED  BY <3>3, <3>4
  <2> QED  BY <2>5, <2>6 DEF KeptWithin
<1>15. ASSUME NEW d \in Date PROVE AmountOf(after, d) = SumOver(OnDay(level, id, d)', Bids)
  <2>1. PICK f : f = OnDay(level, id, d)
    OBVIOUS
  <2>2. PICK h : h = OnDay(level, id, d)'
    OBVIOUS
  <2>3. \A c \in Bids : /\ f[c] = IF EntityId(c, level) = id /\ AdvDate(limits, c.time) = d
                                  THEN booked[c][level] ELSE 0
                        /\ f[c] \in Int
    BY <1>1, <2>1 DEF OnDay, TypeInv, TypeOK
  <2>4. \A c \in Bids : h[c] = IF EntityId(c, level) = id /\ AdvDate(limits, c.time) = d
                               THEN booked'[c][level] ELSE 0
    BY <1>1, <2>2 DEF OnDay
  <2>5. \A c \in Bids : c # b => h[c] = f[c]
    BY <1>9, <2>3, <2>4
  <2>6. IsFiniteSet(Bids) /\ AmountOf(days, d) = SumOver(f, Bids)
    BY <1>12, <2>1, BidAssumption
  <2>7. CASE d = date
    <3>1. h[b] = f[b] + amount
      BY <1>3, <1>9, <2>3, <2>4, <2>7
    <3>2. f[b] \in Int /\ h[b] \in Int
      BY <2>3, <3>1
    <3>3. SumOver(h, Bids) = SumOver(f, Bids) - f[b] + h[b]
      BY <2>3, <2>5, <2>6, <3>2, SumChange
    <3>4. AmountOf(after, d) = AmountOf(days, d) + amount
      BY <1>9, <2>7
    <3>5. AmountOf(days, d) \in Int
      BY <1>11
    <3> QED  BY <2>2, <2>6, <3>1, <3>2, <3>3, <3>4, <3>5
  <2>8. CASE d # date
    <3>1. \A c \in Bids : h[c] = f[c]
      BY <1>3, <2>3, <2>4, <2>5, <2>8
    <3>2. SumOver(h, Bids) = SumOver(f, Bids)
      BY <2>6, <3>1, SumSame
    <3> QED  BY <1>10, <2>2, <2>6, <2>8, <3>2
  <2> QED  BY <2>7, <2>8
<1>16. KnownEntity(level, id)' /\ config'[level][id] = limits
  BY <1>1, <1>2 DEF KnownEntity
<1> QED  BY <1>6, <1>13, <1>14, <1>15, <1>16 DEF BooksAgree

(* A step that leaves the entity's days and what its calls have booked, and *)
(* its limits once it has some.                                            *)
LEMMA SteadyStays ==
    ASSUME TypeInv, NEW level \in Level, NEW id \in Id, BooksAgree(level, id),
           books'[level][id] = books[level][id],
           \A b \in Bids : EntityId(b, level) = id => booked'[b][level] = booked[b][level],
           KnownEntity(level, id) =>
              KnownEntity(level, id)' /\ config'[level][id] = config[level][id]
    PROVE  BooksAgree(level, id)'
<1>1. PICK days : days = books[level][id]
  OBVIOUS
<1>2. /\ DOMAIN days \subseteq OpenDays(level, id) /\ NothingCarried(days)
      /\ \A d \in Date : AmountOf(days, d) = SumOver(OnDay(level, id, d), Bids)
  BY <1>1 DEF BooksAgree
<1>3. ASSUME NEW d \in Date PROVE AmountOf(days, d) = SumOver(OnDay(level, id, d)', Bids)
  <2>1. PICK f : f = OnDay(level, id, d)
    OBVIOUS
  <2>2. PICK h : h = OnDay(level, id, d)'
    OBVIOUS
  <2>3. \A b \in Bids : h[b] = f[b]
    <3>1. CASE KnownEntity(level, id)
      BY <2>1, <2>2, <3>1 DEF OnDay
    <3>2. CASE ~KnownEntity(level, id)
      <4>1. \A b \in Bids : EntityId(b, level) = id => booked[b][level] = 0
        BY <3>2 DEF BooksAgree
      <4> QED  BY <2>1, <2>2, <4>1 DEF OnDay
    <3> QED  BY <3>1, <3>2
  <2>4. IsFiniteSet(Bids)
    BY BidAssumption
  <2>5. SumOver(h, Bids) = SumOver(f, Bids)
    BY <2>3, <2>4, SumSame
  <2> QED  BY <1>2, <2>1, <2>2, <2>5
<1>4. KnownEntity(level, id)' => KeptWithin(level, config'[level][id], days)
  <2>1. CASE KnownEntity(level, id)
    BY <1>1, <2>1 DEF BooksAgree
  <2>2. CASE ~KnownEntity(level, id)
    <3>1. days = NoDays
      BY <1>1, <2>2 DEF BooksAgree
    <3>2. TotalAmount(days) = 0 /\ \A d : AmountOf(days, d) = 0
      BY <3>1, NoDaysType DEF TotalAmount, AmountOf
    <3> QED  BY <3>2 DEF KeptWithin
  <2> QED  BY <2>1, <2>2
<1>5. ~KnownEntity(level, id)' =>
         days = NoDays /\ \A b \in Bids : EntityId(b, level) = id => booked'[b][level] = 0
  BY <1>1 DEF BooksAgree
<1> QED  BY <1>1, <1>2, <1>3, <1>4, <1>5 DEF BooksAgree

LEMMA SteadyReplace ==
    ASSUME TypeInv, LimitsKnown, ReplaceAmounts, NEW level \in Level, NEW id \in Id,
           \A source \in Stats : source[level][id] = NoSource, BooksAgree(level, id)
    PROVE  books'[level][id] = books[level][id]
<1>1. CASE level # stat.level
  BY <1>1, ReplaceAt
<1>2. CASE level = stat.level
  <2> DEFINE days == books[level][id]
  <2>1. PICK other \in Id, limits \in LimitsOf(level) \cup {None} :
           /\ books[level][id] # NoDays => other = id
           /\ OffsetKnown(level, other, limits)
           /\ books'[level][id] = ReplaceAmount(days, stat.source[level][id],
                                                UseSourceEndDate(limits))
    BY <1>2, ReplaceAt
  <2>2. stat.source \in Stats
    BY ReplaceAt
  <2>3. books'[level][id] = FreshDays(days, UseSourceEndDate(limits))
    BY <2>1, <2>2 DEF ReplaceAmount
  <2>4. UseSourceEndDate(limits) \in Int
    BY EndDateType
  <2>5. IsHolder(days) /\ DOMAIN days \subseteq OpenDays(level, id) /\ NothingCarried(days)
    BY DEF TypeInv, TypeOK, AreBooks, BooksAgree
  <2>6. \A d \in DOMAIN days : d >= UseSourceEndDate(limits)
    <3>1. CASE days = NoDays
      BY <3>1 DEF NoDays
    <3>2. CASE days # NoDays
      <4>1. OffsetKnown(level, id, limits)
        BY <2>1, <3>2
      <4> QED  BY <2>2, <2>5, <4>1, OpenIsFresh
    <3> QED  BY <3>1, <3>2
  <2> HIDE DEF days
  <2>7. FreshDays(days, UseSourceEndDate(limits)) = days
    BY <2>4, <2>5, <2>6, AllDaysFresh
  <2> QED  BY <2>3, <2>7 DEF days
<1> QED  BY <1>1, <1>2

LEMMA SteadyCallsStep ==
    ASSUME TypeInv, NEW e \in Steady, CallsAgree(e.level, e.id), NEW b \in Bids, CallNext(b)
    PROVE  CallsAgree(e.level, e.id)'
<1> DEFINE level == e.level
           id == e.id
<1>1. /\ \A c \in Bids : c # b => call'[c] = call[c]
      /\ \/ call'[b].limits = call[b].limits /\ (call'[b].pc = "done" \/ Running(b))
         \/ call'[b].limits = NoTraits /\ call'[b].pc = "done"
         \/ call'[b].limits = [l \in Level |-> Limits(b, l)] /\ (b.forced \/ Resolved(b))
      /\ UNCHANGED <<config, stat>>
  BY CallLimits
<1>2. level \in Level /\ \A c \in Bids : EntityId(c, level) = id => Charges(c)
  BY SteadyResult
<1> HIDE DEF level, id
<1>3. ASSUME NEW c \in Bids, EntityId(c, level) = id, Running(c)'
      PROVE  KnownEntity(level, id)' /\ call'[c].limits[level] = config'[level][id]
  <2>1. CASE c # b
    BY <1>1, <1>3, <2>1 DEF CallsAgree, Running, KnownEntity, level, id
  <2>2. CASE c = b /\ call'[b].limits = call[b].limits
             /\ (call'[b].pc = "done" \/ Running(b))
    <3>1. Running(b)
      BY <1>3, <2>2 DEF Running
    <3> QED  BY <1>1, <1>3, <2>2, <3>1 DEF CallsAgree, KnownEntity, level, id
  <2>3. CASE c = b /\ call'[b].limits = [l \in Level |-> Limits(b, l)]
             /\ (b.forced \/ Resolved(b))
    <3>1. Resolved(b)
      BY <1>2, <1>3, <2>3 DEF Charges
    <3>2. KnownEntity(level, id) /\ Limits(b, level) = config[level][id]
      BY <1>2, <1>3, <2>3, <3>1 DEF Resolved, KnownEntity, Limits
    <3> QED  BY <1>1, <1>2, <2>3, <3>2 DEF KnownEntity
  <2> QED  BY <1>1, <1>3, <2>1, <2>2, <2>3 DEF Running
<1> QED  BY <1>3 DEF CallsAgree, level, id

LEMMA SteadyStep ==
    ASSUME TypeInv, LimitsKnown, PositiveInv, ConfigKnown, [Next]_vars, NEW e \in Steady,
           CallsAgree(e.level, e.id), BooksAgree(e.level, e.id)
    PROVE  CallsAgree(e.level, e.id)' /\ BooksAgree(e.level, e.id)'
<1>1. /\ e.level \in Level /\ e.id \in Id /\ BidsStayOpen(e.level, e.id)
      /\ \A source \in Stats : source[e.level][e.id] = NoSource
      /\ \A b \in Bids : EntityId(b, e.level) = e.id => Charges(b)
      /\ \A known, other \in Configs : known[e.level][e.id] = other[e.level][e.id]
  BY SteadyResult
<1>2. PICK level \in Level : level = e.level
  BY <1>1
<1>3. PICK id \in Id : id = e.id
  BY <1>1
<1>4. ASSUME NEW b \in Bids, CallNext(b)
      PROVE  CallsAgree(level, id)' /\ BooksAgree(level, id)'
  <2>1. CallsAgree(level, id)'
    BY <1>2, <1>3, <1>4, SteadyCallsStep
  <2>2. config' = config
    BY <1>4, CallLimits
  <2>3. CASE UNCHANGED <<books, booked>>
    BY <1>2, <1>3, <2>1, <2>2, <2>3, SteadyStays DEF KnownEntity
  <2>4. ASSUME NEW l \in Level, NEW amount \in Int, Book(b, l, amount)
        PROVE  \/ l = level /\ EntityId(b, level) = id
               \/ BooksAgree(level, id)'
    <3> SUFFICES ASSUME ~(l = level /\ EntityId(b, level) = id) PROVE BooksAgree(level, id)'
      OBVIOUS
    <3>1. books'[level][id] = books[level][id]
      <4>1. EntityId(b, l) \in Id /\ books = [k \in Level |-> [i \in Id |-> books[k][i]]]
        BY BidType DEF TypeInv, TypeOK, AreBooks
      <4>2. books' = books \/ \E new : books' = [books EXCEPT ![l][EntityId(b, l)] = new]
        <5>1. PICK new :
                 new = AddAmount(books[l][EntityId(b, l)],
                                 AdvDate(call[b].limits[l], b.time), amount)
          OBVIOUS
        <5>2. amount # 0 => books' = [books EXCEPT ![l][EntityId(b, l)] = new]
          BY <2>4, <5>1 DEF Book
        <5>3. amount = 0 => books' = books
          BY <2>4 DEF Book
        <5> QED  BY <5>2, <5>3
      <4> QED  BY <4>1, <4>2
    <3>2. \A c \in Bids : EntityId(c, level) = id => booked'[c][level] = booked[c][level]
      BY <2>4, BookResult
    <3> QED  BY <1>2, <1>3, <2>2, <3>1, <3>2, SteadyStays DEF KnownEntity
  <2>5. CASE EntityId(b, level) = id
    <3>1. Charges(b)
      BY <1>1, <1>2, <1>3, <2>5
    <3>2. CASE \E l \in Level, amount \in Int :
                  Book(b, l, amount) /\ Running(b) /\ Fits(b, l, amount)
      <4>1. PICK l \in Level, amount \in Int :
               Book(b, l, amount) /\ Running(b) /\ Fits(b, l, amount)
        BY <3>2
      <4>2. CASE l = level
        BY <1>1, <1>2, <1>3, <2>1, <2>2, <2>5, <4>1, <4>2, SteadyBooks
      <4> QED  BY <2>1, <2>4, <4>1, <4>2
    <3> QED  BY <1>4, <2>1, <2>3, <2>4, <3>1, <3>2, BookFits
  <2>6. CASE EntityId(b, level) # id
    BY <1>4, <2>1, <2>3, <2>4, <2>6, CallBooks
  <2> QED  BY <2>5, <2>6
<1>5. ASSUME NEW new \in Configs, Config(new)
      PROVE  CallsAgree(level, id)' /\ BooksAgree(level, id)'
  <2>1. /\ config' = [l \in Level |-> [i \in Id |-> Adapt(l, new[l][i])]]
        /\ UNCHANGED <<books, call, booked>>
    BY <1>5 DEF Config
  <2>2. KnownEntity(level, id) =>
           KnownEntity(level, id)' /\ config'[level][id] = config[level][id]
    <3> SUFFICES ASSUME KnownEntity(level, id)
                 PROVE  KnownEntity(level, id)' /\ config'[level][id] = config[level][id]
      OBVIOUS
    <3>1. PICK old \in Configs :
             config = [l \in Level |-> [i \in Id |-> Adapt(l, old[l][i])]]
      BY DEF ConfigKnown, KnownEntity
    <3>2. new[level][id] = old[level][id]
      BY <1>1, <1>2, <1>3
    <3>3. config'[level][id] = config[level][id]
      BY <2>1, <3>1, <3>2
    <3>4. config' # None
      BY <1>5, NewConfigType, ConfigNoneAssumption
    <3> QED  BY <3>3, <3>4 DEF KnownEntity
  <2>3. BooksAgree(level, id)'
    BY <1>2, <1>3, <2>1, <2>2, SteadyStays
  <2>4. CallsAgree(level, id)'
    BY <1>2, <1>3, <2>1, <2>2 DEF CallsAgree, Running
  <2> QED  BY <2>3, <2>4
<1>6. CASE ReplaceAmounts
  <2>1. UNCHANGED <<config, call, booked>>
    BY <1>6 DEF ReplaceAmounts
  <2>2. books'[level][id] = books[level][id]
    BY <1>1, <1>2, <1>3, <1>6, SteadyReplace
  <2> QED  BY <1>2, <1>3, <2>1, <2>2, SteadyStays DEF KnownEntity, CallsAgree, Running
<1>7. CASE UNCHANGED <<config, books, call, booked>>
  BY <1>2, <1>3, <1>7, SteadyStays DEF KnownEntity, CallsAgree, Running
<1>8. UNCHANGED vars \/ (\E source \in Stats : Stat(source)) =>
         UNCHANGED <<config, books, call, booked>>
  BY DEF vars, Stat
<1> QED  BY <1>2, <1>3, <1>4, <1>5, <1>6, <1>7, <1>8 DEF Next

LEMMA SteadyInvariant == Spec => []SteadyInv
<1>1. Init => SteadyInv
  <2> SUFFICES ASSUME Init PROVE SteadyInv
    OBVIOUS
  <2>1. /\ config = None
        /\ \A level \in Level, id \in Id : books[level][id] = NoDays
        /\ \A b \in Bids : call[b].pc = "new" /\ \A level \in Level : booked[b][level] = 0
    BY DEF Init, NewCall, Zero
  <2>2. ConfigKnown
    BY <2>1 DEF ConfigKnown
  <2>3. ASSUME NEW e \in Steady
        PROVE  CallsAgree(e.level, e.id) /\ BooksAgree(e.level, e.id)
    <3>1. PICK level \in Level : level = e.level
      BY SteadyResult
    <3>2. PICK id \in Id : id = e.id
      BY SteadyResult
    <3>3. CallsAgree(level, id)
      BY <2>1 DEF CallsAgree, Running
    <3>4. DOMAIN NoDays = {} /\ \A d : AmountOf(NoDays, d) = 0
      BY NoDaysType DEF AmountOf
    <3>5. NothingCarried(NoDays) /\ DOMAIN NoDays \subseteq OpenDays(level, id)
      BY <3>4 DEF NothingCarried
    <3>6. ASSUME NEW d \in Date PROVE 0 = SumOver(OnDay(level, id, d), Bids)
      <4>1. PICK f : f = OnDay(level, id, d)
        OBVIOUS
      <4>2. \A b \in Bids : f[b] = 0
        BY <2>1, <4>1 DEF OnDay
      <4>3. SumOver(f, Bids) = 0
        BY <4>2, BidAssumption, SumOfZeros
      <4> QED  BY <4>1, <4>3
    <3>7. BooksAgree(level, id)
      BY <2>1, <3>4, <3>5, <3>6 DEF BooksAgree, KnownEntity
    <3> QED  BY <3>1, <3>2, <3>3, <3>7
  <2> QED  BY <2>2, <2>3 DEF SteadyInv
<1>2. TypeInv /\ LimitsKnown /\ PositiveInv /\ SteadyInv /\ [Next]_vars => SteadyInv'
  <2> SUFFICES ASSUME TypeInv, LimitsKnown, PositiveInv, SteadyInv, [Next]_vars
               PROVE  SteadyInv'
    OBVIOUS
  <2>1. ConfigKnown'
    <3>1. ASSUME NEW new \in Configs, Config(new) PROVE ConfigKnown'
      BY <3>1 DEF Config, ConfigKnown
    <3>2. ASSUME NEW b \in Bids, CallNext(b) PROVE config' = config
      BY <3>2, CallLimits
    <3>3. UNCHANGED vars \/ (\E source \in Stats : Stat(source)) \/ ReplaceAmounts
             => config' = config
      BY DEF vars, Stat, ReplaceAmounts
    <3> QED  BY <3>1, <3>2, <3>3 DEF SteadyInv, ConfigKnown, Next
  <2>2. \A e \in Steady : CallsAgree(e.level, e.id)' /\ BooksAgree(e.level, e.id)'
    BY SteadyStep DEF SteadyInv
  <2> QED  BY <2>1, <2>2 DEF SteadyInv
<1> QED  BY <1>1, <1>2, TypeInvariant, LimitsInvariant, PositiveInvariant, PTL DEF Spec

(* An account, campaign or group whose limits stay what they are, whose    *)
(* bids are charges that are not forced, and which the statistics leave    *)
(* alone, never spends more than its budget and its fast daily budget, and *)
(* never has a day below zero: whatever confirms of other levels, cuts and *)
(* reverts come between the steps of its calls, for any number of them.    *)
THEOREM BudgetsHold == Spec => []BooksWithinBudget
<1>1. ASSUME TypeInv, CallInv, PositiveInv, SteadyInv PROVE BooksWithinBudget
  <2> SUFFICES ASSUME NEW e \in Steady, NEW days, days = books[e.level][e.id]
               PROVE  /\ \A d \in DOMAIN days : days[d].amount >= 0
                      /\ config # None /\ config[e.level][e.id] # None =>
                           /\ config[e.level][e.id].budget # None /\ TotalAmount(days) > 0 =>
                                TotalAmount(days) <= config[e.level][e.id].budget
                           /\ e.level # "account"
                                /\ config[e.level][e.id].delivery_pacing = "F" =>
                                \A d \in DOMAIN days :
                                   config[e.level][e.id].daily_budget # None
                                      /\ days[d].amount > 0 =>
                                         days[d].amount <= config[e.level][e.id].daily_budget
    BY DEF BooksWithinBudget
  <2>1. PICK level \in Level : level = e.level
    BY SteadyResult
  <2>2. PICK id \in Id : id = e.id
    BY SteadyResult
  <2>3. /\ \A d \in Date : AmountOf(days, d) = SumOver(OnDay(level, id, d), Bids)
        /\ KnownEntity(level, id) => KeptWithin(level, config[level][id], days)
    BY <1>1, <2>1, <2>2 DEF SteadyInv, BooksAgree
  <2>4. \A d \in DOMAIN days : d \in Date /\ AmountOf(days, d) = days[d].amount
    <3>1. IsHolder(days)
      BY <1>1, <2>1, <2>2 DEF TypeInv, TypeOK, AreBooks
    <3> QED  BY <3>1, HolderType DEF AmountOf
  <2>5. ASSUME NEW d \in DOMAIN days PROVE days[d].amount >= 0
    <3>1. PICK f : f = OnDay(level, id, d)
      OBVIOUS
    <3>2. ASSUME NEW b \in Bids PROVE f[b] \in Nat
      <4>1. CASE EntityId(b, level) = id
        <5>1. Charges(b)
          BY <2>1, <2>2, <4>1, SteadyResult
        <5>2. Positive(call[b]) /\ booked[b] = call[b].confirmed /\ call[b] \in CallType
          BY <1>1, <5>1 DEF PositiveInv, CallInv, TypeInv, TypeOK
        <5>3. booked[b][level] \in Nat
          BY <5>2 DEF Positive, CallType
        <5> QED  BY <3>1, <5>3 DEF OnDay
      <4>2. CASE EntityId(b, level) # id
        BY <3>1, <4>2 DEF OnDay
      <4> QED  BY <4>1, <4>2
    <3>3. SumOver(f, Bids) \in Nat
      BY <3>2, BidAssumption, SumNotNegative
    <3> QED  BY <2>3, <2>4, <3>1, <3>3
  <2> QED  BY <2>1, <2>2, <2>3, <2>4, <2>5 DEF KnownEntity, KeptWithin
<1> QED  BY <1>1, TypeInvariant, CallInvariant, PositiveInvariant, SteadyInvariant, PTL

-----------------------------------------------------------------------------
(* The running totals of a holder, and what it takes that a bid on any of  *)
(* the days D keeps them: nothing is carried over from before the first    *)
(* day kept, or there is a day kept that is no later than all of them.     *)
Based(days, D) ==
    NothingCarried(days) \/ \E d \in DOMAIN days : \A date \in D : d <= date

LEMMA AddAmountKeepsBase ==
    ASSUME NEW days, IsHolder(days), PrefixSums(days), NEW D, Based(days, D),
           NEW date \in Date, date \in D, NEW amount \in Int
    PROVE  /\ PrefixSums(AddAmount(days, date, amount))
           /\ Based(AddAmount(days, date, amount), D)
<1> DEFINE after == AddAmount(days, date, amount)
<1>1. NothingCarried(days) \/ \E d \in DOMAIN days : d <= date
  BY DEF Based
<1>2. PrefixSums(after)
  BY <1>1, AddAmountKeepsRunningTotals
<1>3. DOMAIN after = DOMAIN days \cup {date}
  BY DEF AddAmount
<1>4. NothingCarried(days) => NothingCarried(after)
  BY AddAmountCarriesNothing
<1> HIDE DEF after
<1>5. Based(after, D)
  BY <1>3, <1>4 DEF Based
<1> QED  BY <1>2, <1>5 DEF after

(* What is left of a holder from a day on starts from nothing.             *)
LEMMA FreshDaysTotals ==
    ASSUME NEW days, IsHolder(days), PrefixSums(days), NEW end \in Int
    PROVE  PrefixSums(FreshDays(days, end)) /\ NothingCarried(FreshDays(days, end))
<1> DEFINE fresh == {d \in DOMAIN days : d >= end}
           base == days[First(fresh)].amount_before
           f == FreshDays(days, end)
<1>1. DOMAIN days \in SUBSET Date /\ days \in [DOMAIN days -> DayAmount]
      /\ DOMAIN days \in SUBSET Nat
  BY HolderType, DateAssumption
<1>2. f = [d \in fresh |-> [days[d] EXCEPT !.amount_before = @ - base]]
  BY DEF FreshDays
<1>3. IsHolder(f) /\ DOMAIN f = fresh
  BY FreshDaysType
<1>4. fresh \in SUBSET Nat
  BY <1>1
<1>5. fresh # {} => First(fresh) \in fresh /\ \A e \in fresh : First(fresh) <= e
  BY <1>4, FirstResult
<1>6. fresh # {} => base \in Int
  BY <1>1, <1>5 DEF DayAmount
<1> HIDE DEF base, f
<1>7. \A d \in fresh : /\ f[d].amount_before = days[d].amount_before - base
                       /\ f[d].amount = days[d].amount
                       /\ days[d].amount_before \in Int /\ days[d].amount \in Int
  <2> TAKE d \in fresh
  <2>1. f[d] = [days[d] EXCEPT !.amount_before = @ - base]
    BY <1>2
  <2>2. days[d] \in DayAmount
    BY <1>1
  <2> QED  BY <2>1, <2>2 DEF DayAmount
<1>8. NothingCarried(f)
  <2> SUFFICES ASSUME NEW d \in DOMAIN f, Earlier(f, d) = {} PROVE f[d].amount_before = 0
    BY DEF NothingCarried
  <2>1. d \in fresh /\ \A e \in fresh : ~(e < d)
    BY <1>3 DEF Earlier
  <2>2. d = First(fresh)
    <3> HIDE DEF fresh
    <3>1. First(fresh) \in fresh /\ First(fresh) <= d /\ ~(First(fresh) < d)
      BY <1>5, <2>1
    <3>2. First(fresh) \in Nat /\ d \in Nat
      BY <1>4, <2>1, <3>1
    <3> DEFINE n == First(fresh)
    <3> HIDE DEF n
    <3>3. n <= d /\ ~(n < d) /\ n \in Nat
      BY <3>1, <3>2 DEF n
    <3>4. d = n
      BY <3>2, <3>3
    <3> QED  BY <3>4 DEF n
  <2>3. days[d].amount_before = base
    <3> HIDE DEF fresh
    <3> QED  BY <2>2 DEF base
  <2> QED  BY <1>6, <1>7, <2>1, <2>3
<1>9. PrefixSums(f)
  <2> SUFFICES ASSUME NEW d \in DOMAIN f, Earlier(f, d) # {}
               PROVE  f[d].amount_before = f[Last(Earlier(f, d))].amount_before
                                           + f[Last(Earlier(f, d))].amount
    BY DEF PrefixSums
  <2> DEFINE p == Last(Earlier(f, d))
  <2>1. p \in fresh /\ p < d /\ \A e \in Earlier(f, d) : e <= p
    BY <1>3, EarlierLast
  <2> HIDE DEF p
  <2>2. d \in DOMAIN days /\ d \in fresh /\ p \in DOMAIN days /\ p >= end
    BY <1>3, <2>1
  <2>3. p \in Earlier(days, d)
    BY <2>1, <2>2 DEF Earlier
  <2>4. \A e \in Earlier(days, d) : e <= p
    <3> TAKE e \in Earlier(days, d)
    <3>1. e \in DOMAIN days /\ e < d /\ e \in Nat /\ p \in Nat
      BY <1>1, <2>2 DEF Earlier
    <3>2. CASE e >= end
      BY <1>3, <2>1, <3>1, <3>2 DEF Earlier
    <3>3. CASE ~(e >= end)
      BY <2>2, <3>1, <3>3
    <3> QED  BY <3>2, <3>3
  <2>5. Last(Earlier(days, d)) = p
    <3>1. /\ Last(Earlier(days, d)) \in DOMAIN days
          /\ Last(Earlier(days, d)) < d
          /\ \A e \in Earlier(days, d) : e <= Last(Earlier(days, d))
      BY <2>3, EarlierLast
    <3>2. Last(Earlier(days, d)) \in Earlier(days, d)
      BY <3>1 DEF Earlier
    <3> QED  BY <1>1, <2>2, <2>3, <2>4, <3>1, <3>2
  <2>6. days[d].amount_before = days[p].amount_before + days[p].amount
    BY <2>2, <2>3, <2>5 DEF PrefixSums
  <2>7. f[d].amount_before = f[p].amount_before + f[p].amount
    <3>1. base \in Int
      BY <1>6, <2>2
    <3> HIDE DEF fresh
    <3> QED  BY <1>7, <2>1, <2>2, <2>6, <3>1
  <2> QED  BY <2>7 DEF p
<1> QED  BY <1>8, <1>9 DEF f

(* The sum of the source up to a day that is not the first of it.          *)
LEMMA SourceStep ==
    ASSUME NEW s, IsSource(s), NEW end \in Int, NEW p, SourceDays(s, end) # {},
           p = Last(SourceDays(s, end))
    PROVE  /\ p \in DOMAIN s.day_amounts /\ p \in SourceDays(s, end)
           /\ \A e \in SourceDays(s, end) : e <= p
           /\ SourceDays(s, p) = SourceDays(s, end) \ {p}
           /\ SourceBefore(s, end) = SourceBefore(s, p) + MulFloor(LimitCoef, s.day_amounts[p])
<1> DEFINE days == SourceDays(s, end)
           f == [d \in days |-> MulFloor(LimitCoef, s.day_amounts[d])]
           rest == days \ {p}
           g == [d \in rest |-> MulFloor(LimitCoef, s.day_amounts[d])]
<1>1. days \in SUBSET DOMAIN s.day_amounts /\ days \in SUBSET Date
  BY DEF IsSource, SourceDays
<1>2. p \in days /\ \A e \in days : e <= p
  BY <1>1, LastResult
<1>3. \A e \in days : e \in Nat /\ e \in DOMAIN s.day_amounts /\ e < end
  BY <1>1, DateAssumption DEF SourceDays
<1>4. SourceDays(s, p) = rest
  <2>1. ASSUME NEW e \in SourceDays(s, p) PROVE e \in rest
    <3>1. e \in DOMAIN s.day_amounts /\ e < p
      BY <2>1 DEF SourceDays
    <3>2. e \in Nat /\ p \in Nat /\ p < end
      BY <1>2, <1>3, <3>1, DateAssumption DEF IsSource
    <3>3. e < end /\ e # p
      <4>1. e # p
        BY <3>1, <3>2
      <4> QED  BY <2>1, <4>1, <3>1, <3>2
    <3> QED  BY <3>1, <3>3 DEF SourceDays
  <2>2. ASSUME NEW e \in rest PROVE e \in SourceDays(s, p)
    <3>1. e \in days /\ e # p
      OBVIOUS
    <3> HIDE DEF days
    <3>2. e \in Nat /\ p \in Nat /\ e <= p /\ e \in DOMAIN s.day_amounts
      BY <1>2, <1>3, <3>1
    <3> QED  BY <3>1, <3>2 DEF SourceDays
  <2> QED  BY <2>1, <2>2
<1>5. IsFiniteSet(days) /\ IsFiniteSet(rest)
  BY <1>1, DaysFinite, FS_Subset
<1>6. \A d \in days : f[d] \in Int /\ f[d] = MulFloor(LimitCoef, s.day_amounts[d])
  <2> TAKE d \in days
  <2>1. s.day_amounts[d] \in Int
    BY <1>1 DEF IsSource
  <2> QED  BY <2>1, CoefType
<1>7. \A d \in rest : f[d] = g[d]
  OBVIOUS
<1>8. SourceSum(s, days) = MulFloor(LimitCoef, s.prev_days_amount) + SumOver(f, days)
      /\ SourceSum(s, rest) = MulFloor(LimitCoef, s.prev_days_amount) + SumOver(g, rest)
  BY DEF SourceSum
<1>9. MulFloor(LimitCoef, s.prev_days_amount) \in Int
  BY CoefType DEF IsSource
<1>10. SourceBefore(s, end) = SourceSum(s, days) /\ SourceBefore(s, p) = SourceSum(s, rest)
  BY <1>4 DEF SourceBefore
<1> HIDE DEF f, g, days, rest
<1>11. SumOver(f, days) = f[p] + SumOver(f, days \ {p})
  BY <1>2, <1>5, <1>6, SumRemove
<1>12. SumOver(f, rest) = SumOver(g, rest) /\ SumOver(f, rest) \in Int
  <2>1. \A d \in rest : f[d] \in Int
    BY <1>6 DEF rest
  <2> QED  BY <1>5, <1>7, <2>1, SumSame, SumType
<1>13. SourceBefore(s, end) = SourceBefore(s, p) + MulFloor(LimitCoef, s.day_amounts[p])
  BY <1>2, <1>6, <1>8, <1>9, <1>10, <1>11, <1>12 DEF rest
<1> QED  BY <1>2, <1>3, <1>4, <1>13 DEF days, rest

LEMMA SourceStart ==
    ASSUME NEW s, IsSource(s), NEW end, SourceDays(s, end) = {}
    PROVE  SourceBefore(s, end) = MulFloor(LimitCoef, s.prev_days_amount)
<1> DEFINE f == [d \in {} |-> MulFloor(LimitCoef, s.day_amounts[d])]
<1>1. SourceBefore(s, end) = MulFloor(LimitCoef, s.prev_days_amount) + SumOver(f, {})
  BY DEF SourceBefore, SourceSum
<1>2. MulFloor(LimitCoef, s.prev_days_amount) \in Int
  BY CoefType DEF IsSource
<1> HIDE DEF f
<1> QED  BY <1>1, <1>2, SumEmpty

LEMMA FloorOfNothing ==
    ASSUME NEW share \in Int PROVE MulFloor(share, 0) = 0
<1>1. Magnitude(0) = 0
  BY DEF Magnitude
<1>2. share * 0 = 0
  OBVIOUS
<1>3. 0 \div Unit = 0
  BY UnitAssumption
<1> QED  BY <1>1, <1>2, <1>3 DEF MulFloor, Signed

InOrder(s) ==
    /\ \A d \in DOMAIN s.day_amounts : s.prev_day < d
    /\ s.prev_day = 0 => s.prev_days_amount = 0

(* Statistics keep the running totals: what they replace the days before   *)
(* end with adds up, and the days from end on go on from there.            *)
LEMMA ReplaceKeepsTotals ==
    ASSUME NEW days, IsHolder(days), PrefixSums(days), NEW D, Based(days, D),
           NEW end \in Int, NEW source,
           \/ source = NoSource
           \/ IsSource(source) /\ InOrder(source) /\ \A date \in D : source.prev_day <= date
    PROVE  /\ PrefixSums(ReplaceAmount(days, source, end))
           /\ Based(ReplaceAmount(days, source, end), D)
<1>1. CASE source = NoSource
  BY <1>1, FreshDaysTotals DEF ReplaceAmount, Based
<1>2. CASE source # NoSource /\ source.prev_day >= end
  BY <1>2 DEF ReplaceAmount
<1>3. CASE source # NoSource /\ ~(source.prev_day >= end)
  <2> DEFINE fresh == FreshDays(days, end)
             kept == AddPrevDaysAmount(fresh, SourceBefore(source, end))
             prev == IF source.prev_day = 0 THEN {} ELSE {source.prev_day}
             src == SourceDays(source, end)
             all == DOMAIN kept \cup prev \cup src
             new == ReplaceAmount(days, source, end)
             carriedSum == MulFloor(LimitCoef, source.prev_days_amount)
  <2>1. IsSource(source) /\ InOrder(source) /\ \A date \in D : source.prev_day <= date
    BY <1>3
  <2>2. /\ IsHolder(fresh) /\ DOMAIN fresh = {d \in DOMAIN days : d >= end}
        /\ PrefixSums(fresh) /\ NothingCarried(fresh)
    BY FreshDaysType, FreshDaysTotals
  <2>3. \A d : SourceBefore(source, d) \in Int
    BY <2>1, SourceSumType DEF SourceBefore, SourceDays
  <2>4. IsHolder(kept) /\ DOMAIN kept = DOMAIN fresh
    BY <2>2, <2>3, AddPrevDaysAmountType
  <2>5. \A d \in DOMAIN fresh :
            /\ kept[d].amount_before = fresh[d].amount_before + SourceBefore(source, end)
            /\ kept[d].amount = fresh[d].amount
            /\ fresh[d].amount_before \in Int /\ fresh[d].amount \in Int
    <3> TAKE d \in DOMAIN fresh
    <3>1. fresh[d] \in DayAmount
      BY <2>2, HolderType
    <3>2. kept[d] = [fresh[d] EXCEPT !.amount_before = @ + SourceBefore(source, end)]
      BY DEF AddPrevDaysAmount
    <3> HIDE DEF fresh, kept
    <3> QED  BY <3>1, <3>2 DEF DayAmount
  <2>6. new = [d \in all |->
                 IF d \in DOMAIN kept THEN kept[d]
                 ELSE [amount_before |-> SourceBefore(source, d),
                       amount |-> IF d \in prev THEN 0
                                  ELSE MulFloor(LimitCoef, source.day_amounts[d])]]
    BY <1>3 DEF ReplaceAmount
  <2>7. IsHolder(new) /\ DOMAIN new = all
    BY <2>1, <2>6, ReplaceAmountType
  <2>8. source.prev_day \in Int /\ source.prev_day < end /\ all \in SUBSET Nat
    <3>1. Date \subseteq Nat
      BY DateAssumption
    <3> DEFINE first == source.prev_day
    <3>2. first \in Date \cup {0} /\ ~(first >= end)
      BY <1>3, <2>1 DEF IsSource
    <3> HIDE DEF first
    <3>3. first \in Nat /\ first < end
      <4>1. \A x \in Date \cup {0} : x \in Nat
        BY <3>1
      <4> QED  BY <3>2, <4>1
    <3>4. all \in SUBSET Date
      BY <2>7, HolderType
    <3>5. all \in SUBSET Nat
      BY <3>1, <3>4
    <3> QED  BY <3>3, <3>5 DEF first
  <2>9. /\ \A d \in src : source.prev_day < d /\ d < end /\ d \in DOMAIN source.day_amounts
        /\ \A d \in prev : d = source.prev_day
        /\ \A d \in DOMAIN fresh : d >= end
    BY <2>1, <2>2 DEF InOrder, SourceDays
  <2>10. carriedSum \in Int
    BY <2>1, CoefType DEF IsSource
  <2>11. src \in SUBSET Date
    BY <2>1 DEF SourceDays, IsSource
  <2> HIDE DEF fresh, kept, prev, src, new, carriedSum
  (* An entry of the source.                                               *)
  <2>12. \A d \in prev \cup src :
            /\ d \in DOMAIN new
            /\ new[d].amount_before = SourceBefore(source, d)
            /\ new[d].amount = IF d \in prev THEN 0
                               ELSE MulFloor(LimitCoef, source.day_amounts[d])
    <3> TAKE d \in prev \cup src
    <3>1. d \in Nat /\ d < end
      BY <2>8, <2>9
    <3>2. d \notin DOMAIN kept
      BY <2>4, <2>8, <2>9, <3>1
    <3> QED  BY <2>6, <2>7, <3>2
  <2>13. \A d \in DOMAIN fresh : d \in DOMAIN new /\ new[d] = kept[d]
    BY <2>4, <2>6, <2>7
  (* What the entries of the source end with, up to a day.                 *)
  <2>14. ASSUME NEW x \in Int, x <= end, NEW p \in prev \cup SourceDays(source, x),
                \A e \in prev \cup SourceDays(source, x) : e <= p
         PROVE  SourceBefore(source, x) = new[p].amount_before + new[p].amount
    <3>1. SourceDays(source, x) \subseteq src
      <4>1. \A d \in SourceDays(source, x) : d < x /\ d \in Nat /\ d \in DOMAIN source.day_amounts
        BY <2>1, DateAssumption DEF SourceDays, IsSource
      <4>2. \A d \in SourceDays(source, x) : d < end
        BY <2>14, <4>1
      <4> QED  BY <4>1, <4>2 DEF src, SourceDays
    <3>2. CASE SourceDays(source, x) # {}
      <4> DEFINE q == Last(SourceDays(source, x))
      <4>1. /\ q \in DOMAIN source.day_amounts /\ q \in SourceDays(source, x)
            /\ SourceBefore(source, x)
                 = SourceBefore(source, q) + MulFloor(LimitCoef, source.day_amounts[q])
            /\ \A e \in SourceDays(source, x) : e <= q
        BY <2>1, <3>2, SourceStep
      <4> HIDE DEF q
      <4>2. q \in src /\ q \notin prev
        BY <2>8, <2>9, <3>1, <4>1
      <4>3. q \in Nat /\ p \in Nat
        BY <2>8, <3>1, <4>1
      <4>4. q <= p
        BY <2>14, <4>1
      <4>5. p \notin prev
        <5>1. source.prev_day < q
          BY <2>9, <4>2
        <5>2. p \in prev => p = source.prev_day
          BY <2>9
        <5> QED  BY <2>8, <4>3, <4>4, <5>1, <5>2
      <4>6. p <= q
        BY <4>1, <4>5
      <4>7. p = q
        BY <4>3, <4>4, <4>6
      <4>8. /\ new[q].amount_before = SourceBefore(source, q)
            /\ new[q].amount = MulFloor(LimitCoef, source.day_amounts[q])
        <5>1. q \in prev \cup src
          BY <4>2
        <5> QED  BY <2>12, <4>2, <5>1
      <4> QED  BY <4>1, <4>7, <4>8
    <3>3. CASE SourceDays(source, x) = {}
      <4>1. SourceBefore(source, x) = carriedSum
        BY <2>1, <3>3, SourceStart DEF carriedSum
      <4>2. p \in prev /\ p = source.prev_day
        BY <2>9, <3>3
      <4>3. SourceDays(source, p) = {}
        <5>1. \A d \in DOMAIN source.day_amounts : p < d /\ d \in Nat /\ p \in Int
          BY <2>1, <2>8, <4>2, DateAssumption DEF InOrder, IsSource
        <5>2. \A d \in DOMAIN source.day_amounts : ~(d < p)
          BY <5>1
        <5> QED  BY <5>2 DEF SourceDays
      <4>4. SourceBefore(source, p) = carriedSum
        <5>1. p \in Int
          BY <2>8, <4>2
        <5> QED  BY <2>1, <4>3, <5>1, SourceStart DEF carriedSum
      <4>5. new[p].amount_before = carriedSum /\ new[p].amount = 0
        BY <2>12, <4>2, <4>4
      <4> QED  BY <2>10, <4>1, <4>5
    <3> QED  BY <3>2, <3>3
  (* What is in front of an entry.                                         *)
  <2>15. ASSUME NEW d \in prev \cup src
         PROVE  Earlier(new, d) \subseteq prev \cup SourceDays(source, d)
                /\ (d \in src => Earlier(new, d) = prev \cup SourceDays(source, d))
    <3>1. d \in Nat /\ d < end
      BY <2>8, <2>9
    <3>2. ASSUME NEW e \in Earlier(new, d) PROVE e \in prev \cup SourceDays(source, d)
      <4>1. e \in all /\ e < d /\ e \in Nat
        BY <2>7, <2>8, <3>2 DEF Earlier
      <4>2. e \notin DOMAIN kept
        BY <2>4, <2>8, <2>9, <3>1, <4>1
      <4>3. e \in src => e \in SourceDays(source, d)
        BY <4>1 DEF src, SourceDays
      <4> QED  BY <4>1, <4>2, <4>3
    <3>3. ASSUME d \in src, NEW e \in prev \cup SourceDays(source, d)
          PROVE  e \in Earlier(new, d)
      <4>1. e \in prev => e < d
        BY <2>9, <3>3
      <4>2. e \in SourceDays(source, d) => e \in src /\ e < d
        <5> SUFFICES ASSUME e \in SourceDays(source, d) PROVE e \in src /\ e < d
          OBVIOUS
        <5>1. e \in DOMAIN source.day_amounts /\ e < d
          BY DEF SourceDays
        <5>2. e \in Nat
          BY <2>1, <5>1, DateAssumption DEF IsSource
        <5>3. e < end
          BY <3>1, <5>1, <5>2
        <5> QED  BY <5>1, <5>3 DEF src, SourceDays
      <4> QED  BY <2>7, <3>3, <4>1, <4>2 DEF Earlier
    <3> QED  BY <3>2, <3>3
  <2>16. ASSUME NEW d \in DOMAIN fresh
         PROVE  Earlier(new, d) = Earlier(fresh, d) \cup prev \cup src
    <3>1. d \in Nat /\ d >= end
      BY <2>4, <2>8, <2>9
    <3>2. \A e \in prev \cup src : e \in Nat /\ e < end /\ e < d
      BY <2>8, <2>9, <3>1
    <3> QED  BY <2>4, <2>7, <3>2 DEF Earlier
  <2>17. SourceDays(source, end) = src
    BY DEF src
  <2>18. PrefixSums(new)
    <3> SUFFICES ASSUME NEW d \in DOMAIN new, Earlier(new, d) # {}
                 PROVE  new[d].amount_before = new[Last(Earlier(new, d))].amount_before
                                               + new[Last(Earlier(new, d))].amount
      BY DEF PrefixSums
    <3> DEFINE p == Last(Earlier(new, d))
    <3>1. p \in Earlier(new, d) /\ p \in DOMAIN new /\ p < d /\ \A e \in Earlier(new, d) : e <= p
      BY <2>7, EarlierLast DEF Earlier
    <3> HIDE DEF p
    <3>2. d \in Nat /\ p \in Nat
      BY <2>7, <2>8, <3>1
    <3>3. CASE d \in src
      <4>1. d < end
        BY <2>9, <3>3
      <4>2. p \in prev \cup SourceDays(source, d)
            /\ \A e \in prev \cup SourceDays(source, d) : e <= p
        BY <2>15, <3>1, <3>3
      <4>3. SourceBefore(source, d) = new[p].amount_before + new[p].amount
        BY <2>14, <3>2, <4>1, <4>2
      <4> QED  BY <2>12, <3>3, <4>3 DEF p
    <3>4. CASE d \in prev /\ d \notin src
      <4>1. p \in prev \cup SourceDays(source, d)
        BY <2>15, <3>1, <3>4
      <4>2. p \notin prev
        BY <2>9, <3>1, <3>2, <3>4
      <4>3. p \in DOMAIN source.day_amounts /\ d = source.prev_day
        BY <2>9, <3>4, <4>1, <4>2 DEF SourceDays
      <4>4. d < p
        BY <2>1, <4>3 DEF InOrder
      <4> QED  BY <3>1, <3>2, <4>4
    <3>5. CASE d \in DOMAIN fresh
      <4>1. d \in Nat /\ d >= end
        BY <2>9, <3>2, <3>5
      <4>2. CASE Earlier(fresh, d) # {}
        <5> DEFINE q == Last(Earlier(fresh, d))
        <5>1. q \in Earlier(fresh, d) /\ q \in DOMAIN fresh /\ q < d
              /\ \A e \in Earlier(fresh, d) : e <= q
          BY <2>2, <4>2, EarlierLast DEF Earlier
        <5> HIDE DEF q
        <5>2. q \in Earlier(new, d) /\ q \in Nat /\ q >= end
          BY <2>4, <2>8, <2>9, <2>16, <3>5, <5>1
        <5>3. q <= p
          BY <3>1, <5>2
        <5>4. p \in Earlier(fresh, d)
          <6>1. \A e \in prev \cup src : e \in Nat /\ e < end
            BY <2>8, <2>9
          <6>2. p \notin prev \cup src
            BY <3>2, <5>2, <5>3, <6>1
          <6> QED  BY <2>16, <3>1, <3>5, <6>2
        <5>5. p = q
          BY <3>2, <5>1, <5>2, <5>3, <5>4
        <5>6. fresh[d].amount_before = fresh[q].amount_before + fresh[q].amount
          BY <2>2, <3>5, <4>2 DEF PrefixSums, q
        <5>7. new[d].amount_before = new[q].amount_before + new[q].amount
          <6>1. new[d] = kept[d] /\ new[q] = kept[q]
            BY <2>13, <3>5, <5>1
          <6>2. SourceBefore(source, end) \in Int
            BY <2>3
          <6> QED  BY <2>5, <3>5, <5>1, <5>6, <6>1, <6>2
        <5> QED  BY <5>5, <5>7 DEF p
      <4>3. CASE Earlier(fresh, d) = {}
        <5>1. p \in prev \cup src /\ \A e \in prev \cup src : e <= p
          BY <2>16, <3>1, <3>5, <4>3
        <5>2. SourceBefore(source, end) = new[p].amount_before + new[p].amount
          BY <2>14, <2>17, <5>1
        <5>3. fresh[d].amount_before = 0
          BY <2>2, <3>5, <4>3 DEF NothingCarried
        <5>4. new[d].amount_before = SourceBefore(source, end)
          BY <2>3, <2>5, <2>13, <3>5, <5>3
        <5> QED  BY <5>2, <5>4 DEF p
      <4> QED  BY <4>2, <4>3
    <3> QED  BY <2>4, <2>7, <3>3, <3>4, <3>5
  <2>19. CASE source.prev_day # 0
    <3>1. source.prev_day \in DOMAIN new
      BY <2>7, <2>19 DEF prev
    <3> QED  BY <2>1, <2>18, <3>1 DEF Based, new
  <2>20. CASE source.prev_day = 0
    <3>1. carriedSum = 0
      <4>1. source.prev_days_amount = 0
        BY <2>1, <2>20 DEF InOrder
      <4>2. LimitCoef \in Int
        BY UnitAssumption DEF LimitCoef
      <4> QED  BY <4>1, <4>2, FloorOfNothing DEF carriedSum
    <3>2. prev = {}
      BY <2>20 DEF prev
    <3>3. NothingCarried(new)
      <4> SUFFICES ASSUME NEW d \in DOMAIN new, Earlier(new, d) = {}
                   PROVE  new[d].amount_before = 0
        BY DEF NothingCarried
      <4>1. CASE d \in src
        <5>1. SourceDays(source, d) = {} /\ d \in Int
          BY <2>7, <2>8, <2>15, <4>1
        <5>2. SourceBefore(source, d) = 0
          BY <2>1, <3>1, <5>1, SourceStart DEF carriedSum
        <5> QED  BY <2>12, <4>1, <5>2
      <4>2. CASE d \in DOMAIN fresh
        <5>1. src = {} /\ Earlier(fresh, d) = {}
          BY <2>16, <4>2
        <5>2. SourceBefore(source, end) = 0
          BY <2>1, <2>17, <3>1, <5>1, SourceStart DEF carriedSum
        <5>3. fresh[d].amount_before = 0
          BY <2>2, <4>2, <5>1 DEF NothingCarried
        <5> QED  BY <2>5, <2>13, <4>2, <5>2, <5>3
      <4> QED  BY <2>4, <2>7, <3>2, <4>1, <4>2
    <3> QED  BY <2>18, <3>3 DEF Based, new
  <2> QED  BY <2>19, <2>20
<1> QED  BY <1>1, <1>2, <1>3

-----------------------------------------------------------------------------
(* What is saved of a holder is the holder.  The days are loaded in their  *)
(* order; each then starts where the sum of those before it ends.          *)

IsLoad(g, am, S) ==
    g = [T \in SUBSET S |->
            IF T = {} THEN NoDays ELSE AddAmount(g[T \ {Last(T)}], Last(T), am[Last(T)])]

Before(am, T, d) == SumOver(am, {e \in T : e < d})

Booked(am, T) == [d \in T |-> [amount_before |-> Before(am, T, d), amount |-> am[d]]]

LEMMA LoadedIs ==
    ASSUME NEW file
    PROVE  Loaded(file) = (CHOOSE g : IsLoad(g, file.amounts, DOMAIN file.amounts))
                              [DOMAIN file.amounts]
BY DEF Loaded, IsLoad

LEMMA BeforeType ==
    ASSUME NEW S \in SUBSET Date, NEW am \in [S -> Int], NEW T \in SUBSET S, NEW d
    PROVE  Before(am, T, d) \in Int
<1>1. IsFiniteSet({e \in T : e < d})
  <2>1. {e \in T : e < d} \in SUBSET Date
    OBVIOUS
  <2> QED  BY <2>1, DaysFinite
<1>2. \A x \in {e \in T : e < d} : am[x] \in Int
  OBVIOUS
<1> QED  BY <1>1, <1>2, SumType DEF Before

LEMMA BookedType ==
    ASSUME NEW S \in SUBSET Date, NEW am \in [S -> Int], NEW T \in SUBSET S
    PROVE  IsHolder(Booked(am, T)) /\ DOMAIN Booked(am, T) = T
<1>1. \A d \in T : Before(am, T, d) \in Int /\ am[d] \in Int
  BY BeforeType
<1>2. Booked(am, T) \in [T -> DayAmount] /\ T \in SUBSET Date
  BY <1>1 DEF Booked, DayAmount
<1> QED  BY <1>2, HolderIs

(* The sum before a day that has a day before it.                          *)
LEMMA BeforeStep ==
    ASSUME NEW S \in SUBSET Date, NEW am \in [S -> Int], NEW T \in SUBSET S, NEW d \in Date,
           NEW p \in T, p < d, \A e \in T : e < d => e <= p
    PROVE  Before(am, T, d) = Before(am, T, p) + am[p]
<1> DEFINE U == {e \in T : e < d}
           V == {e \in T : e < p}
<1>1. \A e \in T : e \in Nat
  BY DateAssumption
<1>2. d \in Nat
  BY DateAssumption
<1>3. p \in U /\ V = U \ {p}
  <2>1. p \in Nat /\ \A e \in T : e < p => e < d /\ e # p
    BY <1>1, <1>2
  <2>2. \A e \in T : e < d /\ e # p => e < p
    <3> TAKE e \in T
    <3> HAVE e < d /\ e # p
    <3>1. e <= p /\ e \in Nat
      BY <1>1
    <3> QED  BY <2>1, <3>1
  <2> QED  BY <2>1, <2>2
<1>4. IsFiniteSet(U) /\ \A x \in U : am[x] \in Int
  <2>1. U \in SUBSET Date
    OBVIOUS
  <2> QED  BY <2>1, DaysFinite
<1>5. SumOver(am, V) \in Int /\ am[p] \in Int
  BY BeforeType DEF Before
<1> HIDE DEF U, V
<1>6. SumOver(am, U) = am[p] + SumOver(am, V)
  BY <1>3, <1>4, SumRemove
<1>7. SumOver(am, U) = SumOver(am, V) + am[p]
  BY <1>5, <1>6
<1> QED  BY <1>7 DEF Before, U, V

(* An amount for a day after all that a holder has.                        *)
LEMMA AddLastAmount ==
    ASSUME NEW days, IsHolder(days), NEW date \in Date, NEW amount \in Int,
           \A d \in DOMAIN days : d < date,
           NEW after, after = AddAmount(days, date, amount)
    PROVE  /\ after = [d \in DOMAIN days \cup {date} |-> after[d]]
           /\ after[date].amount_before = AmountBefore(days, date)
           /\ after[date].amount = amount
           /\ \A d \in DOMAIN days : after[d] = days[d]
           /\ after[date] = [amount_before |-> after[date].amount_before,
                             amount |-> after[date].amount]
<1>1. date \notin DOMAIN days /\ AmountOf(days, date) + amount = amount
  <2>1. date \in Int
    BY DateAssumption
  <2>2. date \notin DOMAIN days
    BY <2>1
  <2> QED  BY <2>2 DEF AmountOf
<1>2. \A d \in DOMAIN days : d \in Nat /\ days[d] \in DayAmount
  BY HolderType, DateAssumption
<1>3. after = [d \in DOMAIN days \cup {date} |-> after[d]]
  BY DEF AddAmount
<1>4. /\ after[date] = [amount_before |-> AmountBefore(days, date),
                        amount |-> AmountOf(days, date) + amount]
      /\ \A d \in DOMAIN days : d # date =>
            after[d] = [days[d] EXCEPT !.amount_before = IF d > date THEN @ + amount ELSE @]
  BY DEF AddAmount
<1>5. after[date] = [amount_before |-> AmountBefore(days, date), amount |-> amount]
  BY <1>1, <1>4
<1>6. \A d \in DOMAIN days : after[d] = days[d]
  <2> TAKE d \in DOMAIN days
  <2>1. ~(d > date) /\ d # date
    <3>1. date \in Int /\ d \in Nat /\ d < date
      BY <1>2, DateAssumption
    <3> QED  BY <3>1
  <2>2. after[d] = [days[d] EXCEPT !.amount_before = @]
    BY <1>4, <2>1
  <2> QED  BY <1>2, <2>2 DEF DayAmount
<1> QED  BY <1>3, <1>5, <1>6

LEMMA BookedStep ==
    ASSUME NEW S \in SUBSET Date, NEW am \in [S -> Int], NEW T \in SUBSET S, T # {},
           NEW l, l = Last(T)
    PROVE  Booked(am, T) = AddAmount(Booked(am, T \ {l}), l, am[l])
<1> DEFINE D == T \ {l}
           h == Booked(am, D)
           new == AddAmount(h, l, am[l])
<1>1. l \in T /\ (\A e \in T : e <= l) /\ l \in Date
  BY LastResult
<1>2. \A e \in T : e \in Nat
  BY DateAssumption
<1>3. \A e \in D : e < l
  BY <1>1, <1>2
<1>4. D \in SUBSET S
  OBVIOUS
<1>5. IsHolder(h) /\ DOMAIN h = D
  BY <1>4, BookedType
<1>6. am[l] \in Int
  BY <1>1
<1>7. /\ new = [d \in D \cup {l} |-> new[d]]
      /\ new[l] = [amount_before |-> AmountBefore(h, l), amount |-> am[l]]
      /\ \A d \in D : new[d] = h[d]
  <2>1. \A d \in DOMAIN h : d < l
    BY <1>3, <1>5
  <2> DEFINE a == am[l]
  <2>2. new = AddAmount(h, l, a) /\ a \in Int
    BY <1>6
  <2> HIDE DEF h, D, a, new
  <2>3. /\ new = [d \in DOMAIN h \cup {l} |-> new[d]]
        /\ new[l].amount_before = AmountBefore(h, l)
        /\ new[l].amount = a
        /\ \A d \in DOMAIN h : new[d] = h[d]
        /\ new[l] = [amount_before |-> new[l].amount_before, amount |-> new[l].amount]
    BY <1>1, <1>5, <2>1, <2>2, AddLastAmount
  <2> QED  BY <1>5, <2>3 DEF a
<1>8. \A d \in D : /\ h[d].amount_before = Before(am, D, d) /\ h[d].amount = am[d]
                   /\ h[d] = [amount_before |-> Before(am, D, d), amount |-> am[d]]
  BY DEF Booked
<1> HIDE DEF h, new
<1>9. Before(am, D, l) = AmountBefore(h, l)
  <2>1. Earlier(h, l) = D /\ l \notin DOMAIN h
    BY <1>3, <1>5 DEF Earlier
  <2>2. CASE D = {}
    <3>1. {e \in D : e < l} = {}
      BY <2>2
    <3>2. Before(am, D, l) = 0
      BY <3>1, SumEmpty DEF Before
    <3> QED  BY <2>1, <2>2, <3>2 DEF AmountBefore
  <2>3. CASE D # {}
    <3> DEFINE p == Last(D)
    <3>1. p \in D /\ \A e \in D : e <= p
      BY <2>3, LastResult
    <3> HIDE DEF p, D
    <3>2. p < l /\ \A e \in D : e < l => e <= p
      BY <1>3, <3>1
    <3>3. Before(am, D, l) = Before(am, D, p) + am[p]
      BY <1>1, <1>4, <3>1, <3>2, BeforeStep
    <3>4. AmountBefore(h, l) = h[p].amount_before + h[p].amount
      BY <2>1, <2>3 DEF AmountBefore, p
    <3> QED  BY <1>8, <3>1, <3>3, <3>4
  <2> QED  BY <2>2, <2>3
<1>10. \A d \in T : Before(am, T, d) = Before(am, D, d)
  <2> TAKE d \in T
  <2>1. {e \in T : e < d} = {e \in D : e < d}
    BY <1>1, <1>2
  <2> QED  BY <2>1 DEF Before
<1>11. D \cup {l} = T
  BY <1>1
<1>12. \A d \in T : new[d] = [amount_before |-> Before(am, T, d), amount |-> am[d]]
  <2> TAKE d \in T
  <2>1. CASE d = l
    BY <1>7, <1>9, <1>10, <1>11, <2>1
  <2>2. CASE d # l
    BY <1>7, <1>8, <1>10, <1>11, <2>2
  <2> QED  BY <2>1, <2>2
<1>13. new = [d \in T |-> new[d]]
  BY <1>7, <1>11
<1>14. new = Booked(am, T)
  BY <1>12, <1>13 DEF Booked
<1> QED  BY <1>14 DEF new, h

LEMMA LoadStep ==
    ASSUME NEW am, NEW S, NEW g, IsLoad(g, am, S), NEW T \in SUBSET S
    PROVE  /\ T = {} => g[T] = NoDays
           /\ T # {} => g[T] = AddAmount(g[T \ {Last(T)}], Last(T), am[Last(T)])
BY DEF IsLoad

LEMMA LoadedIsBooked ==
    ASSUME NEW file, DOMAIN file.amounts \in SUBSET Date,
           file.amounts \in [DOMAIN file.amounts -> Int]
    PROVE  Loaded(file) = Booked(file.amounts, DOMAIN file.amounts)
<1> DEFINE am == file.amounts
           S == DOMAIN file.amounts
           c == [T \in SUBSET S |-> Booked(am, T)]
<1>1. Booked(am, {}) = NoDays
  BY DEF Booked, NoDays
<1>2. IsLoad(c, am, S)
  <2>1. ASSUME NEW T \in SUBSET S
        PROVE  Booked(am, T) = IF T = {} THEN NoDays
                               ELSE AddAmount(c[T \ {Last(T)}], Last(T), am[Last(T)])
    <3>1. CASE T = {}
      BY <1>1, <3>1
    <3>2. CASE T # {}
      <4>1. Booked(am, T) = AddAmount(Booked(am, T \ {Last(T)}), Last(T), am[Last(T)])
        BY <3>2, BookedStep
      <4>2. c[T \ {Last(T)}] = Booked(am, T \ {Last(T)})
        OBVIOUS
      <4> QED  BY <3>2, <4>1, <4>2
    <3> QED  BY <3>1, <3>2
  <2>2. c = [T \in SUBSET S |-> IF T = {} THEN NoDays
                                ELSE AddAmount(c[T \ {Last(T)}], Last(T), am[Last(T)])]
    BY <2>1
  <2> HIDE DEF c
  <2> QED  BY <2>2 DEF IsLoad
<1>3. PICK g : g = CHOOSE f : IsLoad(f, am, S)
  OBVIOUS
<1>4. IsLoad(g, am, S)
  BY <1>2, <1>3
<1>5. g[S] = Booked(am, S)
  <2> DEFINE Failing == {T \in SUBSET S : g[T] # Booked(am, T)}
  <2>1. SUFFICES ASSUME Failing # {} PROVE FALSE
    OBVIOUS
  <2>2. Failing \in SUBSET (SUBSET S) /\ IsFiniteSet(S)
    BY DaysFinite
  <2>3. PICK T \in Failing : \A U \in SUBSET T : U # T => U \notin Failing
    <3> HIDE DEF Failing
    <3> QED  BY <2>1, <2>2, SmallestSubset
  <2>4. T # {}
    <3>1. {} \in SUBSET S
      OBVIOUS
    <3>2. g[{}] = NoDays
      BY <1>4, <3>1, LoadStep
    <3>3. g[T] # Booked(am, T)
      BY <2>3
    <3> HIDE DEF am
    <3> QED  BY <1>1, <3>2, <3>3
  <2>5. Last(T) \in T
    BY <2>4, LastResult
  <2>6. g[T \ {Last(T)}] = Booked(am, T \ {Last(T)})
    BY <2>3, <2>5
  <2>7. g[T] = AddAmount(g[T \ {Last(T)}], Last(T), am[Last(T)])
    BY <1>4, <2>4, LoadStep
  <2>8. Booked(am, T) = AddAmount(Booked(am, T \ {Last(T)}), Last(T), am[Last(T)])
    BY <2>4, BookedStep
  <2> QED  BY <2>3, <2>6, <2>7, <2>8
<1> QED  BY <1>3, <1>5, LoadedIs

(* Running totals are the sum in front of the first day and the sum of the *)
(* days since.                                                             *)
LEMMA TotalsAreSums ==
    ASSUME NEW days, IsHolder(days), PrefixSums(days),
           NEW am \in [DOMAIN days -> Int], \A d \in DOMAIN days : am[d] = days[d].amount
    PROVE  \A d \in DOMAIN days :
               days[d].amount_before
                 = Before(am, DOMAIN days, d) + days[First(DOMAIN days)].amount_before
<1> DEFINE S == DOMAIN days
           first == days[First(S)].amount_before
           Failing == {d \in S : days[d].amount_before # Before(am, S, d) + first}
<1>1. S \in SUBSET Date /\ S \in SUBSET Nat /\ days \in [S -> DayAmount]
  BY HolderType, DateAssumption
<1>2. SUFFICES ASSUME Failing # {} PROVE FALSE
  OBVIOUS
<1>3. PICK d \in Failing : \A e \in Failing : d <= e
  <2>1. Failing \in SUBSET Nat
    BY <1>1
  <2> HIDE DEF Failing
  <2> QED  BY <1>2, <2>1, Smallest
<1>4. d \in S /\ d \in Nat /\ d \in Date
  BY <1>1
<1>5. First(S) \in S /\ \A e \in S : First(S) <= e
  BY <1>1, <1>4, FirstResult
<1>6. first \in Int
  BY <1>1, <1>5 DEF DayAmount
<1>7. \A e \in S : days[e].amount_before \in Int /\ days[e].amount \in Int
  BY <1>1 DEF DayAmount
<1>8. CASE Earlier(days, d) = {}
  <2>1. {e \in S : e < d} = {}
    BY <1>8 DEF Earlier
  <2>2. Before(am, S, d) = 0
    BY <2>1, SumEmpty DEF Before
  <2>3. First(S) = d
    <3>1. ~(First(S) < d) /\ First(S) <= d /\ First(S) \in Nat
      BY <1>1, <1>4, <1>5, <2>1
    <3> DEFINE n == First(S)
    <3>2. ~(n < d) /\ n <= d /\ n \in Nat
      BY <3>1
    <3> HIDE DEF n
    <3>3. n = d
      BY <1>4, <3>2
    <3> QED  BY <3>3 DEF n
  <2>4. days[d].amount_before = Before(am, S, d) + first
    <3>1. days[d].amount_before = first
      BY <2>3
    <3> HIDE DEF first
    <3> QED  BY <1>6, <2>2, <3>1
  <2> QED  BY <1>3, <2>4
<1>9. CASE Earlier(days, d) # {}
  <2> DEFINE p == Last(Earlier(days, d))
  <2>1. p \in S /\ p < d /\ \A e \in Earlier(days, d) : e <= p
    BY <1>9, EarlierLast
  <2>2. days[d].amount_before = days[p].amount_before + days[p].amount
    BY <1>4, <1>9 DEF PrefixSums
  <2> HIDE DEF p, first
  <2>3. p \notin Failing
    <3>1. p \in Nat
      BY <1>1, <2>1
    <3>2. ~(d <= p)
      BY <1>4, <2>1, <3>1
    <3> QED  BY <1>3, <3>2
  <2>4. days[p].amount_before = Before(am, S, p) + first
    BY <2>1, <2>3
  <2>5. Before(am, S, d) = Before(am, S, p) + am[p]
    <3>1. \A e \in S : e < d => e <= p
      BY <2>1 DEF Earlier
    <3>2. S \in SUBSET S
      OBVIOUS
    <3> QED  BY <1>1, <1>4, <2>1, <3>1, <3>2, BeforeStep
  <2>6. Before(am, S, p) \in Int /\ am[p] = days[p].amount
    BY <1>1, <2>1, BeforeType
  <2>7. days[d].amount_before = Before(am, S, d) + first
    <3>1. days[p].amount_before \in Int /\ days[p].amount \in Int
      BY <1>7, <2>1
    <3> QED  BY <1>6, <2>2, <2>4, <2>5, <2>6, <3>1
  <2> QED  BY <1>3, <2>7
<1> QED  BY <1>8, <1>9

(* The dump of a holder whose running totals add up holds all of it, with  *)
(* only the first amount_before: what is loaded from it is the holder.     *)
THEOREM SavedIsLoaded ==
    ASSUME NEW days, IsHolder(days), PrefixSums(days)
    PROVE  LoadHolder(SaveHolder(days)) = days
<1> DEFINE file == SaveHolder(days)
           S == DOMAIN days
           am == [d \in S |-> days[d].amount]
           first == days[First(S)].amount_before
           loaded == Loaded(file)
<1>1. S \in SUBSET Date /\ S \in SUBSET Nat /\ days \in [S -> DayAmount]
  BY HolderType, DateAssumption
<1>2. am \in [S -> Int] /\ DOMAIN am = S /\ \A d \in S : am[d] = days[d].amount
  BY <1>1 DEF DayAmount
<1>3. file.amounts = am /\ file.before = IF S = {} THEN 0 ELSE first
  BY DEF SaveHolder
<1> HIDE DEF file, am
<1>4. loaded = Booked(am, S)
  BY <1>1, <1>2, <1>3, LoadedIsBooked
<1>5. LoadHolder(file) = [d \in DOMAIN loaded |->
                             [loaded[d] EXCEPT !.amount_before = @ + file.before]]
  BY DEF LoadHolder, AddPrevDaysAmount
<1>6. DOMAIN loaded = S
      /\ \A d \in S : loaded[d] = [amount_before |-> Before(am, S, d), amount |-> am[d]]
  <2> HIDE DEF S
  <2> QED  BY <1>4 DEF Booked
<1> HIDE DEF loaded
<1>7. ASSUME NEW d \in S
      PROVE  [loaded[d] EXCEPT !.amount_before = @ + file.before] = days[d]
  <2>1. days[d].amount_before = Before(am, S, d) + first
    BY <1>2, <1>7, TotalsAreSums
  <2>2. file.before = first
    BY <1>3, <1>7
  <2>3. loaded[d] = [amount_before |-> Before(am, S, d), amount |-> days[d].amount]
    BY <1>2, <1>6, <1>7
  <2>4. days[d] \in DayAmount
    BY <1>1, <1>7
  <2> HIDE DEF first
  <2>5. [loaded[d] EXCEPT !.amount_before = @ + file.before]
          = [amount_before |-> Before(am, S, d) + first, amount |-> days[d].amount]
    BY <2>2, <2>3
  <2> QED  BY <2>1, <2>4, <2>5 DEF DayAmount
<1>8. days = [d \in S |-> days[d]]
  BY <1>1
<1>9. LoadHolder(file) = days
  BY <1>5, <1>6, <1>7, <1>8
<1> QED  BY <1>9 DEF file

-----------------------------------------------------------------------------
(* The running totals of all the books.                                    *)

TotalsInv ==
    \A level \in Level, id \in Id :
        /\ PrefixSums(books[level][id])
        /\ Based(books[level][id], BidDays(level, id))

LEMMA NoDaysTotals ==
    ASSUME NEW D PROVE PrefixSums(NoDays) /\ Based(NoDays, D)
BY NoDaysType DEF PrefixSums, Based, NothingCarried

(* A call books on one of the days its bid may come for.                   *)
LEMMA BookedBidDay ==
    ASSUME TypeInv, LimitsKnown, NEW b \in Bids, NEW level \in Level
    PROVE  AdvDate(call[b].limits[level], b.time) \in BidDays(level, EntityId(b, level))
<1> DEFINE id == EntityId(b, level)
           bids == {c \in Bids : EntityId(c, level) = id}
<1>1. PICK limits : limits = call[b].limits[level]
  OBVIOUS
<1>2. OffsetKnown(level, id, limits)
  BY <1>1 DEF LimitsKnown
<1>3. limits # None
  <2>1. call[b].limits \in LimitsType
    BY DEF TypeInv, TypeOK, CallType
  <2>2. limits \in AnyLimits
    BY <1>1, <2>1 DEF LimitsType
  <2> QED  BY <2>2, NoneAssumption DEF AnyLimits
<1>4. PICK known \in KnownLimits(level, id) : limits.time_offset = known.time_offset
  BY <1>2, <1>3 DEF OffsetKnown
<1>5. AdvDate(limits, b.time) = AdvDate(known, b.time)
  BY <1>4 DEF AdvDate
<1>6. b \in bids
  OBVIOUS
<1> HIDE DEF bids
<1>7. AdvDate(known, b.time) \in {AdvDate(l, c.time) : l \in KnownLimits(level, id), c \in bids}
  BY <1>4, <1>6
<1> QED  BY <1>1, <1>5, <1>7 DEF BidDays, bids

LEMMA BookTotals ==
    ASSUME TypeInv, LimitsKnown, TotalsInv, NEW b \in Bids, NEW l \in Level, NEW amount \in Int,
           Book(b, l, amount)
    PROVE  TotalsInv'
<1> DEFINE date == AdvDate(call[b].limits[l], b.time)
           entity == EntityId(b, l)
           new == AddAmount(books[l][entity], date, amount)
           D == BidDays(l, entity)
<1>1. /\ books = [k \in Level |-> [i \in Id |-> books[k][i]]]
      /\ \A k \in Level, i \in Id : IsHolder(books[k][i])
  BY DEF TypeInv, TypeOK, AreBooks
<1>2. entity \in Id /\ date \in Date
  BY BidType DEF TypeInv, CallDates
<1>3. date \in D
  BY BookedBidDay
<1>4. PrefixSums(books[l][entity]) /\ Based(books[l][entity], D) /\ IsHolder(books[l][entity])
  BY <1>1, <1>2 DEF TotalsInv
<1> HIDE DEF date, D, entity
<1>5. PrefixSums(new) /\ Based(new, D)
  BY <1>2, <1>3, <1>4, AddAmountKeepsBase
<1>6. CASE amount = 0
  BY <1>6 DEF Book, TotalsInv
<1>7. CASE amount # 0
  <2>1. books' = [books EXCEPT ![l][entity] = new]
    BY <1>7 DEF Book, entity, date
  <2> HIDE DEF new
  <2>2. \A k \in Level, i \in Id :
           books'[k][i] = IF k = l /\ i = entity THEN new ELSE books[k][i]
    BY <1>1, <1>2, <2>1
  <2> SUFFICES ASSUME NEW k \in Level, NEW i \in Id
               PROVE  PrefixSums(books'[k][i]) /\ Based(books'[k][i], BidDays(k, i))
    BY DEF TotalsInv
  <2>3. CASE k = l /\ i = entity
    BY <1>5, <2>2, <2>3 DEF D
  <2>4. CASE ~(k = l /\ i = entity)
    <3>1. books'[k][i] = books[k][i]
      BY <2>2, <2>4
    <3> QED  BY <3>1 DEF TotalsInv
  <2> QED  BY <2>3, <2>4
<1> QED  BY <1>6, <1>7

LEMMA ReplaceTotals ==
    ASSUME BidsInHistory, TypeInv, LimitsKnown, TotalsInv, ReplaceAmounts
    PROVE  TotalsInv'
<1> SUFFICES ASSUME NEW level \in Level, NEW id \in Id
             PROVE  PrefixSums(books'[level][id]) /\ Based(books'[level][id], BidDays(level, id))
  BY DEF TotalsInv
<1>1. CASE level # stat.level
  BY <1>1, ReplaceAt DEF TotalsInv
<1>2. CASE level = stat.level
  <2> DEFINE source == stat.source[level][id]
             days == books[level][id]
             D == BidDays(level, id)
  <2>1. PICK limits \in LimitsOf(level) \cup {None} :
           books'[level][id] = ReplaceAmount(days, source, UseSourceEndDate(limits))
    BY <1>2, ReplaceAt
  <2> DEFINE end == UseSourceEndDate(limits)
  <2>2. end \in Int
    BY EndDateType
  <2>3. source = NoSource \/ IsSource(source)
    BY ReplaceAt
  <2>4. stat.source \in Stats
    BY ReplaceAt
  <2>5. source # NoSource => InOrder(source)
    <3>1. \A s \in Stats : s[level][id] # NoSource => InOrder(s[level][id])
      BY StatAssumption DEF InOrder
    <3> QED  BY <2>4, <3>1
  <2>6. source # NoSource => \A date \in D : source.prev_day <= date
    <3>1. \A s \in Stats : s[level][id] # NoSource =>
             \A date \in D : s[level][id].prev_day <= date
      BY DEF BidsInHistory
    <3> HIDE DEF D
    <3> QED  BY <2>4, <3>1
  <2>7. IsHolder(days) /\ PrefixSums(days) /\ Based(days, D)
    BY DEF TypeInv, TypeOK, AreBooks, TotalsInv
  <2>8. books'[level][id] = ReplaceAmount(days, source, end)
    BY <2>1
  <2> HIDE DEF source, days, D, end
  <2>9. /\ PrefixSums(ReplaceAmount(days, source, end))
        /\ Based(ReplaceAmount(days, source, end), D)
    <3>1. \/ source = NoSource
          \/ IsSource(source) /\ InOrder(source) /\ \A date \in D : source.prev_day <= date
      BY <2>3, <2>5, <2>6, Zenon
    <3> QED  BY <2>2, <2>7, <3>1, ReplaceKeepsTotals
  <2> QED  BY <2>8, <2>9 DEF D
<1> QED  BY <1>1, <1>2

LEMMA TotalsStep ==
    ASSUME BidsInHistory, TypeInv, LimitsKnown, TotalsInv, [Next]_vars
    PROVE  TotalsInv'
<1>1. CASE UNCHANGED books
  BY <1>1 DEF TotalsInv
<1>2. ASSUME NEW b \in Bids, CallNext(b) PROVE TotalsInv'
  BY <1>1, <1>2, CallBooks, BookTotals
<1>3. UNCHANGED vars \/ (\E new \in Configs : Config(new))
        \/ (\E source \in Stats : Stat(source)) => UNCHANGED books
  BY DEF vars, Config, Stat
<1> QED  BY <1>1, <1>2, <1>3, ReplaceTotals DEF Next

LEMMA InitTotals == Init => TotalsInv
BY NoDaysTotals DEF Init, TotalsInv

(* In the books of a billing server every day starts where the day before  *)
(* it ended, in whatever order charges, refunds, amounts given back and    *)
(* statistics come, as long as no bid is for a day that the statistics     *)
(* have summed up.                                                         *)
THEOREM RunningTotalsHold ==
    ASSUME BidsInHistory
    PROVE  Spec => [](\A level \in Level, id \in Id : PrefixSums(books[level][id]))
<1>1. TotalsInv => \A level \in Level, id \in Id : PrefixSums(books[level][id])
  BY DEF TotalsInv
<1>2. TypeInv /\ LimitsKnown /\ TotalsInv /\ [Next]_vars => TotalsInv'
  BY TotalsStep
<1> QED  BY <1>1, <1>2, InitTotals, TypeInvariant, LimitsInvariant, PTL DEF Spec

LEMMA NoTraitsKnown ==
    ASSUME NEW b \in Bids, NEW level \in Level
    PROVE  OffsetKnown(level, EntityId(b, level), NoTraits[level])
<1>1. NoTraits[level] = Traits(level) /\ EntityId(b, level) \in Id
  BY BidType DEF NoTraits
<1> QED  BY <1>1, TraitsKnown DEF OffsetKnown

LEMMA InitLimits == Init => LimitsKnown
<1> SUFFICES ASSUME Init PROVE LimitsKnown
  OBVIOUS
<1>1. config = None /\ stat = None /\ \A b \in Bids : call[b].limits = NoTraits
  BY DEF Init, NewCall
<1>2. ASSUME NEW b \in Bids, NEW level \in Level
      PROVE  OffsetKnown(level, EntityId(b, level), NoTraits[level])
  BY NoTraitsKnown
<1> QED  BY <1>1, <1>2 DEF LimitsKnown, OffsetsKnown

-----------------------------------------------------------------------------
(* The process and its storage.                                            *)

GoodBooks(level, id, days) ==
    IsHolder(days) /\ PrefixSums(days) /\ Based(days, BidDays(level, id))

GoodLevel(level, all) ==
    /\ all = [id \in Id |-> all[id]]
    /\ \A id \in Id : GoodBooks(level, id, all[id])

Rates == [Id -> [Id -> Int]]

GoodContent(content) ==
    /\ content = [books |-> content.books, imps |-> content.imps]
    /\ content.books = [level \in Level |-> content.books[level]]
    /\ \A level \in Level : GoodLevel(level, content.books[level])
    /\ content.imps \in Rates

(* The levels whose file is written when the dump has come to a step.      *)
Written(step) ==
    CASE step = "account"  -> {}
      [] step = "campaign" -> {"account"}
      [] step = "ccg"      -> {"account", "campaign"}
      [] OTHER             -> Level

Saving == {"account", "campaign", "ccg", "rates", "rename", "replace"}

ContainerInv == TypeInv /\ LimitsKnown /\ TotalsInv

(* The directory being written holds what a server could be started with.  *)
TmpInv ==
    dump \in Saving =>
        /\ disk["tmp"] = [file \in Level \cup {"rates"} |-> disk["tmp"][file]]
        /\ \A level \in Written(dump) :
              /\ disk["tmp"][level] \in [Id -> HolderFile \cup {None}]
              /\ GoodLevel(level, LoadAmounts(disk["tmp"][level]))
        /\ dump \in {"rename", "replace"} => disk["tmp"]["rates"] \in Rates

(* What a directory has, if it is there.                                   *)
Has(dir) == IF dir = None THEN NoContent ELSE Content(dir)

(* The storage has what the last dump that was completed has saved; between *)
(* the two renames, and after a death there, the copy has.                 *)
RootInv ==
    /\ disk = [dir \in {"root", "tmp", "bak"} |-> disk[dir]]
    /\ disk["root"] # None => GoodContent(Content(disk["root"]))
    /\ GoodContent(dumped)
    /\ IF dump = "replace" \/ process = "broken"
       THEN disk["root"] = None /\ dumped = Has(disk["bak"])
       ELSE dumped = Has(disk["root"])

(* Nothing changes the books any more once the last dump has begun.        *)
LastDumpInv ==
    /\ process \in {"down", "broken", "loaded", "stopping", "dumping", "stopped"}
    /\ dump \in Saving \cup {"idle", "clean"}
    /\ process \in {"down", "broken", "stopped"} => dump = "idle"
    /\ process = "dumping" =>
          /\ Quiet /\ dump # "idle"
          /\ dump \in Saving =>
                \A level \in Written(dump) : LoadAmounts(disk["tmp"][level]) = books[level]
          /\ dump \in {"rename", "replace"} => disk["tmp"]["rates"] = imps
          /\ dump = "clean" => dumped = [books |-> books, imps |-> imps]
    /\ process = "stopped" => dumped = [books |-> books, imps |-> imps]

ServerInv == ContainerInv /\ TmpInv /\ RootInv /\ LastDumpInv

LEMMA SaveHolderType ==
    ASSUME NEW days, IsHolder(days)
    PROVE  SaveHolder(days) \in HolderFile /\ SaveHolder(days) # None
<1>1. DOMAIN days \in SUBSET Date /\ DOMAIN days \in SUBSET Nat
      /\ days \in [DOMAIN days -> DayAmount]
  BY HolderType, DateAssumption
<1> DEFINE am == [d \in DOMAIN days |-> days[d].amount]
           before == IF DOMAIN days = {} THEN 0 ELSE days[First(DOMAIN days)].amount_before
<1>2. am \in [DOMAIN days -> Int]
  BY <1>1 DEF DayAmount
<1>3. before \in Int
  <2>1. DOMAIN days # {} => First(DOMAIN days) \in DOMAIN days
    BY <1>1, FirstResult
  <2> QED  BY <1>1, <2>1 DEF DayAmount
<1>4. SaveHolder(days) = [amounts |-> am, before |-> before]
  BY DEF SaveHolder
<1>5. am \in UNION {[S -> Int] : S \in SUBSET Date}
  <2> HIDE DEF am
  <2> QED  BY <1>1, <1>2
<1> HIDE DEF am, before
<1>6. SaveHolder(days) \in HolderFile
  BY <1>3, <1>4, <1>5 DEF HolderFile
<1> QED  BY <1>6, FileAssumption

(* The file of a level holds all of the level.                             *)
LEMMA SaveAmountsResult ==
    ASSUME NEW level, NEW all, GoodLevel(level, all)
    PROVE  /\ SaveAmounts(all) \in [Id -> HolderFile \cup {None}]
           /\ LoadAmounts(SaveAmounts(all)) = all
<1> DEFINE file == SaveAmounts(all)
<1>1. \A id \in Id : IsHolder(all[id]) /\ PrefixSums(all[id])
  BY DEF GoodLevel, GoodBooks
<1>2. \A id \in Id : SaveHolder(all[id]) \in HolderFile /\ SaveHolder(all[id]) # None
                     /\ LoadHolder(SaveHolder(all[id])) = all[id]
  BY <1>1, SaveHolderType, SavedIsLoaded
<1>3. file = [id \in Id |-> IF all[id] = NoDays THEN None ELSE SaveHolder(all[id])]
  BY DEF SaveAmounts
<1>4. file \in [Id -> HolderFile \cup {None}]
  BY <1>2, <1>3
<1> HIDE DEF file
<1>5. \A id \in Id : (IF file[id] = None THEN NoDays ELSE LoadHolder(file[id])) = all[id]
  BY <1>2, <1>3
<1>6. all = [id \in Id |-> all[id]]
  BY DEF GoodLevel
<1>7. LoadAmounts(file) = all
  BY <1>5, <1>6 DEF LoadAmounts
<1> QED  BY <1>4, <1>7 DEF file

LEMMA BooksAreGood ==
    ASSUME ContainerInv
    PROVE  /\ books = [level \in Level |-> books[level]]
           /\ \A level \in Level : GoodLevel(level, books[level])
           /\ imps \in Rates
<1>1. AreBooks(books) /\ imps \in Rates
  BY DEF ContainerInv, TypeInv, TypeOK, Rates
<1>2. books = [level \in Level |-> books[level]]
      /\ \A level \in Level : books[level] = [id \in Id |-> books[level][id]]
  BY <1>1 DEF AreBooks
<1> QED  BY <1>1, <1>2 DEF AreBooks, GoodLevel, GoodBooks, ContainerInv, TotalsInv

LEMMA NoContentIsGood == GoodContent(NoContent)
<1>1. \A level \in Level, id \in Id : GoodBooks(level, id, NoDays)
  BY NoDaysType, NoDaysTotals DEF GoodBooks
<1>2. \A level \in Level : GoodLevel(level, [id \in Id |-> NoDays])
  BY <1>1 DEF GoodLevel
<1>3. NoImps \in Rates
  BY DEF NoImps, Rates
<1> QED  BY <1>2, <1>3 DEF GoodContent, NoContent, NoBooks

(* A step of the container.                                                *)
LEMMA ContainerStep ==
    ASSUME BidsInHistory, ContainerInv, [Next]_vars PROVE ContainerInv'
BY NextType, LimitsKnownStep, TotalsStep DEF ContainerInv

LEMMA ContainerStays ==
    ASSUME ContainerInv, UNCHANGED container PROVE ContainerInv'
<1>1. UNCHANGED vars
  BY DEF container, vars
<1>2. TypeInv'
  BY <1>1, NextType DEF ContainerInv
<1>3. LimitsKnown'
  BY <1>1, LimitsKnownStep DEF ContainerInv
<1>4. TotalsInv'
  BY <1>1 DEF ContainerInv, TotalsInv, vars
<1> QED  BY <1>2, <1>3, <1>4 DEF ContainerInv

LEMMA ServerBegins == ServerInit => ServerInv
<1> SUFFICES ASSUME ServerInit PROVE ServerInv
  OBVIOUS
<1>1. Init /\ process = "down" /\ disk = NoDir /\ dump = "idle" /\ dumped = NoContent
  BY DEF ServerInit
<1>2. TypeInv /\ TotalsInv
  BY <1>1, InitType, InitTotals
<1>3. LimitsKnown
  BY <1>1, InitLimits
<1>4. disk = [dir \in {"root", "tmp", "bak"} |-> disk[dir]] /\ disk["root"] = None
  BY <1>1 DEF NoDir
<1>5. RootInv
  BY <1>1, <1>4, NoContentIsGood DEF RootInv, Has
<1>6. TmpInv /\ LastDumpInv
  BY <1>1 DEF TmpInv, LastDumpInv, Saving
<1> QED  BY <1>2, <1>3, <1>5, <1>6 DEF ServerInv, ContainerInv

(* The books that are loaded.                                              *)
LEMMA LoadedBooks ==
    ASSUME RootInv, Load
    PROVE  /\ AreBooks(books') /\ imps' \in Rates
           /\ \A level \in Level, id \in Id : GoodBooks(level, id, books'[level][id])
<1>1. CASE disk["root"] = None
  <2>1. books' = NoContent.books /\ imps' = NoContent.imps
    BY <1>1 DEF Load
  <2>2. GoodContent(NoContent)
    BY NoContentIsGood
  <2> QED  BY <2>1, <2>2 DEF GoodContent, GoodLevel, AreBooks, GoodBooks
<1>2. CASE disk["root"] # None
  <2> DEFINE root == Content(disk["root"])
  <2>1. root.books = books' /\ root.imps = imps'
    BY <1>2 DEF Load
  <2>2. GoodContent(root)
    BY <1>2 DEF RootInv
  <2> HIDE DEF root
  <2> QED  BY <2>1, <2>2 DEF GoodContent, GoodLevel, AreBooks, GoodBooks
<1> QED  BY <1>1, <1>2

LEMMA LoadStepKeeps ==
    ASSUME ServerInv, Load PROVE ServerInv'
<1>1. /\ AreBooks(books') /\ imps' \in Rates
      /\ \A level \in Level, id \in Id : GoodBooks(level, id, books'[level][id])
  BY LoadedBooks DEF ServerInv
<1>2. /\ process \in {"down", "broken"} /\ process' = "loaded"
      /\ dumped' = IF disk["root"] = None THEN NoContent ELSE dumped
      /\ UNCHANGED <<config, call, stat, booked, aborted, disk, dump>>
  BY DEF Load
<1>3. TypeInv'
  BY <1>1, <1>2 DEF ServerInv, ContainerInv, TypeInv, TypeOK, ConfigDates, CallDates, Rates
<1>4. LimitsKnown'
  BY <1>2 DEF ServerInv, ContainerInv, LimitsKnown
<1>5. TotalsInv'
  BY <1>1 DEF TotalsInv, GoodBooks
<1>6. TmpInv'
  BY <1>2 DEF ServerInv, TmpInv
<1>7. RootInv'
  <2>1. dump = "idle"
    BY <1>2 DEF ServerInv, LastDumpInv
  <2>2. GoodContent(dumped')
    BY <1>2, NoContentIsGood DEF ServerInv, RootInv
  <2>3. dumped' = Has(disk["root"])
    BY <1>2, <2>1 DEF ServerInv, RootInv, Has
  <2> QED  BY <1>2, <2>1, <2>2, <2>3 DEF ServerInv, RootInv
<1>8. LastDumpInv'
  BY <1>2 DEF ServerInv, LastDumpInv
<1> QED  BY <1>3, <1>4, <1>5, <1>6, <1>7, <1>8 DEF ServerInv, ContainerInv

(* What only changes the container is no matter for a server that may      *)
(* still be changed.                                                       *)
LEMMA ChangeKeeps ==
    ASSUME ServerInv, ContainerInv', process \in {"loaded", "stopping"},
           UNCHANGED <<process, disk, dump, dumped>>
    PROVE  ServerInv'
<1>1. TmpInv'
  BY DEF ServerInv, TmpInv
<1>2. RootInv'
  BY DEF ServerInv, RootInv
<1>3. LastDumpInv'
  BY DEF ServerInv, LastDumpInv
<1> QED  BY <1>1, <1>2, <1>3 DEF ServerInv

(* A call that is answered makes no more steps.                            *)
LEMMA CallIsOver ==
    ASSUME TypeInv, NEW b \in Bids, CallNext(b) PROVE call[b].pc # "done"
BY DEF CallNext, Begin, ConfirmAccount, ConfirmBid, Skip, ConfirmBidRate, RevertConfirmedBid,
       Confirm, Level

LEMMA ServeKeeps ==
    ASSUME BidsInHistory, ServerInv, NEW b \in Bids, Serve(b) PROVE ServerInv'
<1>1. /\ process \in {"loaded", "stopping", "dumping"} /\ CallNext(b)
      /\ call[b].pc = "new" => process = "loaded"
      /\ UNCHANGED <<process, disk, dump, dumped>>
  BY DEF Serve
<1>2. call[b].pc # "done"
  BY <1>1, CallIsOver DEF ServerInv, ContainerInv
<1>3. process # "dumping"
  BY <1>1, <1>2 DEF ServerInv, LastDumpInv, Quiet
<1>4. ContainerInv'
  BY <1>1, ContainerStep DEF ServerInv, Next
<1> QED  BY <1>1, <1>3, <1>4, ChangeKeeps

LEMMA UpdateConfigKeeps ==
    ASSUME BidsInHistory, ServerInv, NEW new \in Configs, UpdateConfig(new) PROVE ServerInv'
<1>1. process \in {"loaded", "stopping"} /\ Config(new)
      /\ UNCHANGED <<process, disk, dump, dumped>>
  BY DEF UpdateConfig
<1>2. ContainerInv'
  BY <1>1, ContainerStep DEF ServerInv, Next
<1> QED  BY <1>1, <1>2, ChangeKeeps

LEMMA UpdateStatKeeps ==
    ASSUME BidsInHistory, ServerInv, UpdateStat PROVE ServerInv'
<1>1. /\ UNCHANGED <<process, disk, dump, dumped>>
      /\ \/ process \in {"loaded", "stopping"} /\ \E source \in Stats : Stat(source)
         \/ process \in {"loaded", "stopping", "dumping"} /\ ReplaceAmounts
  BY DEF UpdateStat
<1>2. process # "dumping"
  <2>1. ReplaceAmounts => stat # None
    BY DEF ReplaceAmounts
  <2> QED  BY <1>1, <2>1 DEF ServerInv, LastDumpInv, Quiet
<1>3. ContainerInv'
  BY <1>1, ContainerStep DEF ServerInv, Next
<1> QED  BY <1>1, <1>2, <1>3, ChangeKeeps

LEMMA StopKeeps ==
    ASSUME ServerInv, Stop PROVE ServerInv'
<1>1. process = "loaded" /\ process' = "stopping" /\ UNCHANGED <<container, disk, dump, dumped>>
  BY DEF Stop
<1>2. ContainerInv'
  BY <1>1, ContainerStays DEF ServerInv
<1>3. TmpInv'
  BY <1>1 DEF ServerInv, TmpInv
<1>4. RootInv'
  BY <1>1 DEF ServerInv, RootInv
<1>5. LastDumpInv'
  BY <1>1 DEF ServerInv, LastDumpInv
<1> QED  BY <1>2, <1>3, <1>4, <1>5 DEF ServerInv

-----------------------------------------------------------------------------
(* The steps of a dump.                                                    *)

LEMMA DumpRuns ==
    ASSUME ServerInv, dump # "idle" PROVE process \in {"loaded", "stopping", "dumping"}
BY DEF ServerInv, LastDumpInv

LEMMA DiskParts ==
    ASSUME NEW d, d = [dir \in {"root", "tmp", "bak"} |-> d[dir]], NEW x, NEW y
    PROVE  /\ [d EXCEPT !.tmp = x, !.bak = y] = [dir \in {"root", "tmp", "bak"} |->
                  IF dir = "tmp" THEN x ELSE IF dir = "bak" THEN y ELSE d[dir]]
           /\ [d EXCEPT !.root = x, !.tmp = y] = [dir \in {"root", "tmp", "bak"} |->
                  IF dir = "root" THEN x ELSE IF dir = "tmp" THEN y ELSE d[dir]]
           /\ [d EXCEPT !.bak = x, !.root = y] = [dir \in {"root", "tmp", "bak"} |->
                  IF dir = "bak" THEN x ELSE IF dir = "root" THEN y ELSE d[dir]]
           /\ [d EXCEPT !.bak = x] = [dir \in {"root", "tmp", "bak"} |->
                  IF dir = "bak" THEN x ELSE d[dir]]
OBVIOUS

LEMMA DumpBeginKeeps ==
    ASSUME ServerInv, DumpBegin PROVE ServerInv'
<1> DEFINE empty == [file \in Level \cup {"rates"} |-> None]
<1>1. /\ dump = "idle" /\ dump' = "account" /\ UNCHANGED <<container, dumped>>
      /\ \/ process = "loaded" /\ process' = "loaded"
         \/ process = "stopping" /\ Quiet /\ process' = "dumping"
      /\ disk' = [disk EXCEPT !.tmp = empty, !.bak = None]
  BY DEF DumpBegin
<1>2. disk' = [dir \in {"root", "tmp", "bak"} |->
                  IF dir = "tmp" THEN empty ELSE IF dir = "bak" THEN None ELSE disk[dir]]
  <2> HIDE DEF empty
  <2> QED  BY <1>1, DiskParts DEF ServerInv, RootInv
<1>3. disk'["root"] = disk["root"] /\ disk'["tmp"] = empty
      /\ disk' = [dir \in {"root", "tmp", "bak"} |-> disk'[dir]]
  <2> HIDE DEF empty
  <2> QED  BY <1>2
<1>4. ContainerInv'
  BY <1>1, ContainerStays DEF ServerInv
<1>5. TmpInv'
  BY <1>1, <1>3 DEF TmpInv, Written
<1>6. RootInv'
  BY <1>1, <1>3 DEF ServerInv, RootInv
<1>7. LastDumpInv'
  <2>1. Quiet => Quiet'
    BY <1>1 DEF Quiet, container
  <2> QED  BY <1>1, <2>1 DEF ServerInv, LastDumpInv, Written, Saving
<1> QED  BY <1>4, <1>5, <1>6, <1>7 DEF ServerInv

(* A file of the directory being written.                                  *)
LEMMA TmpFile ==
    ASSUME NEW d, d = [dir \in {"root", "tmp", "bak"} |-> d[dir]],
           NEW f, NEW x, f \in Level \cup {"rates"},
           d["tmp"] = [file \in Level \cup {"rates"} |-> d["tmp"][file]],
           NEW after, after = [d EXCEPT !.tmp[f] = x]
    PROVE  /\ after = [dir \in {"root", "tmp", "bak"} |-> after[dir]]
           /\ after["root"] = d["root"] /\ after["bak"] = d["bak"]
           /\ after["tmp"] = [file \in Level \cup {"rates"} |-> after["tmp"][file]]
           /\ after["tmp"][f] = x
           /\ \A file \in Level \cup {"rates"} : file # f => after["tmp"][file] = d["tmp"][file]
<1> DEFINE tmp == [d["tmp"] EXCEPT ![f] = x]
<1>1. /\ tmp = [file \in Level \cup {"rates"} |-> tmp[file]]
      /\ tmp[f] = x
      /\ \A file \in Level \cup {"rates"} : file # f => tmp[file] = d["tmp"][file]
  OBVIOUS
<1>2. after = [d EXCEPT !.tmp = tmp]
  OBVIOUS
<1> HIDE DEF tmp
<1>3. /\ after = [dir \in {"root", "tmp", "bak"} |-> after[dir]]
      /\ after["root"] = d["root"] /\ after["bak"] = d["bak"] /\ after["tmp"] = tmp
  BY <1>2
<1> QED  BY <1>1, <1>3

LEMMA WrittenAfter ==
    ASSUME NEW level \in Level
    PROVE  /\ Written(AfterSave(level)) = Written(level) \cup {level}
           /\ level \notin Written(level) /\ Written(level) \subseteq Level
           /\ level \in Saving /\ AfterSave(level) \in Saving
           /\ AfterSave(level) \notin {"idle", "clean", "rename", "replace"}
           /\ level \notin {"rates", "idle", "clean", "rename", "replace"}
BY DEF Level, Written, AfterSave, Saving

LEMMA DumpAmountsKeeps ==
    ASSUME ServerInv, NEW level \in Level, DumpAmounts(level) PROVE ServerInv'
<1> DEFINE saved == SaveAmounts(books[level])
<1>1. /\ dump = level /\ dump' = AfterSave(level) /\ UNCHANGED <<container, process, dumped>>
      /\ disk' = [disk EXCEPT !.tmp[level] = saved]
  BY DEF DumpAmounts
<1>2. ContainerInv'
  BY <1>1, ContainerStays DEF ServerInv
<1>3. /\ saved \in [Id -> HolderFile \cup {None}] /\ LoadAmounts(saved) = books[level]
      /\ GoodLevel(level, books[level])
  BY BooksAreGood, SaveAmountsResult DEF ServerInv
<1> HIDE DEF saved
<1>4. /\ Written(dump') = Written(dump) \cup {level} /\ Written(dump) \subseteq Level
      /\ dump \in Saving /\ dump' \in Saving
      /\ dump' \notin {"idle", "clean", "rename", "replace"}
      /\ dump \notin {"idle", "clean", "rename", "replace"}
      /\ level \notin Written(dump)
  BY <1>1, WrittenAfter
<1>5. disk["tmp"] = [file \in Level \cup {"rates"} |-> disk["tmp"][file]]
      /\ disk = [dir \in {"root", "tmp", "bak"} |-> disk[dir]]
  BY <1>4 DEF ServerInv, TmpInv, RootInv
<1>6. /\ disk' = [dir \in {"root", "tmp", "bak"} |-> disk'[dir]]
      /\ disk'["root"] = disk["root"]
      /\ disk'["tmp"] = [file \in Level \cup {"rates"} |-> disk'["tmp"][file]]
      /\ disk'["tmp"][level] = saved
      /\ \A file \in Level \cup {"rates"} :
            file # level => disk'["tmp"][file] = disk["tmp"][file]
  BY <1>1, <1>5, TmpFile
<1>7. \A l \in Written(dump') : l # level => l \in Written(dump) /\ l \in Level \cup {"rates"}
  BY <1>4
<1>8. TmpInv'
  <2>1. ASSUME NEW l \in Written(dump')
        PROVE  /\ disk'["tmp"][l] \in [Id -> HolderFile \cup {None}]
               /\ GoodLevel(l, LoadAmounts(disk'["tmp"][l]))
    <3>1. CASE l = level
      BY <1>3, <1>6, <3>1
    <3>2. CASE l # level
      <4>1. l \in Written(dump) /\ disk'["tmp"][l] = disk["tmp"][l]
        BY <1>6, <1>7, <2>1, <3>2
      <4> QED  BY <1>4, <4>1 DEF ServerInv, TmpInv
    <3> QED  BY <3>1, <3>2
  <2> QED  BY <1>4, <1>6, <2>1 DEF TmpInv
<1>9. RootInv'
  BY <1>1, <1>4, <1>6, DumpRuns DEF ServerInv, RootInv
<1>10. LastDumpInv'
  <2>1. process' \in {"loaded", "stopping", "dumping"}
    BY <1>1, <1>4, DumpRuns
  <2>2. ASSUME process' = "dumping" PROVE Quiet'
    BY <1>1, <2>2 DEF ServerInv, LastDumpInv, Quiet, container
  <2>3. ASSUME process' = "dumping", NEW l \in Written(dump')
        PROVE  LoadAmounts(disk'["tmp"][l]) = books'[l]
    <3>0. books' = books
      BY <1>1 DEF container
    <3>1. CASE l = level
      BY <1>3, <1>6, <3>0, <3>1
    <3>2. CASE l # level
      <4>1. l \in Written(dump) /\ disk'["tmp"][l] = disk["tmp"][l]
        BY <1>6, <1>7, <2>3, <3>2
      <4> QED  BY <1>1, <1>4, <2>3, <3>0, <4>1 DEF ServerInv, LastDumpInv
    <3> QED  BY <3>1, <3>2
  <2> QED  BY <1>4, <2>1, <2>2, <2>3 DEF LastDumpInv
<1> QED  BY <1>2, <1>8, <1>9, <1>10 DEF ServerInv

LEMMA DumpRatesKeeps ==
    ASSUME ServerInv, DumpRates PROVE ServerInv'
<1>1. /\ dump = "rates" /\ dump' = "rename" /\ UNCHANGED <<container, process, dumped>>
      /\ disk' = [disk EXCEPT !.tmp["rates"] = imps]
  BY DEF DumpRates
<1>2. ContainerInv'
  BY <1>1, ContainerStays DEF ServerInv
<1>3. imps \in Rates
  BY BooksAreGood DEF ServerInv
<1>4. Written(dump') = Level /\ Written(dump) = Level /\ dump \in Saving /\ dump' \in Saving
  BY <1>1 DEF Written, Saving
<1>5. disk["tmp"] = [file \in Level \cup {"rates"} |-> disk["tmp"][file]]
      /\ disk = [dir \in {"root", "tmp", "bak"} |-> disk[dir]]
  BY <1>4 DEF ServerInv, TmpInv, RootInv
<1>6. /\ disk' = [dir \in {"root", "tmp", "bak"} |-> disk'[dir]]
      /\ disk'["root"] = disk["root"]
      /\ disk'["tmp"] = [file \in Level \cup {"rates"} |-> disk'["tmp"][file]]
      /\ disk'["tmp"]["rates"] = imps
      /\ \A file \in Level : disk'["tmp"][file] = disk["tmp"][file]
  <2>1. \A file \in Level : file # "rates" /\ file \in Level \cup {"rates"}
    BY DEF Level
  <2> QED  BY <1>1, <1>5, <2>1, TmpFile
<1>7. TmpInv'
  <2>1. ASSUME NEW l \in Level
        PROVE  /\ disk'["tmp"][l] \in [Id -> HolderFile \cup {None}]
               /\ GoodLevel(l, LoadAmounts(disk'["tmp"][l]))
    BY <1>4, <1>6 DEF ServerInv, TmpInv
  <2> QED  BY <1>3, <1>4, <1>6, <2>1 DEF TmpInv
<1>8. RootInv'
  BY <1>1, <1>6, DumpRuns DEF ServerInv, RootInv
<1>9. LastDumpInv'
  <2>0. /\ books' = books /\ imps' = imps /\ process' = process
        /\ process \in {"loaded", "stopping", "dumping"}
    BY <1>1, DumpRuns DEF container
  <2>1. ASSUME process' = "dumping" PROVE Quiet'
    BY <1>1, <2>1 DEF ServerInv, LastDumpInv, Quiet, container
  <2>2. ASSUME process' = "dumping", NEW l \in Level
        PROVE  LoadAmounts(disk'["tmp"][l]) = books'[l]
    BY <1>4, <1>6, <2>0, <2>2 DEF ServerInv, LastDumpInv
  <2> QED  BY <1>1, <1>4, <1>6, <2>0, <2>1, <2>2 DEF LastDumpInv
<1> QED  BY <1>2, <1>7, <1>8, <1>9 DEF ServerInv

LEMMA RenameRootKeeps ==
    ASSUME ServerInv, RenameRoot PROVE ServerInv'
<1>1. /\ dump = "rename" /\ dump' = "replace" /\ UNCHANGED <<container, process, dumped>>
      /\ disk' = [disk EXCEPT !.bak = disk["root"], !.root = None]
  BY DEF RenameRoot
<1>2. ContainerInv'
  BY <1>1, ContainerStays DEF ServerInv
<1>3. disk' = [dir \in {"root", "tmp", "bak"} |-> disk'[dir]]
      /\ disk'["root"] = None /\ disk'["tmp"] = disk["tmp"]
      /\ disk'["bak"] = disk["root"]
  <2>1. disk' = [dir \in {"root", "tmp", "bak"} |->
                  IF dir = "bak" THEN disk["root"] ELSE IF dir = "root" THEN None ELSE disk[dir]]
    BY <1>1, DiskParts DEF ServerInv, RootInv
  <2> QED  BY <2>1
<1>4. Written(dump') = Level /\ Written(dump) = Level /\ dump \in Saving /\ dump' \in Saving
  BY <1>1 DEF Written, Saving
<1>5. TmpInv'
  BY <1>1, <1>3, <1>4 DEF ServerInv, TmpInv
<1>6. RootInv'
  BY <1>1, <1>3, DumpRuns DEF ServerInv, RootInv
<1>7. LastDumpInv'
  <2>1. Quiet => Quiet'
    BY <1>1 DEF Quiet, container
  <2>2. books' = books /\ imps' = imps /\ process' = process
    BY <1>1 DEF container
  <2> QED  BY <1>1, <1>3, <1>4, <2>1, <2>2 DEF ServerInv, LastDumpInv
<1> QED  BY <1>2, <1>5, <1>6, <1>7 DEF ServerInv

(* The directory that has been written is one a server can start with.     *)
LEMMA TmpIsGood ==
    ASSUME ServerInv, dump = "replace"
    PROVE  disk["tmp"] # None /\ GoodContent(Content(disk["tmp"]))
<1> DEFINE tmp == disk["tmp"]
<1>1. /\ tmp = [file \in Level \cup {"rates"} |-> tmp[file]]
      /\ \A level \in Level : /\ tmp[level] \in [Id -> HolderFile \cup {None}]
                              /\ GoodLevel(level, LoadAmounts(tmp[level]))
      /\ tmp["rates"] \in Rates
  BY DEF ServerInv, TmpInv, Saving, Written
<1> HIDE DEF tmp
<1>2. \A file \in Level \cup {"rates"} :
        tmp[file] \in [Id -> HolderFile \cup {None}] \cup [Id -> [Id -> Int]]
  BY <1>1 DEF Rates
<1>3. tmp \in Directory
  BY <1>1, <1>2 DEF Directory
<1>4. tmp # None
  BY <1>3, FileAssumption
<1> DEFINE content == Content(tmp)
<1>5. content.books = [level \in Level |-> LoadAmounts(tmp[level])]
      /\ content.imps = tmp["rates"]
      /\ content = [books |-> content.books, imps |-> content.imps]
  BY DEF Content
<1>6. \A level \in Level : content.books[level] = LoadAmounts(tmp[level])
  BY <1>5
<1>7. content.books = [level \in Level |-> content.books[level]]
  BY <1>5
<1> HIDE DEF content
<1>8. GoodContent(content)
  BY <1>1, <1>5, <1>6, <1>7 DEF GoodContent
<1> QED  BY <1>4, <1>8 DEF tmp, content

LEMMA RenameTmpKeeps ==
    ASSUME ServerInv, RenameTmp PROVE ServerInv'
<1>1. /\ dump = "replace" /\ dump' = "clean" /\ UNCHANGED <<container, process>>
      /\ disk' = [disk EXCEPT !.root = disk["tmp"], !.tmp = None]
      /\ dumped' = Content(disk["tmp"])
  BY DEF RenameTmp
<1>2. ContainerInv'
  BY <1>1, ContainerStays DEF ServerInv
<1>3. disk' = [dir \in {"root", "tmp", "bak"} |-> disk'[dir]] /\ disk'["root"] = disk["tmp"]
  <2>1. disk' = [dir \in {"root", "tmp", "bak"} |->
                  IF dir = "root" THEN disk["tmp"] ELSE IF dir = "tmp" THEN None ELSE disk[dir]]
    BY <1>1, DiskParts DEF ServerInv, RootInv
  <2> QED  BY <2>1
<1>4. TmpInv'
  BY <1>1 DEF TmpInv, Saving
<1>5. RootInv'
  BY <1>1, <1>3, TmpIsGood, DumpRuns DEF RootInv, Has
<1>6. LastDumpInv'
  <2>1. Quiet => Quiet'
    BY <1>1 DEF Quiet, container
  <2>2. books' = books /\ imps' = imps /\ process' = process
    BY <1>1 DEF container
  <2>3. ASSUME process = "dumping" PROVE dumped' = [books |-> books, imps |-> imps]
    <3>1. /\ \A level \in Level : LoadAmounts(disk["tmp"][level]) = books[level]
          /\ disk["tmp"]["rates"] = imps
      BY <1>1, <2>3 DEF ServerInv, LastDumpInv, Saving, Written
    <3>2. books = [level \in Level |-> books[level]]
      BY BooksAreGood DEF ServerInv
    <3>3. books = [level \in Level |-> LoadAmounts(disk["tmp"][level])]
      BY <3>1, <3>2
    <3> QED  BY <1>1, <3>1, <3>3 DEF Content
  <2>4. /\ process \in {"loaded", "stopping", "dumping"}
        /\ process = "dumping" => Quiet
    BY <1>1 DEF ServerInv, LastDumpInv
  <2> QED  BY <1>1, <2>1, <2>2, <2>3, <2>4 DEF LastDumpInv, Saving
<1> QED  BY <1>2, <1>4, <1>5, <1>6 DEF ServerInv

LEMMA RemoveBakKeeps ==
    ASSUME ServerInv, RemoveBak PROVE ServerInv'
<1>1. /\ dump = "clean" /\ dump' = "idle" /\ UNCHANGED <<container, dumped>>
      /\ disk' = [disk EXCEPT !.bak = None]
      /\ process' = IF process = "dumping" THEN "stopped" ELSE process
  BY DEF RemoveBak
<1>2. ContainerInv'
  BY <1>1, ContainerStays DEF ServerInv
<1>3. disk' = [dir \in {"root", "tmp", "bak"} |-> disk'[dir]] /\ disk'["root"] = disk["root"]
  <2>1. disk' = [dir \in {"root", "tmp", "bak"} |-> IF dir = "bak" THEN None ELSE disk[dir]]
    BY <1>1, DiskParts DEF ServerInv, RootInv
  <2> QED  BY <2>1
<1>4. TmpInv'
  BY <1>1 DEF TmpInv, Saving
<1>5. RootInv'
  BY <1>1, <1>3, DumpRuns DEF ServerInv, RootInv
<1>6. LastDumpInv'
  BY <1>1 DEF ServerInv, LastDumpInv, container
<1> QED  BY <1>2, <1>4, <1>5, <1>6 DEF ServerInv

-----------------------------------------------------------------------------
(* The end of the process.                                                 *)

LEMMA LostKeeps ==
    ASSUME ServerInv, Lost, process # "broken" PROVE ServerInv'
<1>1. /\ config' = None /\ stat' = None /\ dump' = "idle"
      /\ process' = (IF dump = "replace" THEN "broken" ELSE "down")
      /\ books' = NoBooks /\ imps' = NoImps /\ aborted' = FALSE
      /\ call' = [b \in Bids |-> IF call[b].pc = "done" THEN call[b] ELSE NewCall]
      /\ booked' = [b \in Bids |-> IF call[b].pc = "done" THEN booked[b] ELSE Zero]
      /\ UNCHANGED <<disk, dumped>>
  BY DEF Lost
<1>2. AreBooks(books') /\ imps' \in Rates
      /\ \A level \in Level, id \in Id : GoodBooks(level, id, books'[level][id])
  <2>1. NoContent.books = NoBooks /\ NoContent.imps = NoImps
    BY DEF NoContent
  <2> QED  BY <1>1, <2>1, NoContentIsGood DEF GoodContent, GoodLevel, AreBooks, GoodBooks
<1>3. NewCall \in CallType /\ NewCall.limits = NoTraits /\ Zero \in [Level -> Int]
  <2>1. Zero \in [Level -> Int]
    BY DEF Zero
  <2> QED  BY <2>1, NoTraitsType DEF NewCall, CallType
<1>4. TypeOK'
  <2>1. call \in [Bids -> CallType] /\ booked \in [Bids -> [Level -> Int]]
    BY DEF ServerInv, ContainerInv, TypeInv, TypeOK
  <2>2. call' \in [Bids -> CallType] /\ booked' \in [Bids -> [Level -> Int]]
    BY <1>1, <1>3, <2>1
  <2> QED  BY <1>1, <1>2, <2>2 DEF TypeOK, Rates
<1>5. ConfigDates' /\ CallDates'
  <2>1. \A b \in Bids : call'[b].limits = call[b].limits \/ call'[b].limits = NoTraits
    BY <1>1, <1>3
  <2>2. CallDates
    BY DEF ServerInv, ContainerInv, TypeInv
  <2> QED  BY <1>1, <2>1, <2>2, DefaultDate DEF ConfigDates, CallDates, NoTraits
<1>6. LimitsKnown'
  <2>1. \A b \in Bids : call'[b].limits = call[b].limits \/ call'[b].limits = NoTraits
    BY <1>1, <1>3
  <2>2. \A b \in Bids, level \in Level :
          OffsetKnown(level, EntityId(b, level), call'[b].limits[level])
    BY <2>1, NoTraitsKnown DEF ServerInv, ContainerInv, LimitsKnown
  <2> QED  BY <1>1, <2>2 DEF LimitsKnown, OffsetsKnown
<1>7. TotalsInv'
  BY <1>2 DEF TotalsInv, GoodBooks
<1>8. TmpInv'
  BY <1>1 DEF TmpInv, Saving
<1>9. RootInv'
  BY <1>1 DEF ServerInv, RootInv
<1>10. LastDumpInv'
  BY <1>1 DEF LastDumpInv
<1> QED  BY <1>4, <1>5, <1>6, <1>7, <1>8, <1>9, <1>10 DEF ServerInv, ContainerInv, TypeInv

LEMMA ServerStep ==
    ASSUME BidsInHistory, ServerInv, [ServerNext]_serverVars PROVE ServerInv'
<1>1. CASE UNCHANGED serverVars
  <2>1. UNCHANGED <<container, process, disk, dump, dumped>>
    BY <1>1 DEF serverVars, container
  <2>2. ContainerInv'
    BY <2>1, ContainerStays DEF ServerInv
  <2>3. TmpInv' /\ RootInv'
    BY <2>1 DEF ServerInv, TmpInv, RootInv
  <2>4. LastDumpInv'
    BY <2>1 DEF ServerInv, LastDumpInv, Quiet, container
  <2> QED  BY <2>2, <2>3, <2>4 DEF ServerInv
<1>2. CASE Load
  BY <1>2, LoadStepKeeps
<1>3. ASSUME NEW b \in Bids, Serve(b) PROVE ServerInv'
  BY <1>3, ServeKeeps
<1>4. ASSUME NEW new \in Configs, UpdateConfig(new) PROVE ServerInv'
  BY <1>4, UpdateConfigKeeps
<1>5. CASE UpdateStat
  BY <1>5, UpdateStatKeeps
<1>6. CASE Stop
  BY <1>6, StopKeeps
<1>7. CASE DumpBegin
  BY <1>7, DumpBeginKeeps
<1>8. ASSUME NEW level \in Level, DumpAmounts(level) PROVE ServerInv'
  BY <1>8, DumpAmountsKeeps
<1>9. CASE DumpRates
  BY <1>9, DumpRatesKeeps
<1>10. CASE RenameRoot
  BY <1>10, RenameRootKeeps
<1>11. CASE RenameTmp
  BY <1>11, RenameTmpKeeps
<1>12. CASE RemoveBak
  BY <1>12, RemoveBakKeeps
<1>13. CASE Exit
  BY <1>13, LostKeeps DEF Exit
<1>14. CASE Crash
  BY <1>14, LostKeeps DEF Crash
<1> QED  BY <1>1, <1>2, <1>3, <1>4, <1>5, <1>6, <1>7, <1>8, <1>9, <1>10, <1>11, <1>12,
            <1>13, <1>14 DEF ServerNext

(* Whatever happens to the server, its books add up, the directory it      *)
(* writes can be started from, and its storage is the last complete dump.  *)
THEOREM ServerInvariant ==
    ASSUME BidsInHistory PROVE ServerSpec => []ServerInv
<1>1. ServerInv /\ [ServerNext]_serverVars => ServerInv'
  BY ServerStep
<1> QED  BY <1>1, ServerBegins, PTL DEF ServerSpec

(* When a server has stopped, its storage holds the books it stopped with: *)
(* no call and no statistics run beside the last dump (wait_object of      *)
(* BillingServerImpl, dump of BillingContainer).                           *)
THEOREM StoppedIsDumped ==
    ASSUME BidsInHistory PROVE ServerSpec => []StopLosesNothing
<1>1. ServerInv => StopLosesNothing
  BY DEF ServerInv, LastDumpInv, StopLosesNothing
<1> QED  BY <1>1, ServerInvariant, PTL

(* A server begins with the books of the last dump that was completed; but  *)
(* the one after a death between the two renames begins empty, and the copy *)
(* still has them (load_, dump).                                           *)
THEOREM RestartHolds ==
    ASSUME BidsInHistory PROVE ServerSpec => RestartRestoresDump
<1>1. ServerInv /\ [ServerNext]_serverVars
         => [Load => \/ books' = dumped.books /\ imps' = dumped.imps
                     \/ /\ process = "broken"
                        /\ books' = NoBooks /\ imps' = NoImps
                        /\ Content(disk.bak) = dumped]_serverVars
  <2> SUFFICES ASSUME ServerInv, Load
               PROVE  \/ books' = dumped.books /\ imps' = dumped.imps
                      \/ /\ process = "broken"
                         /\ books' = NoBooks /\ imps' = NoImps
                         /\ Content(disk.bak) = dumped
    OBVIOUS
  <2>1. dump # "replace"
    BY DEF Load, ServerInv, LastDumpInv
  <2>2. books' = Has(disk["root"]).books /\ imps' = Has(disk["root"]).imps
    BY DEF Load, Has
  <2>3. CASE process # "broken"
    BY <2>1, <2>2, <2>3 DEF ServerInv, RootInv
  <2>4. CASE process = "broken"
    <3>1. disk["root"] = None /\ dumped = Has(disk["bak"])
      BY <2>4 DEF ServerInv, RootInv
    <3>2. books' = NoContent.books /\ imps' = NoContent.imps
      BY <2>2, <3>1 DEF Has
    <3>3. CASE disk["bak"] = None
      BY <3>1, <3>2, <3>3 DEF Has
    <3>4. CASE disk["bak"] # None
      <4>1. dumped = Content(disk["bak"])
        BY <3>1, <3>4 DEF Has
      <4>2. books' = NoBooks /\ imps' = NoImps
        BY <3>2 DEF NoContent
      <4> QED  BY <2>4, <4>1, <4>2
    <3> QED  BY <3>3, <3>4
  <2> QED  BY <2>3, <2>4
<1> QED  BY <1>1, ServerInvariant, PTL DEF ServerSpec, RestartRestoresDump

-----------------------------------------------------------------------------
(* The life of one holder.                                                 *)

LedgerInv ==
    /\ current_day \in Date
    /\ IsHolder(ledger) /\ PrefixSums(ledger)
    /\ Based(ledger, {d \in Date : d > current_day - HistoryDays})

LEMMA LedgerBegins == LedgerInit => LedgerInv
<1> SUFFICES ASSUME LedgerInit PROVE LedgerInv
  OBVIOUS
<1>1. current_day \in Date
  <2>1. Date \in SUBSET Nat /\ Date # {}
    BY DateAssumption, LedgerAssumption
  <2> QED  BY <2>1, FirstResult DEF LedgerInit
<1> QED  BY <1>1, NoDaysType, NoDaysTotals DEF LedgerInit, LedgerInv

(* The catch block of add_amount.                                          *)
LEMMA RevertRestores ==
    ASSUME LedgerInv, OverflowStores, NEW date \in Date, NEW amount \in Int,
           Overflowing(date, amount) # {}
    PROVE  RevertedAfterOverflow(date, amount) = ledger
<1> DEFINE failed == First(Overflowing(date, amount))
           added == {d \in DOMAIN ledger : d > date /\ d < failed}
                      \cup (IF OverflowStores /\ failed > date THEN {failed} ELSE {})
           reverted == {d \in DOMAIN ledger : d > date /\ d <= failed}
           dayAdded == OverflowStores \/ InRange(AmountOf(ledger, date) + amount)
           If(b) == IF b THEN amount ELSE 0
           entry(d) == [amount |-> ledger[d].amount
                                      + (IF d = date THEN If(dayAdded) - amount ELSE 0),
                        amount_before |-> ledger[d].amount_before
                                             + If(d \in added) - If(d \in reverted)]
<1>1. DOMAIN ledger \in SUBSET Date /\ ledger \in [DOMAIN ledger -> DayAmount]
      /\ Date \in SUBSET Nat
  BY HolderType, DateAssumption DEF LedgerInv
<1>2. DOMAIN Sums(date, amount) = {d \in DOMAIN ledger \cup {date} : d >= date}
  BY DEF Sums
<1>3. failed \in DOMAIN ledger \cup {date} /\ failed >= date /\ failed \in Nat
  <2>1. Overflowing(date, amount) \in SUBSET DOMAIN Sums(date, amount)
    BY DEF Overflowing
  <2>2. Overflowing(date, amount) \in SUBSET Nat
    BY <1>1, <1>2, <2>1
  <2>3. failed \in Overflowing(date, amount)
    BY <2>2, FirstResult
  <2> QED  BY <1>2, <2>1, <2>2, <2>3
<1>4. RevertedAfterOverflow(date, amount) = [d \in DOMAIN ledger |-> entry(d)]
  BY DEF RevertedAfterOverflow
<1> HIDE DEF failed
<1>5. added = reverted
  BY <1>1, <1>3
<1> HIDE DEF added, reverted
<1>6. ASSUME NEW d \in DOMAIN ledger PROVE entry(d) = ledger[d]
  <2>1. ledger[d] \in DayAmount
    BY <1>1
  <2>2. (IF d = date THEN If(dayAdded) - amount ELSE 0) = 0
    OBVIOUS
  <2>3. entry(d) = [amount |-> ledger[d].amount, amount_before |-> ledger[d].amount_before]
    BY <1>5, <2>1, <2>2 DEF DayAmount
  <2> QED  BY <2>1, <2>3 DEF DayAmount
<1> HIDE DEF entry
<1>7. ledger = [d \in DOMAIN ledger |-> ledger[d]]
  BY <1>1
<1> QED  BY <1>4, <1>6, <1>7

(* An addition that goes through.                                          *)
LEMMA AddKeepsLedger ==
    ASSUME LedgerInv, OverflowStores, NEW date \in Date, NEW amount \in Amounts,
           Add(date, amount)
    PROVE  /\ LedgerInv'
           /\ \/ outcome' = TRUE /\ ledger' = AddAmount(ledger, date, amount)
              \/ outcome' = FALSE /\ ledger' = ledger
<1>1. amount \in Int
  BY LedgerAssumption
<1>2. date > current_day - HistoryDays /\ current_day' = current_day
  BY DEF Add
<1>3. \/ outcome' = TRUE /\ ledger' = AddAmount(ledger, date, amount)
      \/ outcome' = FALSE /\ ledger' = ledger
  BY <1>1, RevertRestores DEF Add
<1> DEFINE D == {d \in Date : d > current_day - HistoryDays}
<1>4. date \in D
  BY <1>2
<1>5. current_day \in Date /\ IsHolder(ledger) /\ PrefixSums(ledger) /\ Based(ledger, D)
  BY DEF LedgerInv
<1> HIDE DEF D
<1> DEFINE after == AddAmount(ledger, date, amount)
<1>6. IsHolder(after) /\ PrefixSums(after) /\ Based(after, D)
  BY <1>1, <1>4, <1>5, AddAmountEntries, AddAmountKeepsBase
<1> HIDE DEF after
<1>8. IsHolder(ledger') /\ PrefixSums(ledger') /\ Based(ledger', D)
  <2>1. ledger' = after \/ ledger' = ledger
    BY <1>3 DEF after
  <2> QED  BY <1>5, <1>6, <2>1
<1>7. LedgerInv'
  BY <1>2, <1>5, <1>8 DEF LedgerInv, D
<1> QED  BY <1>3, <1>7

LEMMA StatOfDayType ==
    ASSUME LedgerInv, NEW source \in Sources \cup {NoSource}, SettleDays(source)
    PROVE  \/ StatOfDay(source) = NoSource
           \/ /\ IsSource(StatOfDay(source)) /\ InOrder(StatOfDay(source))
              /\ \A d \in {d \in Date : d > current_day - HistoryDays} :
                    StatOfDay(source).prev_day <= d
<1>1. CASE source = NoSource
  BY <1>1 DEF StatOfDay
<1>2. CASE source # NoSource
  <2> DEFINE s == StatOfDay(source)
             days == {d \in DOMAIN source.day_amounts : d > current_day - HistoryDays /\ d <= current_day}
             prev == IF source.prev_days_amount = 0 THEN 0 ELSE current_day - HistoryDays
  <2>1. /\ DOMAIN source = {"prev_day", "prev_days_amount", "day_amounts"}
        /\ source.prev_days_amount \in Int
        /\ DOMAIN source.day_amounts \subseteq Date
        /\ source.day_amounts \in [DOMAIN source.day_amounts -> Int]
    BY <1>2, LedgerAssumption
  <2>2. s = [source EXCEPT !.prev_day = prev,
                           !.day_amounts = [d \in days |-> source.day_amounts[d]]]
    BY <1>2 DEF StatOfDay
  <2>3. s.prev_day = prev /\ s.prev_days_amount = source.prev_days_amount
        /\ s.day_amounts = [d \in days |-> source.day_amounts[d]]
    BY <2>1, <2>2
  <2>4. Date \in SUBSET Nat /\ Date \subseteq Nat \ {0} /\ current_day \in Date /\ HistoryDays \in Nat
    BY DateAssumption, LedgerAssumption DEF LedgerInv
  <2>5. prev \in Date \cup {0} /\ (prev # 0 => prev = current_day - HistoryDays)
        /\ (prev = 0 => source.prev_days_amount = 0)
    <3>1. source.prev_days_amount # 0 => current_day - HistoryDays \in Date
      BY <1>2 DEF SettleDays
    <3> QED  BY <2>4, <3>1
  <2>6. days \subseteq Date /\ days \subseteq DOMAIN source.day_amounts
        /\ \A d \in days : d > current_day - HistoryDays
    BY <2>1
  <2> HIDE DEF s, days, prev
  <2>7. DOMAIN s.day_amounts = days /\ s.day_amounts \in [days -> Int]
    BY <2>1, <2>3, <2>6
  <2>8. IsSource(s)
    BY <2>1, <2>3, <2>5, <2>6, <2>7 DEF IsSource
  <2>9. \A d \in Date : d > current_day - HistoryDays => prev < d
    BY <2>4, <2>5
  <2>10. InOrder(s)
    BY <2>3, <2>5, <2>6, <2>7, <2>9 DEF InOrder
  <2>11. \A d \in {d \in Date : d > current_day - HistoryDays} : s.prev_day <= d
    <3> SUFFICES ASSUME NEW d \in Date, d > current_day - HistoryDays PROVE prev <= d
      BY <2>3
    <3>1. prev < d
      BY <2>9
    <3>2. prev \in Int /\ d \in Int
      BY <2>4, <2>5
    <3> QED  BY <3>1, <3>2
  <2> QED  BY <2>8, <2>10, <2>11 DEF s
<1> QED  BY <1>1, <1>2

LEMMA SettleKeepsLedger ==
    ASSUME LedgerInv, NEW source \in Sources \cup {NoSource}, SettleDays(source)
    PROVE  LedgerInv'
<1> DEFINE D == {d \in Date : d > current_day - HistoryDays}
           s == StatOfDay(source)
           end == current_day - StatDays
<1>1. current_day' = current_day /\ ledger' = ReplaceAmount(ledger, s, end)
  BY DEF SettleDays
<1>2. \/ s = NoSource
      \/ IsSource(s) /\ InOrder(s) /\ \A d \in D : s.prev_day <= d
  BY StatOfDayType
<1>3. current_day \in Date /\ IsHolder(ledger) /\ PrefixSums(ledger) /\ Based(ledger, D)
  BY DEF LedgerInv
<1>4. end \in Int
  <2>1. current_day \in Nat
    BY <1>3, DateAssumption
  <2> QED  BY <2>1, LedgerAssumption
<1> HIDE DEF D, s, end
<1>5. PrefixSums(ledger') /\ Based(ledger', D)
  BY <1>1, <1>2, <1>3, <1>4, ReplaceKeepsTotals
<1>6. IsHolder(ledger')
  BY <1>1, <1>2, <1>3, <1>4, ReplaceAmountType
<1> QED  BY <1>1, <1>3, <1>5, <1>6 DEF LedgerInv, D

LEMMA RestartRestoresLedger ==
    ASSUME LedgerInv, Restart PROVE ledger' = ledger /\ LedgerInv'
<1>1. current_day' = current_day
      /\ ledger' = IF DOMAIN ledger = {} THEN NoDays ELSE LoadHolder(SaveHolder(ledger))
  BY DEF Restart
<1>2. IsHolder(ledger) /\ PrefixSums(ledger)
  BY DEF LedgerInv
<1>3. DOMAIN ledger = {} => ledger = NoDays
  <2>1. ledger \in [DOMAIN ledger -> DayAmount]
    BY <1>2, HolderType
  <2> QED  BY <2>1 DEF NoDays
<1>4. ledger' = ledger
  BY <1>1, <1>2, <1>3, SavedIsLoaded
<1> QED  BY <1>1, <1>4 DEF LedgerInv

LEMMA NextDayKeepsLedger ==
    ASSUME LedgerInv, NextDay PROVE LedgerInv'
<1>1. current_day' = current_day + 1 /\ current_day' \in Date /\ ledger' = ledger
  BY DEF NextDay
<1>2. {d \in Date : d > current_day' - HistoryDays} \subseteq {d \in Date : d > current_day - HistoryDays}
  <2>1. current_day \in Nat /\ HistoryDays \in Nat /\ Date \in SUBSET Nat
    BY DateAssumption, LedgerAssumption DEF LedgerInv
  <2> SUFFICES ASSUME NEW d \in Date, d > current_day' - HistoryDays
               PROVE  d > current_day - HistoryDays
    OBVIOUS
  <2>2. d \in Nat
    BY <2>1
  <2> QED  BY <1>1, <2>1, <2>2
<1>3. Based(ledger, {d \in Date : d > current_day' - HistoryDays})
  BY <1>2 DEF LedgerInv, Based
<1> QED  BY <1>1, <1>3 DEF LedgerInv

LEMMA LedgerStep ==
    ASSUME OverflowStores, LedgerInv, [LedgerNext]_ledgerVars PROVE LedgerInv'
<1>1. CASE UNCHANGED ledgerVars
  BY <1>1 DEF ledgerVars, LedgerInv
<1>2. ASSUME NEW date \in Date, NEW amount \in Amounts, Add(date, amount) PROVE LedgerInv'
  BY <1>2, AddKeepsLedger
<1>3. ASSUME NEW source \in Sources \cup {NoSource}, SettleDays(source) PROVE LedgerInv'
  BY <1>3, SettleKeepsLedger
<1>4. CASE NextDay
  BY <1>4, NextDayKeepsLedger
<1>5. CASE Restart
  BY <1>5, RestartRestoresLedger
<1> QED  BY <1>1, <1>2, <1>3, <1>4, <1>5 DEF LedgerNext

LEMMA LedgerInvariant ==
    ASSUME OverflowStores PROVE LedgerSpec => []LedgerInv
<1>1. LedgerInv /\ [LedgerNext]_ledgerVars => LedgerInv'
  BY LedgerStep
<1> QED  BY <1>1, LedgerBegins, PTL DEF LedgerSpec

(* amount_before of every day is the total of the days before it, whatever *)
(* bids, refunds, statistics, overflows and restarts come in what order    *)
(* (the comment on DayAmount).                                             *)
THEOREM RunningTotalsOfHolder ==
    ASSUME OverflowStores PROVE LedgerSpec => []RunningTotals
<1>1. LedgerInv => RunningTotals
  BY DEF LedgerInv, RunningTotals
<1> QED  BY <1>1, LedgerInvariant, PTL

(* Saving a holder and loading it changes nothing (save_amounts_,          *)
(* load_amounts_).                                                         *)
THEOREM HolderIsRestored ==
    ASSUME OverflowStores PROVE LedgerSpec => RestartKeepsBooks
<1>1. LedgerInv => [Restart => ledger' = ledger]_ledgerVars
  BY RestartRestoresLedger
<1> QED  BY <1>1, LedgerInvariant, PTL DEF LedgerSpec, RestartKeepsBooks

(* An add_amount that overflows leaves the holder as it was, if += has     *)
(* stored its outcome when it throws ("revert all changes").                *)
THEOREM OverflowIsReverted ==
    ASSUME OverflowStores PROVE LedgerSpec => FailedAddChangesNothing
<1>1. LedgerInv => [\A date \in Date, amount \in Amounts :
                       Add(date, amount) /\ ~outcome' => ledger' = ledger]_ledgerVars
  BY AddKeepsLedger
<1> QED  BY <1>1, LedgerInvariant, PTL DEF LedgerSpec, FailedAddChangesNothing

-----------------------------------------------------------------------------
(* The ledger the holder implements.                                       *)

Carried(days) == IF DOMAIN days = {} THEN 0 ELSE days[First(DOMAIN days)].amount_before

LEMMA AddKeepsCarried ==
    ASSUME NEW days, IsHolder(days), NEW D, Based(days, D),
           NEW date \in Date, date \in D, NEW amount \in Int
    PROVE  Carried(AddAmount(days, date, amount)) = Carried(days)
<1> DEFINE after == AddAmount(days, date, amount)
<1>1. DOMAIN days \in SUBSET Date /\ days \in [DOMAIN days -> DayAmount]
      /\ Date \in SUBSET Nat /\ DOMAIN days \in SUBSET Nat
  BY HolderType, DateAssumption
<1>2. /\ DOMAIN after = DOMAIN days \cup {date}
      /\ after[date] = [amount_before |-> AmountBefore(days, date),
                        amount |-> AmountOf(days, date) + amount]
      /\ \A d \in DOMAIN days \ {date} :
            after[d] = [amount_before |-> IF d > date THEN days[d].amount_before + amount
                                          ELSE days[d].amount_before,
                        amount |-> days[d].amount]
  BY AddAmountEntries
<1> HIDE DEF after
<1> DEFINE f == First(DOMAIN after)
<1>3. f \in DOMAIN after /\ \A e \in DOMAIN after : f <= e
  <2>1. DOMAIN after \in SUBSET Nat /\ DOMAIN after # {}
    BY <1>1, <1>2
  <2> QED  BY <2>1, FirstResult
<1>4. Carried(after) = after[f].amount_before
  BY <1>3 DEF Carried
<1> HIDE DEF f
<1>5. CASE \E d \in DOMAIN days : d <= date
  <2> DEFINE first == First(DOMAIN days)
  <2>1. first \in DOMAIN days /\ \A e \in DOMAIN days : first <= e
    BY <1>1, <1>5, FirstResult
  <2>2. Carried(days) = days[first].amount_before
    BY <2>1 DEF Carried
  <2> HIDE DEF first
  <2>3. first <= date /\ first \in Nat /\ date \in Nat /\ f \in Nat
    BY <1>1, <1>2, <1>3, <1>5, <2>1
  <2>4. f = first
    BY <1>2, <1>3, <2>1, <2>3
  <2>5. after[first].amount_before = days[first].amount_before
    <3>1. CASE first = date
      BY <1>2, <2>1, <3>1 DEF AmountBefore
    <3>2. CASE first # date
      <4>1. ~(first > date) /\ first \in DOMAIN days \ {date}
        BY <2>1, <2>3, <3>2
      <4> QED  BY <1>2, <4>1
    <3> QED  BY <3>1, <3>2
  <2> QED  BY <1>4, <2>2, <2>4, <2>5 DEF after
<1>6. CASE ~\E d \in DOMAIN days : d <= date
  <2>1. Earlier(days, date) = {} /\ date \notin DOMAIN days
    BY <1>1, <1>6 DEF Earlier
  <2>2. after[date].amount_before = 0
    BY <1>2, <2>1 DEF AmountBefore
  <2>3. f = date
    BY <1>1, <1>2, <1>3, <1>6
  <2>4. NothingCarried(days)
    BY <1>6 DEF Based
  <2>5. Carried(days) = 0
    <3> SUFFICES ASSUME DOMAIN days # {}
                 PROVE  days[First(DOMAIN days)].amount_before = 0
      BY DEF Carried
    <3> DEFINE first == First(DOMAIN days)
    <3>1. first \in DOMAIN days /\ \A e \in DOMAIN days : first <= e
      BY <1>1, FirstResult
    <3> HIDE DEF first
    <3>2. Earlier(days, first) = {}
      BY <1>1, <3>1 DEF Earlier
    <3>3. days[first].amount_before = 0
      BY <2>4, <3>1, <3>2 DEF NothingCarried
    <3> QED  BY <3>3 DEF first
  <2> QED  BY <1>4, <2>2, <2>3, <2>5 DEF after
<1> QED  BY <1>5, <1>6

LEMMA CarriedType ==
    ASSUME NEW days, IsHolder(days) PROVE Carried(days) \in Int
<1>1. DOMAIN days \in SUBSET Nat /\ days \in [DOMAIN days -> DayAmount]
  <2>1. DOMAIN days \in SUBSET Date /\ days \in [DOMAIN days -> DayAmount]
    BY HolderType
  <2> QED  BY <2>1, DateAssumption
<1>2. DOMAIN days # {} => First(DOMAIN days) \in DOMAIN days
  BY <1>1, FirstResult
<1> QED  BY <1>1, <1>2 DEF Carried, DayAmount

LEMMA AddIsBooked ==
    ASSUME LedgerInv, NEW date \in Date, NEW amount \in Amounts,
           Add(date, amount), ledger' = AddAmount(ledger, date, amount)
    PROVE  Ledger!Book(date, amount)
<1>1. date <= current_day /\ date > current_day - HistoryDays /\ current_day' = current_day
  BY DEF Add
<1>2. amount \in Int
  BY LedgerAssumption
<1> DEFINE D == {d \in Date : d > current_day - HistoryDays}
<1>3. IsHolder(ledger) /\ Based(ledger, D) /\ date \in D
  BY <1>1 DEF LedgerInv
<1> HIDE DEF D
<1>4. carried' = carried
  <2>1. Carried(AddAmount(ledger, date, amount)) = Carried(ledger)
    BY <1>2, <1>3, AddKeepsCarried
  <2>2. carried = Carried(ledger) /\ carried' = Carried(ledger')
    BY DEF carried, Carried
  <2> QED  BY <2>1, <2>2
<1>5. /\ DOMAIN ledger' = DOMAIN ledger \cup {date}
      /\ ledger'[date].amount = AmountOf(ledger, date) + amount
      /\ \A d \in DOMAIN ledger \ {date} : ledger'[d].amount = ledger[d].amount
  <2> DEFINE after == AddAmount(ledger, date, amount)
  <2>1. /\ DOMAIN after = DOMAIN ledger \cup {date}
        /\ after[date] = [amount_before |-> AmountBefore(ledger, date),
                          amount |-> AmountOf(ledger, date) + amount]
        /\ \A d \in DOMAIN ledger \ {date} :
              after[d] = [amount_before |-> IF d > date THEN ledger[d].amount_before + amount
                                            ELSE ledger[d].amount_before,
                          amount |-> ledger[d].amount]
    BY <1>2, <1>3, AddAmountEntries
  <2>2. ledger' = after
    OBVIOUS
  <2> HIDE DEF after
  <2> QED  BY <2>1, <2>2
<1>6. \A d \in DOMAIN ledger : ledger[d].amount \in Int
  BY <1>3, HolderType DEF DayAmount
<1>7. daily' = [d \in DOMAIN ledger' |-> ledger'[d].amount]
  BY DEF daily
<1>8. DOMAIN daily = DOMAIN ledger /\ \A d \in DOMAIN ledger : daily[d] = ledger[d].amount
  BY DEF daily
<1>9. ASSUME NEW d \in DOMAIN ledger \cup {date}
      PROVE  ledger'[d].amount = (IF d \in DOMAIN daily THEN daily[d] ELSE 0)
                                   + (IF d = date THEN amount ELSE 0)
  <2>1. CASE d = date
    BY <1>2, <1>5, <1>6, <1>8, <2>1 DEF AmountOf
  <2>2. CASE d # date
    BY <1>5, <1>6, <1>8, <1>9, <2>2
  <2> QED  BY <2>1, <2>2
<1>10. daily' = [d \in DOMAIN daily \cup {date} |->
                   (IF d \in DOMAIN daily THEN daily[d] ELSE 0)
                     + (IF d = date THEN amount ELSE 0)]
  BY <1>5, <1>7, <1>8, <1>9
<1> QED  BY <1>1, <1>4, <1>10 DEF Ledger!Book

LEMMA SettleIsSettled ==
    ASSUME LedgerInv, NEW source \in Sources \cup {NoSource}, SettleDays(source)
    PROVE  Ledger!Settle
<1> DEFINE s == StatOfDay(source)
           end == current_day - StatDays
<1>1. current_day' = current_day /\ ledger' = ReplaceAmount(ledger, s, end)
  BY DEF SettleDays
<1>2. s = NoSource \/ IsSource(s)
  BY StatOfDayType
<1>3. current_day \in Date /\ IsHolder(ledger)
  BY DEF LedgerInv
<1>4. end \in Int
  <2>1. current_day \in Nat
    BY <1>3, DateAssumption
  <2> QED  BY <2>1, LedgerAssumption
<1>5. IsHolder(ledger')
  BY SettleKeepsLedger DEF LedgerInv
<1>6. carried' \in Int
  <2>1. carried' = Carried(ledger')
    BY DEF carried, Carried
  <2> QED  BY <1>5, <2>1, CarriedType
<1>7. ASSUME NEW d \in Date, d >= current_day - StatDays
      PROVE  /\ d \in DOMAIN ledger' <=> d \in DOMAIN ledger
             /\ d \in DOMAIN ledger => ledger'[d].amount = ledger[d].amount
  <2>1. d >= end
    BY <1>7
  <2> HIDE DEF s, end
  <2>2. /\ AmountOf(ledger', d) = AmountOf(ledger, d)
        /\ d \in DOMAIN ledger <=> d \in DOMAIN ledger'
    BY <1>1, <1>2, <1>3, <1>4, <2>1, ReplaceKeepsFreshDays
  <2> QED  BY <2>2 DEF AmountOf
<1>8. /\ daily = [d \in DOMAIN ledger |-> ledger[d].amount]
      /\ daily' = [d \in DOMAIN ledger' |-> ledger'[d].amount]
  BY DEF daily
<1>9. \A d \in Date : d >= current_day - StatDays =>
         /\ d \in DOMAIN daily' <=> d \in DOMAIN daily
         /\ d \in DOMAIN daily => daily'[d] = daily[d]
  BY <1>7, <1>8
<1> QED  BY <1>1, <1>6, <1>9 DEF Ledger!Settle

LEMMA SameLedger ==
    ASSUME UNCHANGED <<ledger, current_day>> PROVE UNCHANGED <<carried, daily, current_day>>
BY DEF carried, daily

(* What a holder goes through is the life of a ledger: a bid changes one   *)
(* day, statistics leave the days alone that they do not settle, an        *)
(* overflow and a restart change nothing.                                  *)
THEOREM LedgerIsImplemented ==
    ASSUME OverflowStores PROVE LedgerSpec => ImplementsDayLedger
<1>1. LedgerInit => Ledger!Init
  BY DEF LedgerInit, Ledger!Init, carried, daily, NoDays, First, Ledger!Min
<1>2. LedgerInv /\ [LedgerNext]_ledgerVars => [Ledger!Next]_(Ledger!vars)
  <2> SUFFICES ASSUME LedgerInv, [LedgerNext]_ledgerVars
               PROVE  Ledger!Next \/ UNCHANGED <<carried, daily, current_day>>
    BY DEF Ledger!vars
  <2>1. CASE UNCHANGED ledgerVars
    BY <2>1, SameLedger DEF ledgerVars
  <2>2. ASSUME NEW date \in Date, NEW amount \in Amounts, Add(date, amount)
        PROVE  Ledger!Next \/ UNCHANGED <<carried, daily, current_day>>
    <3>1. CASE ledger' = AddAmount(ledger, date, amount)
      BY <2>2, <3>1, AddIsBooked DEF Ledger!Next
    <3>2. CASE ledger' = ledger
      BY <2>2, <3>2, SameLedger DEF Add
    <3> QED  BY <2>2, <3>1, <3>2, AddKeepsLedger
  <2>3. ASSUME NEW source \in Sources \cup {NoSource}, SettleDays(source)
        PROVE  Ledger!Next
    BY <2>3, SettleIsSettled DEF Ledger!Next
  <2>4. CASE NextDay
    BY <2>4 DEF NextDay, Ledger!Next, Ledger!NextDay, carried, daily
  <2>5. CASE Restart
    BY <2>5, RestartRestoresLedger, SameLedger DEF Restart
  <2> QED  BY <2>1, <2>2, <2>3, <2>4, <2>5 DEF LedgerNext
<1> QED  BY <1>1, <1>2, LedgerInvariant, PTL
         DEF LedgerSpec, ImplementsDayLedger, Ledger!Spec
=============================================================================
