------------------------- MODULE RequestPool_proofs -------------------------
(***************************************************************************)
(* Proofs about RequestPool, for any number of servers, keys, callers and  *)
(* workers: whatever is shared out, refused, resent, delayed, saved and    *)
(* loaded, the amounts of a key add up.  What a caller was told is taken   *)
(* is booked or held, and no more is booked than came in, but for replies  *)
(* that were lost.                                                         *)
(***************************************************************************)
EXTENDS RequestPool, Sums_proofs

Request == [time : Nat, amount : Nat]

IsAmounts(requests) ==
    /\ DOMAIN requests \subseteq Slot
    /\ requests \in [DOMAIN requests -> Request]

AnyAmounts == UNION {[slots -> Request] : slots \in SUBSET Slot}

Pools == [servers   : [Server -> [active : BOOLEAN, amounts : AnyAmounts]],
          non_empty : [Server -> Nat],
          delayed   : AnyAmounts]

-----------------------------------------------------------------------------
(* Aggregate holders.                                                      *)

LEMMA AmountsAre ==
    ASSUME NEW requests
    PROVE  requests \in AnyAmounts <=> IsAmounts(requests)
BY DEF AnyAmounts, IsAmounts

LEMMA SlotOf ==
    ASSUME NEW key \in Key
    PROVE  <<key, "NORMAL">> \in Slot /\ <<key, "RESEND">> \in Slot
BY DEF Slot

LEMMA NoAmountsType ==
    /\ IsAmounts(NoAmounts)
    /\ \A slot : AmountAt(NoAmounts, slot) = 0
    /\ \A key : AmountIn(NoAmounts, key) = 0
<1>1. DOMAIN NoAmounts = {} /\ NoAmounts \in [{} -> Request]
  BY DEF NoAmounts
<1> QED  BY <1>1 DEF IsAmounts, AmountAt, AmountIn

LEMMA AmountAtType ==
    ASSUME NEW requests, IsAmounts(requests), NEW slot
    PROVE  AmountAt(requests, slot) \in Nat
BY DEF IsAmounts, AmountAt, Request

LEMMA AmountInType ==
    ASSUME NEW requests, IsAmounts(requests), NEW key
    PROVE  AmountIn(requests, key) \in Nat
BY AmountAtType DEF AmountIn

LEMMA EarlierTime ==
    ASSUME NEW m \in Nat, NEW n \in Nat
    PROVE  Min({m, n}) \in Nat
<1>1. PICK k \in {m, n} : \A l \in {m, n} : k <= l
  OBVIOUS
<1>2. Min({m, n}) \in {m, n}
  BY <1>1 DEF Min
<1> QED  BY <1>2

(* Two holders put together have the amounts of both.                      *)
LEMMA MergeAdds ==
    ASSUME NEW amounts, IsAmounts(amounts), NEW requests, IsAmounts(requests)
    PROVE  /\ IsAmounts(Merge(amounts, requests))
           /\ \A key : AmountIn(Merge(amounts, requests), key)
                         = AmountIn(amounts, key) + AmountIn(requests, key)
<1> DEFINE both == Merge(amounts, requests)
<1>1. DOMAIN both = DOMAIN amounts \cup DOMAIN requests
  BY DEF Merge
<1>2. ASSUME NEW slot \in DOMAIN both
      PROVE  both[slot] \in Request /\ both[slot].amount = AmountAt(amounts, slot)
                                                            + AmountAt(requests, slot)
  <2>1. CASE slot \notin DOMAIN requests
    <3>1. both[slot] = amounts[slot] /\ amounts[slot] \in Request
      BY <1>1, <1>2, <2>1 DEF Merge, IsAmounts
    <3> QED  BY <2>1, <3>1, <1>1 DEF AmountAt, Request
  <2>2. CASE slot \notin DOMAIN amounts
    <3>1. slot \in DOMAIN requests
      BY <1>1, <2>2
    <3>2. both[slot] = requests[slot] /\ requests[slot] \in Request
      BY <3>1, <2>2 DEF Merge, IsAmounts
    <3> QED  BY <2>2, <3>1, <3>2 DEF AmountAt, Request
  <2>3. CASE slot \in DOMAIN requests /\ slot \in DOMAIN amounts
    <3>1. requests[slot] \in Request /\ amounts[slot] \in Request
      BY <2>3 DEF IsAmounts
    <3>2. both[slot] = [time   |-> Min({amounts[slot].time, requests[slot].time}),
                        amount |-> amounts[slot].amount + requests[slot].amount]
      BY <2>3 DEF Merge
    <3>3. Min({amounts[slot].time, requests[slot].time}) \in Nat
      BY <3>1, EarlierTime DEF Request
    <3> HIDE DEF both
    <3> QED  BY <2>3, <3>1, <3>2, <3>3 DEF AmountAt, Request
  <2> QED  BY <2>1, <2>2, <2>3
<1>3. IsAmounts(both)
  <2>1. both = [slot \in DOMAIN both |-> both[slot]]
    BY DEF Merge
  <2> HIDE DEF both
  <2> QED  BY <1>1, <1>2, <2>1 DEF IsAmounts
<1>4. ASSUME NEW slot
      PROVE  AmountAt(both, slot) = AmountAt(amounts, slot) + AmountAt(requests, slot)
  <2> HIDE DEF both
  <2>1. CASE slot \in DOMAIN both
    BY <1>2, <2>1 DEF AmountAt
  <2>2. CASE slot \notin DOMAIN both
    BY <1>1, <2>2 DEF AmountAt
  <2> QED  BY <2>1, <2>2
<1> HIDE DEF both
<1>5. ASSUME NEW key
      PROVE  AmountIn(both, key) = AmountIn(amounts, key) + AmountIn(requests, key)
  <2>1. /\ AmountAt(amounts, <<key, "NORMAL">>) \in Nat /\ AmountAt(amounts, <<key, "RESEND">>) \in Nat
        /\ AmountAt(requests, <<key, "NORMAL">>) \in Nat /\ AmountAt(requests, <<key, "RESEND">>) \in Nat
    BY AmountAtType
  <2> QED  BY <1>4, <2>1 DEF AmountIn
<1> QED  BY <1>3, <1>5 DEF both

(* A holder is what is taken out of it and what is left.                   *)
LEMMA RestrictSplits ==
    ASSUME NEW amounts, IsAmounts(amounts), NEW slots \in SUBSET DOMAIN amounts
    PROVE  /\ IsAmounts(Restrict(amounts, slots))
           /\ IsAmounts(Restrict(amounts, DOMAIN amounts \ slots))
           /\ \A key : AmountIn(amounts, key)
                         = AmountIn(Restrict(amounts, slots), key)
                           + AmountIn(Restrict(amounts, DOMAIN amounts \ slots), key)
<1> DEFINE taken == Restrict(amounts, slots)
           rest == Restrict(amounts, DOMAIN amounts \ slots)
<1>1. IsAmounts(taken) /\ IsAmounts(rest)
  BY DEF IsAmounts, Restrict
<1>2. ASSUME NEW slot
      PROVE  AmountAt(amounts, slot) = AmountAt(taken, slot) + AmountAt(rest, slot)
  <2>1. AmountAt(amounts, slot) \in Nat
    BY AmountAtType
  <2> QED  BY <2>1 DEF AmountAt, Restrict
<1> HIDE DEF taken, rest
<1>3. ASSUME NEW key
      PROVE  AmountIn(amounts, key) = AmountIn(taken, key) + AmountIn(rest, key)
  <2>1. /\ AmountAt(taken, <<key, "NORMAL">>) \in Nat /\ AmountAt(taken, <<key, "RESEND">>) \in Nat
        /\ AmountAt(rest, <<key, "NORMAL">>) \in Nat /\ AmountAt(rest, <<key, "RESEND">>) \in Nat
    BY <1>1, AmountAtType
  <2> QED  BY <1>2, <2>1 DEF AmountIn
<1> QED  BY <1>1, <1>3 DEF taken, rest

(* Requests that are sent again keep their amounts.                        *)
LEMMA ResendKeeps ==
    ASSUME NEW requests, IsAmounts(requests)
    PROVE  /\ IsAmounts(MarkResend(OfMode(requests, "NORMAL")))
           /\ IsAmounts(OfMode(requests, "RESEND"))
           /\ \A key : AmountIn(requests, key)
                         = AmountIn(MarkResend(OfMode(requests, "NORMAL")), key)
                           + AmountIn(OfMode(requests, "RESEND"), key)
<1> DEFINE normal == OfMode(requests, "NORMAL")
           marked == MarkResend(normal)
           resend == OfMode(requests, "RESEND")
<1>1. /\ DOMAIN normal = {slot \in DOMAIN requests : slot[2] = "NORMAL"}
      /\ DOMAIN resend = {slot \in DOMAIN requests : slot[2] = "RESEND"}
      /\ \A slot \in DOMAIN normal : normal[slot] = requests[slot]
      /\ \A slot \in DOMAIN resend : resend[slot] = requests[slot]
  BY DEF OfMode, Restrict
<1>2. /\ normal = [slot \in DOMAIN normal |-> normal[slot]]
      /\ resend = [slot \in DOMAIN resend |-> resend[slot]]
  BY DEF OfMode, Restrict
<1> HIDE DEF normal, resend
<1>3. IsAmounts(normal) /\ IsAmounts(resend)
  BY <1>1, <1>2 DEF IsAmounts
<1>4. DOMAIN marked = {<<s[1], "RESEND">> : s \in DOMAIN normal}
      /\ \A slot \in DOMAIN marked : marked[slot] = normal[<<slot[1], "NORMAL">>]
  BY DEF MarkResend
<1>5. \A slot \in DOMAIN normal : slot[1] \in Key /\ slot = <<slot[1], "NORMAL">>
  BY <1>1, <1>3 DEF IsAmounts, Slot
<1>6. marked = [slot \in DOMAIN marked |-> marked[slot]]
  BY DEF MarkResend
<1> HIDE DEF marked
<1>7. ASSUME NEW slot \in DOMAIN marked
      PROVE  slot \in Slot /\ marked[slot] \in Request
  <2>1. PICK s \in DOMAIN normal : slot = <<s[1], "RESEND">>
    BY <1>4
  <2>2. s = <<s[1], "NORMAL">> /\ s[1] \in Key
    BY <1>5
  <2>3. slot[1] = s[1]
    BY <2>1
  <2>4. marked[slot] = normal[s]
    BY <1>4, <2>2, <2>3
  <2>5. normal[s] \in Request
    BY <1>3 DEF IsAmounts
  <2> QED  BY <2>1, <2>2, <2>4, <2>5 DEF Slot
<1>8. IsAmounts(marked)
  BY <1>6, <1>7 DEF IsAmounts
<1>9. ASSUME NEW key
      PROVE  AmountIn(requests, key) = AmountIn(marked, key) + AmountIn(resend, key)
  <2> DEFINE n == <<key, "NORMAL">>
             r == <<key, "RESEND">>
  <2>1. n[1] = key /\ n[2] = "NORMAL" /\ r[1] = key /\ r[2] = "RESEND" /\ n # r
    OBVIOUS
  <2> HIDE DEF n, r
  <2>2. AmountAt(requests, n) = AmountAt(marked, r)
    <3>1. CASE n \in DOMAIN requests
      <4>1. n \in DOMAIN normal
        BY <1>1, <2>1, <3>1
      <4>2. r \in DOMAIN marked
        BY <1>4, <2>1, <4>1 DEF n, r
      <4>3. marked[r] = normal[n]
        BY <1>4, <2>1, <4>2 DEF n
      <4> QED  BY <1>1, <3>1, <4>1, <4>2, <4>3 DEF AmountAt
    <3>2. CASE n \notin DOMAIN requests
      <4>1. n \notin DOMAIN normal
        BY <1>1, <3>2
      <4>2. r \notin DOMAIN marked
        <5> SUFFICES ASSUME r \in DOMAIN marked PROVE FALSE
          OBVIOUS
        <5>1. PICK s \in DOMAIN normal : r = <<s[1], "RESEND">>
          BY <1>4
        <5>2. s[1] = key
          BY <5>1, <2>1
        <5> QED  BY <1>5, <4>1, <5>2 DEF n
      <4> QED  BY <3>2, <4>2 DEF AmountAt
    <3> QED  BY <3>1, <3>2
  <2>3. AmountAt(requests, r) = AmountAt(resend, r)
    BY <1>1, <2>1 DEF AmountAt
  <2>4. AmountAt(resend, n) = 0
    BY <1>1, <2>1 DEF AmountAt
  <2>5. AmountAt(marked, n) = 0
    <3>1. n \notin DOMAIN marked
      BY <1>4, <2>1
    <3> QED  BY <3>1 DEF AmountAt
  <2>6. AmountAt(requests, n) \in Nat /\ AmountAt(requests, r) \in Nat
    BY AmountAtType
  <2> QED  BY <2>2, <2>3, <2>4, <2>5, <2>6 DEF AmountIn, n, r
<1> QED  BY <1>3, <1>8, <1>9 DEF marked, normal, resend

(* What a server has not booked of the requests is still asked for.        *)
LEMMA LeftType ==
    ASSUME NEW requests, IsAmounts(requests), NEW left \in Remainders(requests)
    PROVE  /\ IsAmounts(Left(requests, left))
           /\ \A key \in Key :
                 /\ Booked(requests, left)[key] \in Nat
                 /\ AmountIn(requests, key)
                      = AmountIn(Left(requests, left), key) + Booked(requests, left)[key]
<1> DEFINE rest == Left(requests, left)
<1>1. \A slot \in DOMAIN requests :
         left[slot] \in Nat /\ left[slot] <= requests[slot].amount /\ requests[slot] \in Request
  <2> DEFINE most == Max({0} \cup {requests[slot].amount : slot \in DOMAIN requests})
  <2>1. left \in [DOMAIN requests -> 0..most]
        /\ \A slot \in DOMAIN requests : left[slot] <= requests[slot].amount
    BY DEF Remainders
  <2> HIDE DEF most
  <2>2. \A slot \in DOMAIN requests : left[slot] \in 0..most
    BY <2>1
  <2> QED  BY <2>1, <2>2 DEF IsAmounts
<1>2. DOMAIN rest = {slot \in DOMAIN requests : left[slot] > 0}
      /\ \A slot \in DOMAIN rest : rest[slot] = [requests[slot] EXCEPT !.amount = left[slot]]
  BY DEF Left
<1>3. rest = [slot \in DOMAIN rest |-> rest[slot]]
  BY DEF Left
<1> HIDE DEF rest
<1>4. \A slot \in DOMAIN rest : rest[slot] \in Request /\ rest[slot].amount = left[slot]
  BY <1>1, <1>2 DEF Request
<1>5. IsAmounts(rest)
  BY <1>2, <1>3, <1>4 DEF IsAmounts
<1>6. ASSUME NEW slot
      PROVE  AmountAt(rest, slot) <= AmountAt(requests, slot)
  <2>1. CASE slot \in DOMAIN rest
    BY <1>1, <1>2, <1>4, <2>1 DEF AmountAt
  <2>2. CASE slot \notin DOMAIN rest
    <3>1. AmountAt(rest, slot) = 0 /\ AmountAt(requests, slot) \in Nat
      BY <2>2, AmountAtType DEF AmountAt
    <3> QED  BY <3>1
  <2> QED  BY <2>1, <2>2
<1>7. ASSUME NEW key \in Key
      PROVE  /\ Booked(requests, left)[key] \in Nat
             /\ AmountIn(requests, key) = AmountIn(rest, key) + Booked(requests, left)[key]
  <2>1. Booked(requests, left)[key] = AmountIn(requests, key) - AmountIn(rest, key)
    BY DEF Booked, rest
  <2>2. /\ AmountAt(requests, <<key, "NORMAL">>) \in Nat /\ AmountAt(requests, <<key, "RESEND">>) \in Nat
        /\ AmountAt(rest, <<key, "NORMAL">>) \in Nat /\ AmountAt(rest, <<key, "RESEND">>) \in Nat
    BY <1>5, AmountAtType
  <2> QED  BY <1>6, <2>1, <2>2 DEF AmountIn
<1> QED  BY <1>5, <1>7 DEF rest

-----------------------------------------------------------------------------
(* The pool.                                                               *)

LEMMA ServersFinite ==
    /\ IsFiniteSet(Server) /\ Server \subseteq Nat /\ 0 \in Server
    /\ Cardinality(Server) = ServerCount
<1>1. ServerCount \in Nat \ {0}
  BY ServerCountAssumption
<1>2. IsFiniteSet(0..(ServerCount - 1)) /\ Cardinality(0..(ServerCount - 1)) = ServerCount
  <2>1. 0 \in Int /\ ServerCount - 1 \in Int
    BY <1>1
  <2>2. /\ IsFiniteSet(0..(ServerCount - 1))
        /\ Cardinality(0..(ServerCount - 1))
             = IF 0 > ServerCount - 1 THEN 0 ELSE (ServerCount - 1) - 0 + 1
    BY <2>1, FS_Interval
  <2> QED  BY <1>1, <2>2
<1> QED  BY <1>1, <1>2 DEF Server

LEMMA PoolParts ==
    ASSUME NEW p \in Pools
    PROVE  /\ IsAmounts(p.delayed)
           /\ \A s \in Server : IsAmounts(p.servers[s].amounts)
<1>1. p.delayed \in AnyAmounts /\ \A s \in Server : p.servers[s].amounts \in AnyAmounts
  BY DEF Pools
<1> QED  BY <1>1, AmountsAre

LEMMA InPoolType ==
    ASSUME NEW p \in Pools, NEW key
    PROVE  InPool(p, key) \in Nat
<1> DEFINE f == [s \in Server |-> AmountIn(p.servers[s].amounts, key)]
<1>1. AmountIn(p.delayed, key) \in Nat /\ \A s \in Server : f[s] \in Nat
  BY PoolParts, AmountInType
<1> HIDE DEF f
<1>2. SumOver(f, Server) \in Nat
  BY <1>1, ServersFinite, SumNotNegative
<1> QED  BY <1>1, <1>2 DEF InPool, f

(* What changes at one server changes the pool by as much.                 *)
LEMMA AtServer ==
    ASSUME NEW p \in Pools, NEW q \in Pools, NEW s \in Server, q.delayed = p.delayed,
           \A t \in Server \ {s} : q.servers[t].amounts = p.servers[t].amounts, NEW key
    PROVE  InPool(q, key) = InPool(p, key) - AmountIn(p.servers[s].amounts, key)
                            + AmountIn(q.servers[s].amounts, key)
<1> DEFINE f == [t \in Server |-> AmountIn(p.servers[t].amounts, key)]
           h == [t \in Server |-> AmountIn(q.servers[t].amounts, key)]
<1>1. \A t \in Server : f[t] \in Nat /\ h[t] \in Nat
  BY PoolParts, AmountInType
<1>2. \A t \in Server \ {s} : h[t] = f[t]
  OBVIOUS
<1>3. f[s] = AmountIn(p.servers[s].amounts, key) /\ h[s] = AmountIn(q.servers[s].amounts, key)
  OBVIOUS
<1>4. InPool(p, key) = AmountIn(p.delayed, key) + SumOver(f, Server)
      /\ InPool(q, key) = AmountIn(p.delayed, key) + SumOver(h, Server)
  BY DEF InPool
<1>5. AmountIn(p.delayed, key) \in Nat
  BY PoolParts, AmountInType
<1> HIDE DEF f, h
<1>6. SumOver(h, Server) = SumOver(f, Server) - f[s] + h[s] /\ SumOver(f, Server) \in Int
  <2>1. \A t \in Server : f[t] \in Int /\ h[t] \in Int
    BY <1>1
  <2>2. h[s] \in Int /\ IsFiniteSet(Server)
    BY <2>1, ServersFinite
  <2>3. SumOver(h, Server) = SumOver(f, Server) - f[s] + h[s]
    BY <1>2, <2>1, <2>2, SumChange
  <2> QED  BY <2>1, <2>2, <2>3, SumType
<1> QED  BY <1>1, <1>3, <1>4, <1>5, <1>6

(* The same amounts everywhere. *)
LEMMA SamePool ==
    ASSUME NEW p \in Pools, NEW q \in Pools, q.delayed = p.delayed,
           \A t \in Server : q.servers[t].amounts = p.servers[t].amounts
    PROVE  \A key : InPool(q, key) = InPool(p, key)
<1>1. \A key : AmountIn(p.servers[0].amounts, key) \in Nat
  BY PoolParts, AmountInType, ServersFinite
<1> SUFFICES ASSUME NEW key PROVE InPool(q, key) = InPool(p, key)
  OBVIOUS
<1>2. 0 \in Server
  BY ServersFinite
<1>3. InPool(q, key) = InPool(p, key) - AmountIn(p.servers[0].amounts, key)
                       + AmountIn(q.servers[0].amounts, key)
  BY <1>2, AtServer
<1> QED  BY <1>1, <1>2, <1>3, InPoolType

LEMMA EntriesType ==
    ASSUME NEW p \in Pools, NEW s \in Server
    PROVE  /\ Erase(p, s) \in [Server -> Nat]
           /\ Put(p, s) \in [Server -> Nat]
           /\ \A entries \in [Server -> Nat] : Insert(entries, s) \in [Server -> Nat]
BY DEF Pools, Erase, Put, Insert

(* q is p and the requests. *)
Takes(p, q, requests) ==
    q \in Pools /\ \A key : InPool(q, key) = InPool(p, key) + AmountIn(requests, key)

LEMMA AddToActiveAdds ==
    ASSUME NEW p \in Pools, NEW s \in Server, NEW requests, IsAmounts(requests)
    PROVE  Takes(p, AddToActive(p, s, requests), requests)
<1> DEFINE q == AddToActive(p, s, requests)
           merged == Merge(p.servers[s].amounts, requests)
<1>1. IsAmounts(merged) /\ IsAmounts(p.servers[s].amounts)
      /\ \A key : AmountIn(merged, key) = AmountIn(p.servers[s].amounts, key) + AmountIn(requests, key)
  BY MergeAdds, PoolParts
<1>2. PICK entries \in [Server -> Nat] :
         q = [p EXCEPT !.servers[s].amounts = merged, !.non_empty = entries]
  <2> DEFINE base == IF p.servers[s].amounts = NoAmounts THEN p.non_empty ELSE Erase(p, s)
  <2>1. base \in [Server -> Nat]
    BY EntriesType DEF Pools
  <2>2. Insert(base, s) \in [Server -> Nat]
    BY <2>1, EntriesType
  <2>3. q = [p EXCEPT !.servers[s].amounts = merged, !.non_empty = Insert(base, s)]
    BY DEF AddToActive, Pools
  <2> QED  BY <2>2, <2>3
<1> HIDE DEF merged, q
<1>3. merged \in AnyAmounts
  BY <1>1, AmountsAre
<1>4. /\ q \in Pools /\ q.delayed = p.delayed /\ q.servers[s].amounts = merged
      /\ \A t \in Server \ {s} : q.servers[t].amounts = p.servers[t].amounts
  BY <1>2, <1>3 DEF Pools
<1>5. ASSUME NEW key PROVE InPool(q, key) = InPool(p, key) + AmountIn(requests, key)
  <2>1. InPool(q, key) = InPool(p, key) - AmountIn(p.servers[s].amounts, key) + AmountIn(merged, key)
    BY <1>4, AtServer
  <2>2. /\ InPool(p, key) \in Nat /\ AmountIn(p.servers[s].amounts, key) \in Nat
        /\ AmountIn(requests, key) \in Nat
    BY <1>1, InPoolType, AmountInType
  <2> QED  BY <1>1, <2>1, <2>2
<1> QED  BY <1>4, <1>5 DEF Takes, q

LEMMA AddDelayedAdds ==
    ASSUME NEW p \in Pools, NEW requests, IsAmounts(requests)
    PROVE  Takes(p, AddDelayed(p, requests), requests)
<1> DEFINE q == AddDelayed(p, requests)
           merged == Merge(p.delayed, requests)
<1>1. IsAmounts(merged) /\ IsAmounts(p.delayed)
      /\ \A key : AmountIn(merged, key) = AmountIn(p.delayed, key) + AmountIn(requests, key)
  BY MergeAdds, PoolParts
<1>2. q = [p EXCEPT !.delayed = merged]
  BY DEF AddDelayed, Pools
<1> HIDE DEF merged, q
<1>3. merged \in AnyAmounts
  BY <1>1, AmountsAre
<1>4. q \in Pools /\ q.delayed = merged /\ q.servers = p.servers
  BY <1>2, <1>3 DEF Pools
<1>5. ASSUME NEW key PROVE InPool(q, key) = InPool(p, key) + AmountIn(requests, key)
  <2> DEFINE f == [s \in Server |-> AmountIn(p.servers[s].amounts, key)]
  <2>1. InPool(q, key) = AmountIn(merged, key) + SumOver(f, Server)
        /\ InPool(p, key) = AmountIn(p.delayed, key) + SumOver(f, Server)
    BY <1>4 DEF InPool
  <2>2. \A s \in Server : f[s] \in Int
    BY PoolParts, AmountInType
  <2> HIDE DEF f
  <2>3. SumOver(f, Server) \in Int
    BY <2>2, ServersFinite, SumType
  <2>4. AmountIn(p.delayed, key) \in Nat /\ AmountIn(requests, key) \in Nat
    BY <1>1, AmountInType
  <2> QED  BY <1>1, <2>1, <2>3, <2>4
<1> QED  BY <1>4, <1>5 DEF Takes, q

LEMMA AddFromAdds ==
    ASSUME NEW p \in Pools, NEW from, NEW requests, IsAmounts(requests)
    PROVE  Takes(p, AddFrom(p, from, requests), requests)
<1> DEFINE active == {s \in Server : s >= from /\ p.servers[s].active}
<1>1. CASE requests = NoAmounts
  <2>1. \A key : AmountIn(requests, key) = 0
    BY <1>1, NoAmountsType
  <2>2. \A key : InPool(p, key) \in Nat
    BY InPoolType
  <2>3. AddFrom(p, from, requests) = p
    BY <1>1 DEF AddFrom
  <2> QED  BY <2>1, <2>2, <2>3 DEF Takes
<1>2. CASE requests # NoAmounts /\ active = {}
  BY <1>2, AddDelayedAdds DEF AddFrom
<1>3. CASE requests # NoAmounts /\ active # {}
  <2>1. active \in SUBSET Nat
    BY ServersFinite
  <2>2. \E m \in active : \A n \in active : m <= n
    <3> HIDE DEF active
    <3> QED  BY <1>3, <2>1, Smallest
  <2>3. Min(active) \in active
    <3> HIDE DEF active
    <3> QED  BY <2>2 DEF Min
  <2> QED  BY <1>3, <2>3, AddToActiveAdds DEF AddFrom
<1> QED  BY <1>1, <1>2, <1>3

LEMMA AddResendAdds ==
    ASSUME NEW p \in Pools, NEW index, NEW requests, IsAmounts(requests)
    PROVE  Takes(p, AddResendToServer(p, index, requests), requests)
<1> DEFINE normal == MarkResend(OfMode(requests, "NORMAL"))
           resend == OfMode(requests, "RESEND")
<1>1. /\ IsAmounts(normal) /\ IsAmounts(resend)
      /\ \A key : AmountIn(requests, key) = AmountIn(normal, key) + AmountIn(resend, key)
  BY ResendKeeps
<1>2. PICK first, next :
         AddResendToServer(p, index, requests) = AddFrom(AddFrom(p, first, normal), next, resend)
  BY DEF AddResendToServer
<1> HIDE DEF normal, resend
<1> DEFINE q == AddFrom(p, first, normal)
<1>3. Takes(p, q, normal)
  BY <1>1, AddFromAdds
<1>4. q \in Pools
  BY <1>3 DEF Takes
<1> HIDE DEF q
<1>5. Takes(q, AddFrom(q, next, resend), resend)
  BY <1>1, <1>4, AddFromAdds
<1>6. \A key : InPool(p, key) \in Nat /\ AmountIn(normal, key) \in Nat /\ AmountIn(resend, key) \in Nat
  BY <1>1, InPoolType, AmountInType
<1> QED  BY <1>1, <1>2, <1>3, <1>5, <1>6 DEF Takes, q

LEMMA AddToServerAdds ==
    ASSUME NEW p \in Pools, NEW s \in Server, NEW requests, IsAmounts(requests)
    PROVE  Takes(p, AddToServer(p, s, requests), requests)
BY AddToActiveAdds, AddResendAdds DEF AddToServer

-----------------------------------------------------------------------------
(* The shares of a request.                                                *)

LEMMA Divided ==
    ASSUME NEW amount \in Nat
    PROVE  /\ amount \div ServerCount \in Nat /\ (amount % ServerCount) \in Nat
           /\ amount = ServerCount * (amount \div ServerCount) + (amount % ServerCount)
<1>1. ServerCount \in Nat \ {0}
  BY ServerCountAssumption
<1> QED  BY <1>1

LEMMA ShareOfAdds ==
    ASSUME NEW s \in Server, NEW request \in [key : Key, time : Nat, amount : Nat]
    PROVE  /\ IsAmounts(ShareOf(s, request)) /\ Share(s, request.amount) \in Nat
           /\ \A key : AmountIn(ShareOf(s, request), key)
                         = IF key = request.key THEN Share(s, request.amount) ELSE 0
<1> DEFINE slot == <<request.key, "NORMAL">>
           share == ShareOf(s, request)
<1>1. Share(s, request.amount) \in Nat
  BY Divided DEF Share
<1>2. share \in [{slot} -> Request] /\ DOMAIN share = {slot}
      /\ share[slot].amount = Share(s, request.amount)
  BY <1>1 DEF ShareOf, Request
<1>3. slot \in Slot
  BY SlotOf
<1>4. IsAmounts(share)
  BY <1>2, <1>3 DEF IsAmounts
<1>5. ASSUME NEW key
      PROVE  AmountIn(share, key) = IF key = request.key THEN Share(s, request.amount) ELSE 0
  <2>1. <<key, "RESEND">> # slot /\ (<<key, "NORMAL">> = slot <=> key = request.key)
    OBVIOUS
  <2>2. AmountAt(share, <<key, "RESEND">>) = 0
    BY <1>2, <2>1 DEF AmountAt
  <2>3. AmountAt(share, <<key, "NORMAL">>)
          = IF key = request.key THEN Share(s, request.amount) ELSE 0
    BY <1>2, <2>1 DEF AmountAt
  <2> QED  BY <1>1, <2>2, <2>3 DEF AmountIn
<1> QED  BY <1>1, <1>4, <1>5

(* What the servers before s, in the order 0, 2, 3, ..., 1, get of a request. *)
SharesBefore(s, amount) ==
    CASE s = 0 -> 0
      [] s = 1 -> amount - amount \div ServerCount
      [] OTHER -> (s - 1) * (amount \div ServerCount) + (amount % ServerCount)

LEMMA NextServerIs ==
    ASSUME NEW s \in Server, s = 1 => ServerCount > 1
    PROVE  /\ NextServer(s) = None <=> s = 1 \/ ServerCount = 1
           /\ NextServer(s) # None => NextServer(s) \in Server /\ NextServer(s) # 0
           /\ NextServer(s) # None /\ s = 0 => NextServer(s) = IF ServerCount > 2 THEN 2 ELSE 1
           /\ NextServer(s) # None /\ s # 0 => NextServer(s) = IF s + 1 < ServerCount THEN s + 1 ELSE 1
<1>1. ServerCount \in Nat \ {0} /\ s \in Nat /\ s < ServerCount /\ None \notin Nat
  BY ServerCountAssumption, NoneAssumption DEF Server
<1>2. Max({s + 1, 2}) = IF s = 0 THEN 2 ELSE s + 1
  <2>1. PICK m \in {s + 1, 2} : \A n \in {s + 1, 2} : m >= n
    BY <1>1
  <2>2. Max({s + 1, 2}) \in {s + 1, 2} /\ \A n \in {s + 1, 2} : Max({s + 1, 2}) >= n
    BY <2>1 DEF Max
  <2> HIDE DEF Max
  <2> QED  BY <1>1, <2>2
<1> QED  BY <1>1, <1>2 DEF NextServer, Server

(* One server after the other gets its share, and the last one the rest.   *)
LEMMA SharesAdd ==
    ASSUME NEW s \in Server, NEW amount \in Nat
    PROVE  /\ SharesBefore(s, amount) \in Nat
           /\ SharesBefore(s, amount) + Share(s, amount) <= amount
           /\ NextServer(s) # None =>
                 SharesBefore(NextServer(s), amount) = SharesBefore(s, amount) + Share(s, amount)
           /\ NextServer(s) = None => SharesBefore(s, amount) + Share(s, amount) = amount
<1> DEFINE q == amount \div ServerCount
           r == amount % ServerCount
<1>1. q \in Nat /\ r \in Nat /\ amount = ServerCount * q + r
  BY Divided
<1>2. ServerCount \in Nat \ {0} /\ s \in Nat /\ s < ServerCount
  BY ServerCountAssumption DEF Server
<1>3. /\ Share(s, amount) = IF s = 0 THEN q + r ELSE q
      /\ \A t : SharesBefore(t, amount) = CASE t = 0 -> 0 [] t = 1 -> amount - q
                                            [] OTHER -> (t - 1) * q + r
  <2>1. Share(s, amount) = q + (IF s = 0 THEN r ELSE 0)
    BY DEF Share
  <2>2. Share(s, amount) = IF s = 0 THEN q + r ELSE q
    BY <1>1, <2>1
  <2> QED  BY <2>2 DEF SharesBefore
<1>4. s = 1 => ServerCount > 1
  <2> HIDE DEF q, r
  <2> QED  BY <1>2
<1>5. /\ NextServer(s) = None <=> s = 1 \/ ServerCount = 1
      /\ NextServer(s) # None /\ s = 0 => NextServer(s) = IF ServerCount > 2 THEN 2 ELSE 1
      /\ NextServer(s) # None /\ s # 0 => NextServer(s) = IF s + 1 < ServerCount THEN s + 1 ELSE 1
  BY <1>4, NextServerIs
<1> HIDE DEF q, r
(* s times the common part. *)
<1>6. ASSUME NEW n \in Nat, n <= ServerCount
      PROVE  n * q \in Nat /\ n * q <= ServerCount * q
  BY <1>1, <1>2, <1>6
<1>7. ServerCount * q \in Nat
  BY <1>1, <1>2
<1>8. 1 * q = q /\ 2 * q = q + q
  BY <1>1
<1>9. CASE s = 0
  <2>1. SharesBefore(s, amount) = 0 /\ Share(s, amount) = q + r
    BY <1>3, <1>9
  <2>2. q <= ServerCount * q
    BY <1>2, <1>6, <1>8
  <2>3. CASE NextServer(s) = None
    <3>1. ServerCount * q = q
      BY <1>1, <1>5, <1>9, <2>3
    <3> QED  BY <1>1, <2>1, <2>3, <3>1
  <2>4. CASE NextServer(s) # None
    <3>1. CASE ServerCount > 2
      <4>1. SharesBefore(2, amount) = (2 - 1) * q + r
        BY <1>3
      <4> QED  BY <1>1, <1>5, <1>7, <1>9, <2>1, <2>2, <2>4, <3>1, <4>1
    <3>2. CASE ~(ServerCount > 2)
      <4>1. ServerCount = 2
        BY <1>2, <1>5, <1>9, <2>4, <3>2
      <4>2. SharesBefore(1, amount) = amount - q
        BY <1>3
      <4>3. ServerCount * q = q + q
        BY <1>8, <4>1
      <4> QED  BY <1>1, <1>5, <1>7, <1>9, <2>1, <2>2, <2>4, <3>2, <4>2, <4>3
    <3> QED  BY <3>1, <3>2
  <2> QED  BY <2>3, <2>4
<1>10. CASE s = 1
  <2>1. SharesBefore(s, amount) = amount - q /\ Share(s, amount) = q
    BY <1>3, <1>10
  <2>2. q <= ServerCount * q
    BY <1>2, <1>6, <1>8
  <2>3. NextServer(s) = None
    BY <1>5, <1>10
  <2> QED  BY <1>1, <1>7, <2>1, <2>2, <2>3
<1>11. CASE s # 0 /\ s # 1
  <2>1. SharesBefore(s, amount) = (s - 1) * q + r /\ Share(s, amount) = q
    BY <1>3, <1>11
  <2>2. s - 1 \in Nat /\ (s - 1) * q \in Nat /\ (s - 1) * q + q = s * q /\ s * q <= ServerCount * q
    BY <1>1, <1>2, <1>6, <1>11
  <2>3. NextServer(s) # None
    BY <1>2, <1>5, <1>11
  <2>4. CASE s + 1 < ServerCount
    <3>1. NextServer(s) = s + 1
      BY <1>5, <1>11, <2>3, <2>4
    <3>2. SharesBefore(s + 1, amount) = ((s + 1) - 1) * q + r
      BY <1>2, <1>3, <1>11
    <3>3. ((s + 1) - 1) * q = s * q
      BY <1>2
    <3>4. s * q \in Nat
      BY <1>1, <1>2
    <3> QED  BY <1>1, <1>7, <2>1, <2>2, <2>3, <3>1, <3>2, <3>3, <3>4
  <2>5. CASE ~(s + 1 < ServerCount)
    <3>1. NextServer(s) = 1 /\ ServerCount = s + 1
      BY <1>2, <1>5, <1>11, <2>3, <2>5
    <3>2. SharesBefore(1, amount) = amount - q
      BY <1>3
    <3>3. ServerCount * q = s * q + q /\ s * q \in Nat
      BY <1>1, <1>2, <3>1
    <3> QED  BY <1>1, <1>7, <2>1, <2>2, <2>3, <3>1, <3>2, <3>3
  <2> QED  BY <2>4, <2>5
<1> QED  BY <1>9, <1>10, <1>11

-----------------------------------------------------------------------------
(* What was written to the storage is what is loaded from it.              *)

LEMMA NewPoolEmpty ==
    NewPool \in Pools /\ \A key : InPool(NewPool, key) = 0
<1>1. NoAmounts \in AnyAmounts
  BY NoAmountsType, AmountsAre
<1>2. NewPool \in Pools
  BY <1>1 DEF NewPool, Pools
<1>3. ASSUME NEW key PROVE InPool(NewPool, key) = 0
  <2> DEFINE f == [s \in Server |-> AmountIn(NewPool.servers[s].amounts, key)]
  <2>1. \A s \in Server : f[s] = 0
    BY NoAmountsType DEF NewPool
  <2>2. AmountIn(NewPool.delayed, key) = 0
    BY NoAmountsType DEF NewPool
  <2>3. InPool(NewPool, key) = 0 + SumOver(f, Server)
    BY <2>2 DEF InPool
  <2> HIDE DEF f
  <2>4. SumOver(f, Server) = 0
    BY <2>1, ServersFinite, SumOfZeros
  <2> QED  BY <2>3, <2>4
<1> QED  BY <1>2, <1>3

(* The fold over the servers by which one key is loaded.                   *)
IsSharing(g, base, request, S) ==
    g = [s \in SUBSET S |->
            IF s = {} THEN base
            ELSE AddToServer(g[s \ {Chosen(s)}], Chosen(s), ShareOf(Chosen(s), request))]

LEMMA SharingExists ==
    ASSUME NEW base \in Pools, NEW request \in [key : Key, time : Nat, amount : Nat],
           NEW S \in SUBSET Server
    PROVE  \E g : IsSharing(g, base, request, S)
<1> DEFINE step == [x \in S \X Pools |-> AddToServer(x[2], x[1], ShareOf(x[1], request))]
<1>1. \A x \in S \X Pools : AddToServer(x[2], x[1], ShareOf(x[1], request)) \in Pools
  BY ShareOfAdds, AddToServerAdds DEF Takes
<1>2. step \in [S \X Pools -> Pools]
  BY <1>1
<1>3. \A s \in S, p \in Pools : step[<<s, p>>] = AddToServer(p, s, ShareOf(s, request))
  OBVIOUS
<1> HIDE DEF step
<1>4. IsFiniteSet(S)
  BY ServersFinite, FS_Subset
<1>5. PICK g : IsFold(g, step, base, S)
  BY <1>4, FoldExists
<1>6. ASSUME NEW s \in SUBSET S, s # {}
      PROVE  step[<<Chosen(s), g[s \ {Chosen(s)}]>>]
               = AddToServer(g[s \ {Chosen(s)}], Chosen(s), ShareOf(Chosen(s), request))
  <2>1. Chosen(s) \in S /\ s \ {Chosen(s)} \in SUBSET S
    BY <1>6, ChosenIsElement
  <2>2. g[s \ {Chosen(s)}] \in Pools
    BY <1>2, <1>4, <1>5, <2>1, FoldType
  <2> QED  BY <1>3, <2>1, <2>2
<1>7. IsSharing(g, base, request, S)
  BY <1>5, <1>6 DEF IsFold, IsSharing
<1> QED  BY <1>7

LEMMA SharingAdds ==
    ASSUME NEW base \in Pools, NEW request \in [key : Key, time : Nat, amount : Nat],
           NEW S \in SUBSET (Server \ {0}), NEW g, IsSharing(g, base, request, S)
    PROVE  /\ g[S] \in Pools
           /\ \A k : InPool(g[S], k)
                       = InPool(base, k) + (IF k = request.key
                                            THEN Cardinality(S) * (request.amount \div ServerCount) ELSE 0)
<1> DEFINE q == request.amount \div ServerCount
           Good(s) == /\ g[s] \in Pools
                      /\ \A k : InPool(g[s], k) = InPool(base, k)
                                   + (IF k = request.key THEN Cardinality(s) * q ELSE 0)
           Failing == {s \in SUBSET S : ~Good(s)}
<1>finite. \A s \in SUBSET S : IsFiniteSet(s) /\ Cardinality(s) \in Nat
  BY ServersFinite, FS_Subset, FS_CardinalityType
<1>q. q \in Nat
  BY Divided
<1>1. SUFFICES ASSUME Failing # {} PROVE FALSE
  <2>1. S \in SUBSET S
    OBVIOUS
  <2>2. Good(S)
    BY <1>1, <2>1
  <2> QED  BY <2>2
<1>2. Failing \in SUBSET (SUBSET S) /\ IsFiniteSet(S)
  BY <1>finite
<1>3. \E s \in Failing : \A u \in SUBSET s : u # s => u \notin Failing
  <2> HIDE DEF Failing
  <2> QED  BY <1>1, <1>2, SmallestSubset
<1>4. PICK s \in Failing : \A u \in SUBSET s : u # s => u \notin Failing
  BY <1>3
<1>5. s \in SUBSET S
  OBVIOUS
<1>6. CASE s = {}
  <2>1. g[s] = base
    BY <1>5, <1>6 DEF IsSharing
  <2>2. Cardinality(s) * q = 0
    BY <1>6, <1>q, FS_EmptySet
  <2>3. \A k : InPool(base, k) \in Nat
    BY InPoolType
  <2> HIDE DEF q
  <2>4. Good(s)
    BY <2>1, <2>2, <2>3
  <2> QED  BY <2>4
<1>7. CASE s # {}
  <2> DEFINE e == Chosen(s)
             u == s \ {e}
             p == g[u]
  <2>1. e \in s /\ e \in Server /\ e # 0 /\ u \in SUBSET s /\ u # s
    BY <1>7, ChosenIsElement
  <2>2. g[s] = AddToServer(p, e, ShareOf(e, request))
    BY <1>5, <1>7 DEF IsSharing
  <2>3. Good(u)
    BY <1>4, <2>1
  <2>4. Cardinality(u) = Cardinality(s) - 1 /\ Cardinality(u) \in Nat
    BY <1>finite, <2>1, FS_RemoveElement
  <2>5. Share(e, request.amount) = q
    BY <1>q, <2>1 DEF Share
  <2>6. Cardinality(s) * q = Cardinality(u) * q + q /\ Cardinality(u) * q \in Nat
    <3> DEFINE m == Cardinality(u)
    <3>1. Cardinality(s) = m + 1 /\ m \in Nat
      BY <1>finite, <2>4
    <3> HIDE DEF m, q
    <3>2. (m + 1) * q = m * q + q /\ m * q \in Nat
      BY <1>q, <3>1
    <3> QED  BY <3>1, <3>2 DEF m
  <2> HIDE DEF e, u, Failing
  <2>7. p \in Pools /\ \A k : InPool(p, k) = InPool(base, k)
                                   + (IF k = request.key THEN Cardinality(u) * q ELSE 0)
    BY <2>3
  <2>8. IsAmounts(ShareOf(e, request))
        /\ \A k : AmountIn(ShareOf(e, request), k) = IF k = request.key THEN q ELSE 0
    BY <2>1, <2>5, ShareOfAdds
  <2> HIDE DEF p, q
  <2>9. g[s] \in Pools
        /\ \A k : InPool(g[s], k) = InPool(p, k) + (IF k = request.key THEN q ELSE 0)
    BY <2>1, <2>2, <2>7, <2>8, AddToServerAdds DEF Takes
  <2>10. \A k : InPool(base, k) \in Nat
    BY InPoolType
  <2>11. ASSUME NEW k
         PROVE  InPool(g[s], k) = InPool(base, k)
                   + (IF k = request.key THEN Cardinality(s) * q ELSE 0)
    <3>1. CASE k = request.key
      BY <1>q, <2>6, <2>7, <2>9, <2>10, <3>1
    <3>2. CASE k # request.key
      BY <2>7, <2>9, <2>10, <3>2
    <3> QED  BY <3>1, <3>2
  <2>12. Good(s)
    BY <2>9, <2>11
  <2> QED  BY <2>12 DEF Failing
<1> QED  BY <1>6, <1>7

LEMMA LoadKeyIs ==
    ASSUME NEW key, NEW p, NEW amount
    PROVE  LET request == [key |-> key, time |-> 0, amount |-> amount]
               first == AddToServer(p, 0, ShareOf(0, request))
               rest == Server \ {0, 1}
           IN  LoadKey(key, p, amount) =
                 IF ServerCount = 1 THEN first
                 ELSE AddToServer((CHOOSE g : IsSharing(g, first, request, rest))[rest],
                                  1, ShareOf(1, request))
BY DEF LoadKey, FoldSet, MapThenFoldSet, IsSharing, Chosen

LEMMA LoadKeyAdds ==
    ASSUME NEW key \in Key, NEW p \in Pools, NEW amount \in Nat
    PROVE  /\ LoadKey(key, p, amount) \in Pools
           /\ \A k : InPool(LoadKey(key, p, amount), k)
                       = InPool(p, k) + (IF k = key THEN amount ELSE 0)
<1> DEFINE request == [key |-> key, time |-> 0, amount |-> amount]
           first == AddToServer(p, 0, ShareOf(0, request))
           rest == Server \ {0, 1}
           others == (CHOOSE g : IsSharing(g, first, request, rest))[rest]
           q == amount \div ServerCount
           r == amount % ServerCount
<1>1. request \in [key : Key, time : Nat, amount : Nat] /\ request.key = key /\ request.amount = amount
  OBVIOUS
<1>2. LoadKey(key, p, amount)
        = IF ServerCount = 1 THEN first ELSE AddToServer(others, 1, ShareOf(1, request))
  BY LoadKeyIs
<1>3. others = (CHOOSE g : IsSharing(g, first, request, rest))[rest]
  OBVIOUS
<1>4. q \in Nat /\ r \in Nat /\ amount = ServerCount * q + r
  BY Divided
<1>5. Share(0, amount) = q + r /\ \A s \in Server \ {0} : Share(s, amount) = q
  BY <1>4 DEF Share
<1>6. 0 \in Server /\ ServerCount \in Nat \ {0} /\ (ServerCount # 1 => 1 \in Server)
  BY ServerCountAssumption DEF Server
<1>7. \A k : InPool(p, k) \in Nat
  BY InPoolType
<1> HIDE DEF request, others
<1>8. /\ IsAmounts(ShareOf(0, request))
      /\ \A k : AmountIn(ShareOf(0, request), k) = IF k = key THEN q + r ELSE 0
  BY <1>1, <1>5, <1>6, ShareOfAdds
<1>9. /\ first \in Pools
      /\ \A k : InPool(first, k) = InPool(p, k) + (IF k = key THEN q + r ELSE 0)
  BY <1>6, <1>8, AddToServerAdds DEF Takes
<1> HIDE DEF first, q, r
<1>10. CASE ServerCount = 1
  <2>1. amount = q + r
    BY <1>4, <1>10
  <2> QED  BY <1>2, <1>9, <1>10, <2>1
<1>11. CASE ServerCount # 1
  <2> DEFINE g == CHOOSE h : IsSharing(h, first, request, rest)
  <2>1. rest \in SUBSET (Server \ {0}) /\ rest \in SUBSET Server
    OBVIOUS
  <2>2. IsSharing(g, first, request, rest)
    BY <1>1, <1>9, <2>1, SharingExists
  <2>3. Cardinality(rest) = ServerCount - 2 /\ Cardinality(rest) \in Nat
    <3>1. IsFiniteSet(Server) /\ Cardinality(Server) = ServerCount
      BY ServersFinite
    <3>2. Cardinality(Server \ {0}) = ServerCount - 1 /\ IsFiniteSet(Server \ {0})
      BY <1>6, <3>1, FS_RemoveElement
    <3>3. 1 \in Server \ {0} /\ rest = (Server \ {0}) \ {1}
      BY <1>6, <1>11
    <3>4. Cardinality(rest) = ServerCount - 1 - 1
      BY <3>2, <3>3, FS_RemoveElement
    <3> QED  BY <1>6, <1>11, <3>4
  <2>4. /\ others \in Pools
        /\ \A k : InPool(others, k) = InPool(first, k)
                                   + (IF k = key THEN Cardinality(rest) * q ELSE 0)
    <3> HIDE DEF g
    <3>1. others = g[rest]
      BY <1>3 DEF g
    <3>2. /\ g[rest] \in Pools
          /\ \A k : InPool(g[rest], k) = InPool(first, k)
                        + (IF k = request.key
                           THEN Cardinality(rest) * (request.amount \div ServerCount) ELSE 0)
      <4> HIDE DEF rest
      <4>1. request \in [key : Key, time : Nat, amount : Nat] /\ first \in Pools
            /\ rest \in SUBSET (Server \ {0}) /\ IsSharing(g, first, request, rest)
        BY <1>1, <1>9, <2>1, <2>2
      <4>2. g[rest] \in Pools
        BY <4>1, SharingAdds
      <4>3. \A k : InPool(g[rest], k) = InPool(first, k)
                        + (IF k = request.key
                           THEN Cardinality(rest) * (request.amount \div ServerCount) ELSE 0)
        BY <4>1, SharingAdds
      <4> QED  BY <4>2, <4>3
    <3> HIDE DEF rest
    <3> QED  BY <1>1, <3>1, <3>2 DEF q
  <2>5. /\ IsAmounts(ShareOf(1, request))
        /\ \A k : AmountIn(ShareOf(1, request), k) = IF k = key THEN q ELSE 0
    BY <1>1, <1>5, <1>6, <1>11, ShareOfAdds
  <2> DEFINE all == AddToServer(others, 1, ShareOf(1, request))
  <2>6. /\ all \in Pools
        /\ \A k : InPool(all, k) = InPool(others, k) + (IF k = key THEN q ELSE 0)
    BY <1>6, <1>11, <2>4, <2>5, AddToServerAdds DEF Takes
  <2>7. amount = q + r + Cardinality(rest) * q + q /\ Cardinality(rest) * q \in Nat
    <3> DEFINE m == Cardinality(rest)
    <3>1. m \in Nat /\ ServerCount = m + 2
      BY <1>6, <2>3
    <3> HIDE DEF m
    <3>2. (m + 2) * q = m * q + q + q /\ m * q \in Nat
      BY <1>4, <3>1
    <3> QED  BY <1>4, <3>1, <3>2 DEF m
  <2> HIDE DEF all, rest
  <2>8. ASSUME NEW k
        PROVE  InPool(all, k) = InPool(p, k) + (IF k = key THEN amount ELSE 0)
    <3>1. CASE k = key
      BY <1>4, <1>7, <1>9, <2>4, <2>6, <2>7, <3>1
    <3>2. CASE k # key
      BY <1>7, <1>9, <2>4, <2>6, <3>2
    <3> QED  BY <3>1, <3>2
  <2> QED  BY <1>2, <1>11, <2>6, <2>8 DEF all
<1> QED  BY <1>10, <1>11

(* The fold over the keys of the file.                                     *)
IsLoading(g, file, S) ==
    g = [s \in SUBSET S |->
            IF s = {} THEN NewPool
            ELSE LoadKey(Chosen(s), g[s \ {Chosen(s)}], file[Chosen(s)])]

IsFile(file) == DOMAIN file \subseteq Key /\ file \in [DOMAIN file -> Nat]

LEMMA LoadIs ==
    ASSUME NEW file
    PROVE  Load(file) = (CHOOSE g : IsLoading(g, file, DOMAIN file))[DOMAIN file]
BY DEF Load, FoldSet, MapThenFoldSet, IsLoading, Chosen

LEMMA LoadingExists ==
    ASSUME NEW file, IsFile(file)
    PROVE  \E g : IsLoading(g, file, DOMAIN file)
<1> DEFINE S == DOMAIN file
           step == [x \in S \X Pools |-> LoadKey(x[1], x[2], file[x[1]])]
<1>1. \A x \in S \X Pools : LoadKey(x[1], x[2], file[x[1]]) \in Pools
  BY LoadKeyAdds DEF IsFile
<1>2. step \in [S \X Pools -> Pools]
  BY <1>1
<1>3. \A s \in S, p \in Pools : step[<<s, p>>] = LoadKey(s, p, file[s])
  OBVIOUS
<1> HIDE DEF step
<1>4. IsFiniteSet(S)
  BY RequestAssumption, FS_Subset DEF IsFile
<1>5. PICK g : IsFold(g, step, NewPool, S)
  BY <1>4, FoldExists
<1>6. ASSUME NEW s \in SUBSET S, s # {}
      PROVE  step[<<Chosen(s), g[s \ {Chosen(s)}]>>]
               = LoadKey(Chosen(s), g[s \ {Chosen(s)}], file[Chosen(s)])
  <2>1. Chosen(s) \in S /\ s \ {Chosen(s)} \in SUBSET S
    BY <1>6, ChosenIsElement
  <2>2. g[s \ {Chosen(s)}] \in Pools
    BY <1>2, <1>4, <1>5, <2>1, NewPoolEmpty, FoldType
  <2> QED  BY <1>3, <2>1, <2>2
<1>7. IsLoading(g, file, S)
  BY <1>5, <1>6 DEF IsFold, IsLoading
<1> QED  BY <1>7

(* A file is loaded as it is: its amounts, and nothing of other keys.      *)
LEMMA LoadAdds ==
    ASSUME NEW file, IsFile(file)
    PROVE  /\ Load(file) \in Pools
           /\ \A k : InPool(Load(file), k) = IF k \in DOMAIN file THEN file[k] ELSE 0
<1> DEFINE S == DOMAIN file
           g == CHOOSE h : IsLoading(h, file, S)
           Good(s) == /\ g[s] \in Pools
                      /\ \A k : InPool(g[s], k) = IF k \in s THEN file[k] ELSE 0
           Failing == {s \in SUBSET S : ~Good(s)}
<1>loading. IsLoading(g, file, S) /\ Load(file) = g[S]
  BY LoadingExists, LoadIs
<1> HIDE DEF g
<1>1. SUFFICES ASSUME Failing # {} PROVE FALSE
  <2>1. S \in SUBSET S
    OBVIOUS
  <2>2. Good(S)
    BY <1>1, <2>1
  <2> QED  BY <1>loading, <2>2
<1>2. Failing \in SUBSET (SUBSET S) /\ IsFiniteSet(S)
  BY RequestAssumption, FS_Subset DEF IsFile
<1>3. \E s \in Failing : \A u \in SUBSET s : u # s => u \notin Failing
  <2> HIDE DEF Failing
  <2> QED  BY <1>1, <1>2, SmallestSubset
<1>4. PICK s \in Failing : \A u \in SUBSET s : u # s => u \notin Failing
  BY <1>3
<1>5. s \in SUBSET S
  OBVIOUS
<1>6. CASE s = {}
  <2>1. g[s] = NewPool
    BY <1>loading, <1>5, <1>6 DEF IsLoading
  <2>2. Good(s)
    BY <1>6, <2>1, NewPoolEmpty
  <2> QED  BY <2>2
<1>7. CASE s # {}
  <2> DEFINE e == Chosen(s)
             u == s \ {e}
             p == g[u]
  <2>1. e \in s /\ e \in Key /\ file[e] \in Nat /\ u \in SUBSET s /\ u # s
    BY <1>7, ChosenIsElement DEF IsFile
  <2>2. g[s] = LoadKey(e, p, file[e])
    BY <1>loading, <1>5, <1>7 DEF IsLoading
  <2>3. Good(u)
    BY <1>4, <2>1
  <2>4. s = u \cup {e} /\ e \notin u
    BY <2>1
  <2> HIDE DEF e, u, Failing
  <2>5. p \in Pools /\ \A k : InPool(p, k) = IF k \in u THEN file[k] ELSE 0
    BY <2>3
  <2> HIDE DEF p
  <2>6. g[s] \in Pools
        /\ \A k : InPool(g[s], k) = InPool(p, k) + (IF k = e THEN file[e] ELSE 0)
    BY <2>1, <2>2, <2>5, LoadKeyAdds
  <2>7. \A k : InPool(p, k) \in Nat
    BY <2>5, InPoolType
  <2>8. Good(s)
    BY <2>1, <2>4, <2>5, <2>6, <2>7
  <2> QED  BY <2>8 DEF Failing
<1> QED  BY <1>6, <1>7

(* A holder has nothing of a key it does not have.                         *)
LEMMA SaveIs ==
    ASSUME NEW p \in Pools
    PROVE  /\ IsFile(Save(p))
           /\ \A key \in Key : (IF key \in DOMAIN Save(p) THEN Save(p)[key] ELSE 0) = InPool(p, key)
<1>1. DOMAIN Save(p) = KeysOf(p) /\ \A key \in KeysOf(p) : Save(p)[key] = InPool(p, key)
  BY DEF Save
<1>2. KeysOf(p) \subseteq Key
  <2>1. /\ \A slot \in DOMAIN p.delayed : slot \in Slot
        /\ \A s \in Server : \A slot \in DOMAIN p.servers[s].amounts : slot \in Slot
    BY PoolParts DEF IsAmounts
  <2> QED  BY <2>1 DEF KeysOf, Slot
<1>3. IsFile(Save(p))
  BY <1>1, <1>2, InPoolType DEF IsFile, Save
<1>4. ASSUME NEW key \in Key, key \notin KeysOf(p) PROVE InPool(p, key) = 0
  <2> DEFINE f == [s \in Server |-> AmountIn(p.servers[s].amounts, key)]
  <2>1. \A slot : slot[1] = key => slot \notin DOMAIN p.delayed
                    /\ \A s \in Server : slot \notin DOMAIN p.servers[s].amounts
    BY <1>4 DEF KeysOf
  <2>2. <<key, "NORMAL">>[1] = key /\ <<key, "RESEND">>[1] = key
    OBVIOUS
  <2>3. \A s \in Server : f[s] = 0
    BY <2>1, <2>2 DEF AmountIn, AmountAt
  <2>4. AmountIn(p.delayed, key) = 0
    BY <2>1, <2>2 DEF AmountIn, AmountAt
  <2>5. InPool(p, key) = 0 + SumOver(f, Server)
    BY <2>4 DEF InPool
  <2> HIDE DEF f
  <2>6. SumOver(f, Server) = 0
    BY <2>3, ServersFinite, SumOfZeros
  <2> QED  BY <2>5, <2>6
<1> QED  BY <1>1, <1>3, <1>4

-----------------------------------------------------------------------------
(* The inductive invariant.  The workers and the delaying task hold what   *)
(* they took from the pool; what a caller has shared out so far of its     *)
(* request is in the pool, and the rest is still to come.                  *)

Correction == [key : Key, time : Nat, amount : Nat]
Adding == [server : Server, request : Correction]

WorkerState ==
    {x \in [pc       : {"get", "check", "send", "resend", "left"},
            server   : {None} \cup Server,
            requests : AnyAmounts] :
        /\ x.pc \in {"check", "send", "resend"} => x.server \in Server
        /\ x.pc \in {"get", "check", "left"} => x.requests = NoAmounts}

DelayState ==
    {x \in [server : {None} \cup 0..ServerCount, requests : AnyAmounts] :
        x.server = None => x.requests = NoAmounts}

PoolTypes ==
    /\ pool \in Pools
    /\ adding \in [Callers -> {None} \cup Adding]
    /\ worker \in [Workers -> WorkerState]
    /\ delaying \in DelayState
    /\ process \in {"running", "stopping", "dumped"}
    /\ process = "dumped" => AllLeft /\ IsFile(disk)
    /\ begun \in [Key -> Nat] /\ accepted \in [Key -> Nat]
    /\ billed \in [Key -> Nat] /\ unheard \in [Key -> Nat]

(* Of a key, what a caller has shared out and what it has not.             *)
GivenBy(add, key) ==
    IF add = None \/ add.request.key # key THEN 0
    ELSE SharesBefore(add.server, add.request.amount)

ComingFrom(add, key) ==
    IF add = None \/ add.request.key # key THEN 0
    ELSE add.request.amount - SharesBefore(add.server, add.request.amount)

Given(callers, key) == SumOver([c \in Callers |-> GivenBy(callers[c], key)], Callers)

Coming(callers, key) == SumOver([c \in Callers |-> ComingFrom(callers[c], key)], Callers)

HeldBy(workers, key) == SumOver([w \in Workers |-> AmountIn(workers[w].requests, key)], Workers)

(* What the running process has: in the pool, on its way, in the task.     *)
InProcess(p, delayed, workers, key) ==
    InPool(p, key) + AmountIn(delayed.requests, key) + HeldBy(workers, key)

Conserved(key) ==
    /\ accepted[key] + (IF process = "dumped" THEN 0 ELSE Given(adding, key))
         <= billed[key] + Held(key)
    /\ billed[key] + Held(key) + Coming(adding, key) <= begun[key] + unheard[key]

PoolInv == PoolTypes /\ \A key \in Key : Conserved(key)

LEMMA AddingType ==
    ASSUME NEW add \in {None} \cup Adding, NEW key
    PROVE  /\ GivenBy(add, key) \in Nat /\ ComingFrom(add, key) \in Nat
           /\ add \in Adding => add # None
<1>1. Adding \subseteq [server : Nat, request : [key : Key, time : Nat, amount : Nat]]
  BY ServersFinite DEF Adding, Correction
<1>2. None \notin Adding
  BY <1>1, NoneAssumption
<1>3. CASE add = None
  BY <1>2, <1>3 DEF GivenBy, ComingFrom
<1>4. CASE add # None
  <2>1. add \in Adding /\ add.server \in Server /\ add.request.amount \in Nat
    BY <1>4 DEF Adding, Correction
  <2> DEFINE given == SharesBefore(add.server, add.request.amount)
             share == Share(add.server, add.request.amount)
  <2>2. given \in Nat /\ share \in Nat /\ given + share <= add.request.amount
    <3>1. add.request \in [key : Key, time : Nat, amount : Nat]
      BY <2>1 DEF Adding, Correction
    <3> QED  BY <2>1, <3>1, SharesAdd, ShareOfAdds
  <2> HIDE DEF given, share
  <2>3. given \in Nat /\ add.request.amount - given \in Nat
    BY <2>1, <2>2
  <2> QED  BY <2>1, <2>3, <1>4 DEF GivenBy, ComingFrom, given
<1> QED  BY <1>3, <1>4

(* One caller goes on. *)
LEMMA CallerChanges ==
    ASSUME NEW u \in [Callers -> {None} \cup Adding], NEW v \in [Callers -> {None} \cup Adding],
           NEW c \in Callers, \A d \in Callers \ {c} : v[d] = u[d], NEW key
    PROVE  /\ Given(v, key) = Given(u, key) - GivenBy(u[c], key) + GivenBy(v[c], key)
           /\ Coming(v, key) = Coming(u, key) - ComingFrom(u[c], key) + ComingFrom(v[c], key)
<1> DEFINE g == [d \in Callers |-> GivenBy(u[d], key)]
           h == [d \in Callers |-> GivenBy(v[d], key)]
           i == [d \in Callers |-> ComingFrom(u[d], key)]
           j == [d \in Callers |-> ComingFrom(v[d], key)]
<1>1. \A d \in Callers : g[d] \in Int /\ h[d] \in Int /\ i[d] \in Int /\ j[d] \in Int
  <2>1. \A d \in Callers : u[d] \in {None} \cup Adding /\ v[d] \in {None} \cup Adding
    OBVIOUS
  <2>2. \A add \in {None} \cup Adding : GivenBy(add, key) \in Int /\ ComingFrom(add, key) \in Int
    BY AddingType
  <2> QED  BY <2>1, <2>2
<1>2. \A d \in Callers \ {c} : h[d] = g[d] /\ j[d] = i[d]
  OBVIOUS
<1>3. /\ g[c] = GivenBy(u[c], key) /\ h[c] = GivenBy(v[c], key)
      /\ i[c] = ComingFrom(u[c], key) /\ j[c] = ComingFrom(v[c], key)
  OBVIOUS
<1>4. /\ Given(u, key) = SumOver(g, Callers) /\ Given(v, key) = SumOver(h, Callers)
      /\ Coming(u, key) = SumOver(i, Callers) /\ Coming(v, key) = SumOver(j, Callers)
  BY DEF Given, Coming
<1> HIDE DEF g, h, i, j
<1>5. SumOver(h, Callers) = SumOver(g, Callers) - g[c] + h[c]
  BY <1>1, <1>2, ThreadAssumption, SumChange
<1>6. SumOver(j, Callers) = SumOver(i, Callers) - i[c] + j[c]
  BY <1>1, <1>2, ThreadAssumption, SumChange
<1> QED  BY <1>3, <1>4, <1>5, <1>6

LEMMA CallersType ==
    ASSUME NEW u \in [Callers -> {None} \cup Adding], NEW key
    PROVE  Given(u, key) \in Nat /\ Coming(u, key) \in Nat
<1> DEFINE g == [d \in Callers |-> GivenBy(u[d], key)]
           i == [d \in Callers |-> ComingFrom(u[d], key)]
<1>1. \A d \in Callers : g[d] \in Nat /\ i[d] \in Nat
  BY AddingType
<1>2. Given(u, key) = SumOver(g, Callers) /\ Coming(u, key) = SumOver(i, Callers)
  BY DEF Given, Coming
<1> HIDE DEF g, i
<1> QED  BY <1>1, <1>2, ThreadAssumption, SumNotNegative

LEMMA NobodyAdds ==
    ASSUME NEW key
    PROVE  /\ Given([c \in Callers |-> None], key) = 0
           /\ Coming([c \in Callers |-> None], key) = 0
<1> DEFINE g == [d \in Callers |-> GivenBy([c \in Callers |-> None][d], key)]
           i == [d \in Callers |-> ComingFrom([c \in Callers |-> None][d], key)]
<1>1. \A d \in Callers : g[d] = 0 /\ i[d] = 0
  BY DEF GivenBy, ComingFrom
<1>2. /\ Given([c \in Callers |-> None], key) = SumOver(g, Callers)
      /\ Coming([c \in Callers |-> None], key) = SumOver(i, Callers)
  BY DEF Given, Coming
<1> HIDE DEF g, i
<1> QED  BY <1>1, <1>2, ThreadAssumption, SumOfZeros

(* One worker goes on. *)
LEMMA WorkerChanges ==
    ASSUME NEW u \in [Workers -> WorkerState], NEW v \in [Workers -> WorkerState],
           NEW w \in Workers, \A x \in Workers \ {w} : v[x] = u[x], NEW key
    PROVE  HeldBy(v, key) = HeldBy(u, key) - AmountIn(u[w].requests, key)
                            + AmountIn(v[w].requests, key)
<1> DEFINE g == [x \in Workers |-> AmountIn(u[x].requests, key)]
           h == [x \in Workers |-> AmountIn(v[x].requests, key)]
<1>0. \A x \in WorkerState : IsAmounts(x.requests)
  BY AmountsAre DEF WorkerState
<1>1. \A x \in Workers : g[x] \in Nat
  BY <1>0, AmountInType
<1>2. \A x \in Workers \ {w} : h[x] = g[x]
  OBVIOUS
<1>3. g[w] = AmountIn(u[w].requests, key) /\ h[w] = AmountIn(v[w].requests, key)
  OBVIOUS
<1>4. HeldBy(u, key) = SumOver(g, Workers) /\ HeldBy(v, key) = SumOver(h, Workers)
  BY DEF HeldBy
<1>5. h[w] \in Nat
  BY <1>0, <1>3, AmountInType
<1> HIDE DEF g, h
<1>6. \A x \in Workers : g[x] \in Int
  BY <1>1
<1>7. h[w] \in Int
  BY <1>5
<1>8. SumOver(h, Workers) = SumOver(g, Workers) - g[w] + h[w]
  BY <1>2, <1>6, <1>7, ThreadAssumption, SumChange
<1> QED  BY <1>3, <1>4, <1>8

LEMMA WorkersType ==
    ASSUME NEW u, \A x \in Workers : IsAmounts(u[x].requests), NEW key
    PROVE  HeldBy(u, key) \in Nat
<1> DEFINE g == [x \in Workers |-> AmountIn(u[x].requests, key)]
<1>1. \A x \in Workers : g[x] \in Nat
  BY AmountInType
<1>2. HeldBy(u, key) = SumOver(g, Workers)
  BY DEF HeldBy
<1> HIDE DEF g
<1> QED  BY <1>1, <1>2, ThreadAssumption, SumNotNegative

LEMMA NobodyHolds ==
    ASSUME NEW u, \A x \in Workers : u[x].requests = NoAmounts, NEW key
    PROVE  HeldBy(u, key) = 0
<1> DEFINE g == [x \in Workers |-> AmountIn(u[x].requests, key)]
<1>1. \A x \in Workers : g[x] = 0
  BY NoAmountsType
<1>2. HeldBy(u, key) = SumOver(g, Workers)
  BY DEF HeldBy
<1> HIDE DEF g
<1> QED  BY <1>1, <1>2, ThreadAssumption, SumOfZeros

LEMMA InProcessType ==
    ASSUME NEW p \in Pools, NEW d \in DelayState, NEW ws \in [Workers -> WorkerState]
    PROVE  /\ IsAmounts(d.requests)
           /\ \A w \in Workers : IsAmounts(ws[w].requests)
           /\ \A key : /\ InPool(p, key) \in Nat /\ AmountIn(d.requests, key) \in Nat
                       /\ HeldBy(ws, key) \in Nat /\ InProcess(p, d, ws, key) \in Nat
<1>1. IsAmounts(d.requests) /\ \A w \in Workers : IsAmounts(ws[w].requests)
  BY AmountsAre DEF DelayState, WorkerState
<1>2. \A key : /\ InPool(p, key) \in Nat /\ AmountIn(d.requests, key) \in Nat
               /\ HeldBy(ws, key) \in Nat
  BY <1>1, InPoolType, AmountInType, WorkersType
<1> QED  BY <1>1, <1>2 DEF InProcess

(* What is held while the process runs, and after it. *)
LEMMA HeldIs ==
    ASSUME PoolTypes, NEW key \in Key
    PROVE  /\ Held(key) \in Nat
           /\ process # "dumped" => Held(key) = InProcess(pool, delaying, worker, key)
<1>1. \A k : /\ InPool(pool, k) \in Nat /\ AmountIn(delaying.requests, k) \in Nat
             /\ HeldBy(worker, k) \in Nat
  BY InProcessType DEF PoolTypes
<1>2. process # "dumped" => Held(key) = InProcess(pool, delaying, worker, key)
  BY DEF Held, InProcess, HeldBy
<1>3. process = "dumped" => Held(key) \in Nat
  BY DEF Held, PoolTypes, IsFile
<1> QED  BY <1>1, <1>2, <1>3 DEF InProcess

LEMMA HeldIsNext ==
    ASSUME PoolTypes', NEW key \in Key
    PROVE  /\ Held(key)' \in Nat
           /\ process' # "dumped" => Held(key)' = InProcess(pool', delaying', worker', key)
<1>1. \A k : /\ InPool(pool', k) \in Nat /\ AmountIn(delaying'.requests, k) \in Nat
             /\ HeldBy(worker', k) \in Nat
  BY InProcessType DEF PoolTypes
<1>2. process' # "dumped" => Held(key)' = InProcess(pool', delaying', worker', key)
  BY DEF Held, InProcess, HeldBy
<1>3. process' = "dumped" => Held(key)' \in Nat
  BY DEF Held, PoolTypes, IsFile
<1> QED  BY <1>1, <1>2, <1>3 DEF InProcess

(* A step of a worker or of the delaying task: what leaves the process is  *)
(* booked, and what is booked leaves the process or is not heard of.       *)
LEMMA Flow ==
    ASSUME PoolInv, process # "dumped", UNCHANGED <<process, adding, begun, accepted>>,
           pool' \in Pools, worker' \in [Workers -> WorkerState], delaying' \in DelayState,
           billed' \in [Key -> Nat], unheard' \in [Key -> Nat],
           \A key \in Key :
              LET before == InProcess(pool, delaying, worker, key)
                  after  == InProcess(pool', delaying', worker', key)
              IN  /\ billed[key] + before <= billed'[key] + after
                  /\ billed'[key] + after + unheard[key] <= billed[key] + before + unheard'[key]
    PROVE  PoolInv'
<1>1. PoolTypes'
  BY DEF PoolInv, PoolTypes
<1>2. ASSUME NEW key \in Key PROVE Conserved(key)'
  <2> DEFINE before == InProcess(pool, delaying, worker, key)
             after == InProcess(pool', delaying', worker', key)
             given == Given(adding, key)
             coming == Coming(adding, key)
  <2>1. /\ Held(key) = before /\ before \in Nat
        /\ Held(key)' = after /\ after \in Nat
    <3>1. PoolTypes
      BY DEF PoolInv
    <3> QED  BY <1>1, <3>1, HeldIs, HeldIsNext
  <2>2. given \in Nat /\ coming \in Nat
    BY CallersType DEF PoolInv, PoolTypes
  <2>3. /\ billed[key] \in Nat /\ billed'[key] \in Nat /\ unheard[key] \in Nat
        /\ unheard'[key] \in Nat /\ accepted[key] \in Nat /\ begun[key] \in Nat
    BY DEF PoolInv, PoolTypes
  <2>4. /\ billed[key] + before <= billed'[key] + after
        /\ billed'[key] + after + unheard[key] <= billed[key] + before + unheard'[key]
    OBVIOUS
  <2>5. /\ accepted[key] + given <= billed[key] + before
        /\ billed[key] + before + coming <= begun[key] + unheard[key]
    BY <2>1 DEF PoolInv, Conserved
  <2> HIDE DEF before, after, given, coming
  <2>6. /\ accepted[key] + given <= billed'[key] + after
        /\ billed'[key] + after + coming <= begun[key] + unheard'[key]
    BY <2>1, <2>2, <2>3, <2>4, <2>5
  <2>7. accepted'[key] = accepted[key] /\ begun'[key] = begun[key] /\ process' = process
        /\ Given(adding', key) = given /\ Coming(adding', key) = coming
    BY DEF given, coming
  <2> QED  BY <2>1, <2>6, <2>7 DEF Conserved
<1> QED  BY <1>1, <1>2 DEF PoolInv

LEMMA WorkerStep ==
    ASSUME NEW w \in Workers, NEW x \in WorkerState, worker \in [Workers -> WorkerState],
           worker' = [worker EXCEPT ![w] = x]
    PROVE  /\ worker' \in [Workers -> WorkerState]
           /\ \A key : HeldBy(worker', key) = HeldBy(worker, key) - AmountIn(worker[w].requests, key)
                                              + AmountIn(x.requests, key)
<1>1. /\ worker' \in [Workers -> WorkerState] /\ worker'[w] = x
      /\ \A v \in Workers \ {w} : worker'[v] = worker[v]
  OBVIOUS
<1>2. \A key : HeldBy(worker', key) = HeldBy(worker, key) - AmountIn(worker[w].requests, key)
                                     + AmountIn(worker'[w].requests, key)
  BY <1>1, WorkerChanges
<1> QED  BY <1>1, <1>2

(* The steps of a worker.                                                  *)

LEMMA GetServerKeeps ==
    ASSUME PoolInv, NEW w \in Workers, NEW s \in Server, GetServer(w, s)
    PROVE  PoolInv'
<1> DEFINE x == [worker[w] EXCEPT !.pc = "check", !.server = s]
<1>1. pool \in Pools /\ worker \in [Workers -> WorkerState] /\ delaying \in DelayState
      /\ billed \in [Key -> Nat] /\ unheard \in [Key -> Nat]
  BY DEF PoolInv, PoolTypes
<1>2. worker[w] \in WorkerState /\ worker[w].pc = "get"
  BY <1>1 DEF GetServer
<1>3. x \in WorkerState /\ x.requests = worker[w].requests
  BY <1>2 DEF WorkerState
<1>4. worker' = [worker EXCEPT ![w] = x]
  BY <1>1 DEF GetServer
<1>5. /\ pool' \in Pools /\ pool'.delayed = pool.delayed
      /\ \A t \in Server : pool'.servers[t].amounts = pool.servers[t].amounts
  <2>1. pool' = [pool EXCEPT !.non_empty[s] = @ - 1] /\ pool.non_empty[s] > 0
    BY DEF GetServer, Listed
  <2> QED  BY <1>1, <2>1 DEF Pools
<1>6. \A key : InPool(pool', key) = InPool(pool, key)
  BY <1>1, <1>5, SamePool
<1> HIDE DEF x
<1>7. /\ worker' \in [Workers -> WorkerState]
      /\ \A key : HeldBy(worker', key) = HeldBy(worker, key) - AmountIn(worker[w].requests, key)
                                         + AmountIn(x.requests, key)
  BY <1>1, <1>3, <1>4, WorkerStep
<1>8. /\ process # "dumped" /\ delaying' = delaying /\ billed' = billed /\ unheard' = unheard
      /\ UNCHANGED <<process, adding, begun, accepted>>
  BY DEF GetServer, counts, bills
<1>9. \A key : AmountIn(worker[w].requests, key) \in Nat /\ HeldBy(worker, key) \in Nat
  BY <1>1, InProcessType, AmountInType
<1>10. \A key : InProcess(pool', delaying', worker', key) = InProcess(pool, delaying, worker, key)
  BY <1>3, <1>6, <1>7, <1>8, <1>9 DEF InProcess
<1>11. \A key \in Key : billed[key] \in Nat /\ InProcess(pool, delaying, worker, key) \in Nat
                        /\ unheard[key] \in Nat
  BY <1>1, InProcessType
<1> QED  BY <1>1, <1>5, <1>7, <1>8, <1>10, <1>11, Flow

LEMMA LeaveKeeps ==
    ASSUME PoolInv, NEW w \in Workers, Leave(w)
    PROVE  PoolInv'
<1> DEFINE x == [worker[w] EXCEPT !.pc = "left"]
<1>1. pool \in Pools /\ worker \in [Workers -> WorkerState] /\ delaying \in DelayState
      /\ billed \in [Key -> Nat] /\ unheard \in [Key -> Nat]
  BY DEF PoolInv, PoolTypes
<1>2. worker[w] \in WorkerState /\ worker[w].pc = "get"
  BY <1>1 DEF Leave
<1>3. x \in WorkerState /\ x.requests = worker[w].requests
  BY <1>2 DEF WorkerState
<1>4. worker' = [worker EXCEPT ![w] = x]
  BY <1>1 DEF Leave
<1> HIDE DEF x
<1>5. /\ worker' \in [Workers -> WorkerState]
      /\ \A key : HeldBy(worker', key) = HeldBy(worker, key) - AmountIn(worker[w].requests, key)
                                         + AmountIn(x.requests, key)
  BY <1>1, <1>3, <1>4, WorkerStep
<1>6. /\ process # "dumped" /\ pool' = pool /\ delaying' = delaying
      /\ billed' = billed /\ unheard' = unheard
      /\ UNCHANGED <<process, adding, begun, accepted>>
  BY DEF Leave, counts, bills
<1>7. \A key : AmountIn(worker[w].requests, key) \in Nat /\ HeldBy(worker, key) \in Nat
  BY <1>1, InProcessType, AmountInType
<1>8. \A key : InProcess(pool', delaying', worker', key) = InProcess(pool, delaying, worker, key)
  BY <1>3, <1>5, <1>6, <1>7 DEF InProcess
<1>9. \A key \in Key : billed[key] \in Nat /\ InProcess(pool, delaying, worker, key) \in Nat
                       /\ unheard[key] \in Nat
  BY <1>1, InProcessType
<1> QED  BY <1>1, <1>5, <1>6, <1>8, <1>9, Flow

LEMMA TakeRequestsKeeps ==
    ASSUME PoolInv, NEW w \in Workers, TakeRequests(w)
    PROVE  PoolInv'
<1> DEFINE s == worker[w].server
           amounts == pool.servers[s].amounts
<1>1. pool \in Pools /\ worker \in [Workers -> WorkerState] /\ delaying \in DelayState
      /\ billed \in [Key -> Nat] /\ unheard \in [Key -> Nat]
  BY DEF PoolInv, PoolTypes
<1>2. /\ worker[w] \in WorkerState /\ worker[w].pc = "check"
      /\ s \in Server /\ worker[w].requests = NoAmounts
  BY <1>1 DEF TakeRequests, WorkerState
<1>3. /\ process # "dumped" /\ delaying' = delaying /\ billed' = billed /\ unheard' = unheard
      /\ UNCHANGED <<process, adding, begun, accepted>>
  <2>1. process # "dumped"
    BY <1>2 DEF PoolInv, PoolTypes, AllLeft
  <2> QED  BY <2>1 DEF TakeRequests, counts, bills
<1>4. IsAmounts(amounts) /\ amounts \in AnyAmounts
  BY <1>1, <1>2, PoolParts, AmountsAre
<1>5. \A key \in Key : billed[key] \in Nat /\ unheard[key] \in Nat
                       /\ InProcess(pool, delaying, worker, key) \in Nat
  BY <1>1, InProcessType
<1>6. \A key : /\ InPool(pool, key) \in Nat /\ HeldBy(worker, key) \in Nat
               /\ AmountIn(delaying.requests, key) \in Nat
               /\ AmountIn(amounts, key) \in Nat /\ AmountIn(worker[w].requests, key) = 0
  BY <1>1, <1>2, <1>4, InProcessType, AmountInType, NoAmountsType
<1>7. CASE amounts = NoAmounts
  <2>1. pool' = pool /\ worker' = [worker EXCEPT ![w] = Idle]
    BY <1>7 DEF TakeRequests
  <2>2. Idle \in WorkerState /\ Idle.requests = NoAmounts
    BY NoAmountsType, AmountsAre DEF Idle, WorkerState
  <2>3. \A key : AmountIn(Idle.requests, key) = 0
    BY <2>2, NoAmountsType
  <2>4. /\ worker' \in [Workers -> WorkerState]
        /\ \A key : HeldBy(worker', key) = HeldBy(worker, key) - AmountIn(worker[w].requests, key)
                                           + AmountIn(Idle.requests, key)
    BY <1>1, <2>1, <2>2, WorkerStep
  <2> HIDE DEF amounts, s
  <2>5. \A key : InProcess(pool', delaying', worker', key) = InProcess(pool, delaying, worker, key)
    <3> TAKE key
    <3>1. HeldBy(worker, key) \in Nat /\ AmountIn(worker[w].requests, key) = 0
      BY <1>6
    <3>2. HeldBy(worker', key) = HeldBy(worker, key) - AmountIn(worker[w].requests, key)
                                 + AmountIn(Idle.requests, key)
      BY <2>4
    <3>3. HeldBy(worker', key) = HeldBy(worker, key)
      BY <2>3, <3>1, <3>2
    <3> QED  BY <1>3, <2>1, <3>3 DEF InProcess
  <2>6. pool' \in Pools
    BY <1>1, <2>1
  <2> QED  BY <1>1, <1>3, <1>5, <2>4, <2>5, <2>6, Flow
<1>8. CASE amounts # NoAmounts
  <2>1. PICK slots \in Earliest(amounts) :
          LET rest == [pool EXCEPT !.servers[s].amounts = Restrict(@, DOMAIN @ \ slots),
                                   !.non_empty = Erase(pool, s)]
          IN  /\ pool' = [rest EXCEPT !.non_empty = Put(rest, s)]
              /\ worker' = [worker EXCEPT ![w].pc = "send",
                                          ![w].requests = Restrict(amounts, slots)]
    BY <1>8 DEF TakeRequests
  <2>2. slots \in SUBSET DOMAIN amounts
    BY DEF Earliest, kSubset
  <2> DEFINE taken == Restrict(amounts, slots)
             left == Restrict(amounts, DOMAIN amounts \ slots)
             rest == [pool EXCEPT !.servers[s].amounts = left, !.non_empty = Erase(pool, s)]
             x == [worker[w] EXCEPT !.pc = "send", !.requests = taken]
  <2>3. /\ IsAmounts(taken) /\ IsAmounts(left)
        /\ \A key : AmountIn(amounts, key) = AmountIn(taken, key) + AmountIn(left, key)
    BY <1>4, <2>2, RestrictSplits
  <2>4. taken \in AnyAmounts /\ left \in AnyAmounts
    BY <2>3, AmountsAre
  <2>5. pool' = [rest EXCEPT !.non_empty = Put(rest, s)] /\ worker' = [worker EXCEPT ![w] = x]
    BY <1>1, <1>2, <2>1 DEF Pools
  <2> HIDE DEF taken, left
  <2>6. x \in WorkerState /\ x.requests = taken
    BY <1>2, <2>4 DEF WorkerState
  <2>7. rest \in Pools /\ rest.delayed = pool.delayed /\ rest.servers[s].amounts = left
        /\ \A t \in Server \ {s} : rest.servers[t].amounts = pool.servers[t].amounts
    <3>1. Erase(pool, s) \in [Server -> Nat]
      BY <1>1, <1>2, EntriesType
    <3> HIDE DEF s, amounts
    <3> QED  BY <1>1, <1>2, <2>4, <3>1 DEF Pools
  <2> HIDE DEF x, rest
  <2>8. pool' \in Pools /\ pool'.delayed = pool.delayed /\ pool'.servers[s].amounts = left
        /\ \A t \in Server \ {s} : pool'.servers[t].amounts = pool.servers[t].amounts
    BY <1>2, <2>5, <2>7, EntriesType DEF Pools
  <2>9. \A key : InPool(pool', key) = InPool(pool, key) - AmountIn(amounts, key) + AmountIn(left, key)
    BY <1>1, <1>2, <2>8, AtServer
  <2>10. /\ worker' \in [Workers -> WorkerState]
         /\ \A key : HeldBy(worker', key) = HeldBy(worker, key) - AmountIn(worker[w].requests, key)
                                            + AmountIn(x.requests, key)
    BY <1>1, <2>5, <2>6, WorkerStep
  <2>11. \A key : AmountIn(taken, key) \in Nat /\ AmountIn(left, key) \in Nat
    BY <2>3, AmountInType
  <2> HIDE DEF amounts, s
  <2>12. \A key : InProcess(pool', delaying', worker', key) = InProcess(pool, delaying, worker, key)
    BY <1>3, <1>6, <2>3, <2>6, <2>9, <2>10, <2>11 DEF InProcess
  <2> QED  BY <1>1, <1>3, <1>5, <2>8, <2>10, <2>12, Flow
<1> QED  BY <1>7, <1>8

(* What a server books, heard of or not. *)
LEMMA BooksAll ==
    ASSUME NEW requests, IsAmounts(requests), PoolTypes,
           Unheard(requests) \/ \E left \in Remainders(requests) : Book(requests, left)
    PROVE  billed' \in [Key -> Nat] /\ unheard' \in [Key -> Nat]
<1>1. \A left \in Remainders(requests), key \in Key : Booked(requests, left)[key] \in Nat
  BY LeftType
<1>2. \A left \in Remainders(requests) : Booked(requests, left) \in [Key -> Nat]
  BY <1>1 DEF Booked
<1>3. billed \in [Key -> Nat] /\ unheard \in [Key -> Nat]
  BY DEF PoolTypes
<1> QED  BY <1>1, <1>2, <1>3 DEF Unheard, Book, bills

LEMMA AnsweredKeeps ==
    ASSUME PoolInv, NEW w \in Workers, Answered(w)
    PROVE  PoolInv'
<1> DEFINE requests == worker[w].requests
<1>1. pool \in Pools /\ worker \in [Workers -> WorkerState] /\ delaying \in DelayState
      /\ billed \in [Key -> Nat] /\ unheard \in [Key -> Nat] /\ PoolTypes
  BY DEF PoolInv, PoolTypes
<1>2. /\ worker[w] \in WorkerState /\ worker[w].pc = "send" /\ worker[w].server \in Server
      /\ IsAmounts(requests)
  BY <1>1, InProcessType DEF Answered, WorkerState
<1>3. PICK left \in Remainders(requests) :
         /\ Book(requests, left)
         /\ worker' = [worker EXCEPT ![w] =
               IF Left(requests, left) = NoAmounts THEN Idle
               ELSE [@ EXCEPT !.pc = "resend", !.requests = Left(requests, left)]]
  BY DEF Answered
<1> DEFINE rest == Left(requests, left)
           x == IF rest = NoAmounts THEN Idle
                ELSE [worker[w] EXCEPT !.pc = "resend", !.requests = rest]
<1>4. /\ IsAmounts(rest)
      /\ \A key \in Key : /\ Booked(requests, left)[key] \in Nat
                          /\ AmountIn(requests, key) = AmountIn(rest, key) + Booked(requests, left)[key]
  BY <1>2, LeftType
<1>5. worker' = [worker EXCEPT ![w] = x]
  BY <1>1, <1>3
<1> HIDE DEF rest
<1>6. x \in WorkerState /\ x.requests = rest
  BY <1>2, <1>4, NoAmountsType, AmountsAre DEF WorkerState, Idle
<1> HIDE DEF x
<1>7. /\ worker' \in [Workers -> WorkerState]
      /\ \A key : HeldBy(worker', key) = HeldBy(worker, key) - AmountIn(requests, key)
                                         + AmountIn(x.requests, key)
  BY <1>1, <1>5, <1>6, WorkerStep
<1>8. process # "dumped"
  BY <1>2 DEF PoolInv, PoolTypes, AllLeft
<1>9. pool' = pool /\ delaying' = delaying /\ UNCHANGED <<process, adding, begun, accepted>>
  BY DEF Answered, counts
<1>10. \A key \in Key : billed'[key] = billed[key] + Booked(requests, left)[key]
                        /\ unheard'[key] = unheard[key]
  BY <1>3 DEF Book
<1>11. billed' \in [Key -> Nat] /\ unheard' \in [Key -> Nat]
  BY <1>1, <1>2, <1>3, BooksAll
<1>12. \A key : /\ InPool(pool, key) \in Nat /\ HeldBy(worker, key) \in Nat
                /\ AmountIn(delaying.requests, key) \in Nat
                /\ AmountIn(rest, key) \in Nat /\ AmountIn(requests, key) \in Nat
  BY <1>1, <1>2, <1>4, InProcessType, AmountInType
<1>13. \A key \in Key : billed[key] \in Nat /\ unheard[key] \in Nat
  BY <1>1
<1> HIDE DEF requests
<1>14. \A key \in Key : InProcess(pool, delaying, worker, key)
                          = InProcess(pool', delaying', worker', key) + Booked(requests, left)[key]
                        /\ InProcess(pool', delaying', worker', key) \in Int
  BY <1>4, <1>6, <1>7, <1>9, <1>12 DEF InProcess
<1>15. \A key \in Key :
          /\ billed[key] + InProcess(pool, delaying, worker, key)
               <= billed'[key] + InProcess(pool', delaying', worker', key)
          /\ billed'[key] + InProcess(pool', delaying', worker', key) + unheard[key]
               <= billed[key] + InProcess(pool, delaying, worker, key) + unheard'[key]
  BY <1>4, <1>10, <1>13, <1>14
<1> QED  BY <1>1, <1>7, <1>8, <1>9, <1>11, <1>15, Flow

(* A call that is not answered leaves the requests where they are.         *)
LEMMA UnheardBooks ==
    ASSUME NEW requests, IsAmounts(requests), PoolTypes, Unheard(requests), NEW key \in Key
    PROVE  /\ billed[key] <= billed'[key]
           /\ billed'[key] + unheard[key] = billed[key] + unheard'[key]
<1>1. billed[key] \in Nat /\ unheard[key] \in Nat
  BY DEF PoolTypes
<1>2. CASE UNCHANGED bills
  BY <1>1, <1>2 DEF bills
<1>3. CASE ~UNCHANGED bills
  <2>1. unheard = [k \in Key |-> 0]
    BY <1>3 DEF Unheard
  <2>2. PICK left \in Remainders(requests) :
          /\ billed' = [k \in Key |-> billed[k] + Booked(requests, left)[k]]
          /\ unheard' = Booked(requests, left)
    BY <1>3 DEF Unheard
  <2>3. Booked(requests, left)[key] \in Nat
    BY LeftType
  <2> QED  BY <1>1, <2>1, <2>2, <2>3
<1> QED  BY <1>2, <1>3

LEMMA UnansweredKeeps ==
    ASSUME PoolInv, NEW w \in Workers, Unanswered(w)
    PROVE  PoolInv'
<1> DEFINE x == [worker[w] EXCEPT !.pc = "resend"]
           s == worker[w].server
           requests == worker[w].requests
<1>1. pool \in Pools /\ worker \in [Workers -> WorkerState] /\ delaying \in DelayState
      /\ billed \in [Key -> Nat] /\ unheard \in [Key -> Nat] /\ PoolTypes
  BY DEF PoolInv, PoolTypes
<1>2. /\ worker[w] \in WorkerState /\ worker[w].pc = "send" /\ s \in Server
      /\ IsAmounts(requests)
  BY <1>1, InProcessType DEF Unanswered, WorkerState
<1>3. x \in WorkerState /\ x.requests = requests
  BY <1>2 DEF WorkerState
<1>4. worker' = [worker EXCEPT ![w] = x]
  BY <1>1 DEF Unanswered
<1>5. /\ pool' \in Pools /\ pool'.delayed = pool.delayed
      /\ \A t \in Server : pool'.servers[t].amounts = pool.servers[t].amounts
  <2>1. pool' = pool \/ pool' = [pool EXCEPT !.servers[s].active = FALSE]
    BY DEF Unanswered
  <2>2. CASE pool' = pool
    BY <1>1, <2>2
  <2>3. CASE pool' = [pool EXCEPT !.servers[s].active = FALSE]
    <3> HIDE DEF s
    <3> QED  BY <1>1, <1>2, <2>3 DEF Pools
  <2> QED  BY <2>1, <2>2, <2>3
<1>6. \A key : InPool(pool', key) = InPool(pool, key)
  BY <1>1, <1>5, SamePool
<1>7. Unheard(requests)
  BY DEF Unanswered
<1>8. process # "dumped"
  BY <1>2 DEF PoolInv, PoolTypes, AllLeft
<1>9. delaying' = delaying /\ UNCHANGED <<process, adding, begun, accepted>>
  BY DEF Unanswered, counts
<1> HIDE DEF x, requests
<1>10. /\ worker' \in [Workers -> WorkerState]
       /\ \A key : HeldBy(worker', key) = HeldBy(worker, key) - AmountIn(worker[w].requests, key)
                                          + AmountIn(x.requests, key)
  BY <1>1, <1>3, <1>4, WorkerStep
<1>11. billed' \in [Key -> Nat] /\ unheard' \in [Key -> Nat]
  BY <1>1, <1>2, <1>7, BooksAll
<1>12. \A key : AmountIn(requests, key) \in Nat /\ HeldBy(worker, key) \in Nat
  BY <1>1, <1>2, InProcessType, AmountInType
<1>13. \A key : InProcess(pool', delaying', worker', key) = InProcess(pool, delaying, worker, key)
  <2> TAKE key
  <2>1. HeldBy(worker', key) = HeldBy(worker, key)
    BY <1>3, <1>10, <1>12 DEF requests
  <2> QED  BY <1>6, <1>9, <2>1 DEF InProcess
<1>14. ASSUME NEW key \in Key
       PROVE  /\ billed[key] <= billed'[key]
              /\ billed'[key] + unheard[key] = billed[key] + unheard'[key]
              /\ billed[key] \in Nat /\ unheard[key] \in Nat /\ billed'[key] \in Nat
              /\ unheard'[key] \in Nat /\ InProcess(pool, delaying, worker, key) \in Nat
  BY <1>1, <1>2, <1>7, <1>11, InProcessType, UnheardBooks
<1>15. \A key \in Key :
          /\ billed[key] + InProcess(pool, delaying, worker, key)
               <= billed'[key] + InProcess(pool', delaying', worker', key)
          /\ billed'[key] + InProcess(pool', delaying', worker', key) + unheard[key]
               <= billed[key] + InProcess(pool, delaying, worker, key) + unheard'[key]
  BY <1>13, <1>14
<1> QED  BY <1>1, <1>5, <1>8, <1>9, <1>10, <1>11, <1>15, Flow

LEMMA ResendIsKept ==
    ASSUME PoolInv, NEW w \in Workers, Resend(w)
    PROVE  PoolInv'
<1> DEFINE requests == worker[w].requests
           x == Idle
<1>1. pool \in Pools /\ worker \in [Workers -> WorkerState] /\ delaying \in DelayState
      /\ billed \in [Key -> Nat] /\ unheard \in [Key -> Nat]
  BY DEF PoolInv, PoolTypes
<1>2. worker[w] \in WorkerState /\ worker[w].pc = "resend" /\ IsAmounts(requests)
  BY <1>1, InProcessType DEF Resend
<1>3. process # "dumped"
  BY <1>2 DEF PoolInv, PoolTypes, AllLeft
<1>4. /\ delaying' = delaying /\ billed' = billed /\ unheard' = unheard
      /\ UNCHANGED <<process, adding, begun, accepted>>
  BY DEF Resend, counts, bills
<1>5. x \in WorkerState /\ \A key : AmountIn(x.requests, key) = 0
  BY NoAmountsType, AmountsAre DEF Idle, WorkerState
<1>6. worker' = [worker EXCEPT ![w] = x]
  BY DEF Resend
<1> HIDE DEF x
<1>7. /\ worker' \in [Workers -> WorkerState]
      /\ \A key : HeldBy(worker', key) = HeldBy(worker, key) - AmountIn(requests, key)
                                         + AmountIn(x.requests, key)
  BY <1>1, <1>5, <1>6, WorkerStep
<1>8. Takes(pool, pool', requests)
  <2>1. pool' = AddResendToServer(pool, worker[w].server + 1, requests)
    BY DEF Resend
  <2> HIDE DEF requests
  <2> QED  BY <1>1, <1>2, <2>1, AddResendAdds
<1>9. \A key : /\ InPool(pool, key) \in Nat /\ HeldBy(worker, key) \in Nat
               /\ AmountIn(delaying.requests, key) \in Nat /\ AmountIn(requests, key) \in Nat
  BY <1>1, <1>2, InProcessType, AmountInType
<1> HIDE DEF requests
<1>10. \A key : InProcess(pool', delaying', worker', key) = InProcess(pool, delaying, worker, key)
  <2> TAKE key
  <2>1. HeldBy(worker', key) = HeldBy(worker, key) - AmountIn(requests, key)
    BY <1>5, <1>7, <1>9
  <2>2. InPool(pool', key) = InPool(pool, key) + AmountIn(requests, key)
    BY <1>8 DEF Takes
  <2> QED  BY <1>4, <1>9, <2>1, <2>2 DEF InProcess
<1>11. \A key \in Key : billed[key] \in Nat /\ InProcess(pool, delaying, worker, key) \in Nat
                        /\ unheard[key] \in Nat
  BY <1>1, InProcessType
<1>12. pool' \in Pools
  BY <1>8 DEF Takes
<1> QED  BY <1>1, <1>3, <1>4, <1>7, <1>10, <1>11, <1>12, Flow

-----------------------------------------------------------------------------
(* The scheduled tasks.                                                    *)

LEMMA ActivateServerKeeps ==
    ASSUME PoolInv, NEW s \in Server, ActivateServer(s)
    PROVE  PoolInv'
<1> DEFINE p == [pool EXCEPT !.servers[s].active = TRUE]
<1>1. pool \in Pools /\ worker \in [Workers -> WorkerState] /\ delaying \in DelayState
      /\ billed \in [Key -> Nat] /\ unheard \in [Key -> Nat]
  BY DEF PoolInv, PoolTypes
<1>2. pool' = [p EXCEPT !.non_empty = Put(p, s)]
  BY DEF ActivateServer
<1>3. /\ p \in Pools /\ p.delayed = pool.delayed
      /\ \A t \in Server : p.servers[t].amounts = pool.servers[t].amounts
  BY <1>1 DEF Pools
<1> HIDE DEF p
<1>4. /\ pool' \in Pools /\ pool'.delayed = pool.delayed
      /\ \A t \in Server : pool'.servers[t].amounts = pool.servers[t].amounts
  BY <1>2, <1>3, EntriesType DEF Pools
<1>5. \A key : InPool(pool', key) = InPool(pool, key)
  BY <1>1, <1>4, SamePool
<1>6. /\ process # "dumped" /\ worker' = worker /\ delaying' = delaying
      /\ billed' = billed /\ unheard' = unheard
      /\ UNCHANGED <<process, adding, begun, accepted>>
  BY DEF ActivateServer, counts, bills
<1>7. \A key : InProcess(pool', delaying', worker', key) = InProcess(pool, delaying, worker, key)
  BY <1>5, <1>6 DEF InProcess
<1>8. \A key \in Key : billed[key] \in Nat /\ InProcess(pool, delaying, worker, key) \in Nat
                       /\ unheard[key] \in Nat
  BY <1>1, InProcessType
<1> QED  BY <1>1, <1>4, <1>6, <1>7, <1>8, Flow

(* Of the pool only the delayed amounts change. *)
LEMMA AtDelayed ==
    ASSUME NEW p \in Pools, NEW q \in Pools, q.servers = p.servers, NEW key
    PROVE  InPool(q, key) = InPool(p, key) - AmountIn(p.delayed, key) + AmountIn(q.delayed, key)
<1> DEFINE f == [s \in Server |-> AmountIn(p.servers[s].amounts, key)]
<1>1. InPool(p, key) = AmountIn(p.delayed, key) + SumOver(f, Server)
      /\ InPool(q, key) = AmountIn(q.delayed, key) + SumOver(f, Server)
  BY DEF InPool
<1>2. \A s \in Server : f[s] \in Int
  BY PoolParts, AmountInType
<1> HIDE DEF f
<1>3. SumOver(f, Server) \in Int
  BY <1>2, ServersFinite, SumType
<1>4. AmountIn(p.delayed, key) \in Nat /\ AmountIn(q.delayed, key) \in Nat
  BY PoolParts, AmountInType
<1> QED  BY <1>1, <1>3, <1>4

LEMMA TakeDelayedKeeps ==
    ASSUME PoolInv, TakeDelayed
    PROVE  PoolInv'
<1>1. pool \in Pools /\ worker \in [Workers -> WorkerState] /\ delaying \in DelayState
      /\ billed \in [Key -> Nat] /\ unheard \in [Key -> Nat]
  BY DEF PoolInv, PoolTypes
<1>2. /\ delaying.server = None /\ process # "dumped"
      /\ delaying' = [server |-> 0, requests |-> pool.delayed]
      /\ pool' = [pool EXCEPT !.delayed = NoAmounts]
      /\ worker' = worker /\ billed' = billed /\ unheard' = unheard
      /\ UNCHANGED <<process, adding, begun, accepted>>
  BY DEF TakeDelayed, counts, bills
<1>3. NoAmounts \in AnyAmounts /\ pool.delayed \in AnyAmounts
  BY <1>1, NoAmountsType, AmountsAre DEF Pools
<1>4. pool' \in Pools /\ pool'.servers = pool.servers /\ pool'.delayed = NoAmounts
  BY <1>1, <1>2, <1>3 DEF Pools
<1>5. delaying' \in DelayState /\ delaying'.requests = pool.delayed
  <2>1. 0 \in 0..ServerCount /\ 0 # None
    BY ServerCountAssumption, NoneAssumption
  <2> QED  BY <1>2, <1>3, <2>1 DEF DelayState
<1>6. delaying.requests = NoAmounts
  BY <1>1, <1>2 DEF DelayState
<1>7. ASSUME NEW key
      PROVE  InProcess(pool', delaying', worker', key) = InProcess(pool, delaying, worker, key)
  <2>1. InPool(pool', key) = InPool(pool, key) - AmountIn(pool.delayed, key)
                             + AmountIn(pool'.delayed, key)
    BY <1>1, <1>4, AtDelayed
  <2>2. AmountIn(pool'.delayed, key) = 0 /\ AmountIn(delaying.requests, key) = 0
    BY <1>4, <1>6, NoAmountsType
  <2>3. InPool(pool, key) \in Nat /\ HeldBy(worker, key) \in Nat /\ AmountIn(pool.delayed, key) \in Nat
    BY <1>1, InProcessType, PoolParts, AmountInType
  <2> QED  BY <1>2, <1>5, <2>1, <2>2, <2>3 DEF InProcess
<1>8. \A key \in Key : billed[key] \in Nat /\ InProcess(pool, delaying, worker, key) \in Nat
                       /\ unheard[key] \in Nat
  BY <1>1, InProcessType
<1> QED  BY <1>1, <1>2, <1>4, <1>5, <1>7, <1>8, Flow

LEMMA SendDelayedKeeps ==
    ASSUME PoolInv, SendDelayed
    PROVE  PoolInv'
<1> DEFINE requests == delaying.requests
           s == delaying.server
<1>1. pool \in Pools /\ worker \in [Workers -> WorkerState] /\ delaying \in DelayState
      /\ billed \in [Key -> Nat] /\ unheard \in [Key -> Nat] /\ PoolTypes
  BY DEF PoolInv, PoolTypes
<1>2. s \in Server /\ s # None /\ s + 1 \in 0..ServerCount /\ s + 1 # None /\ IsAmounts(requests)
  <2>1. s \in Server
    BY DEF SendDelayed
  <2>2. s \in Nat /\ s < ServerCount
    BY <2>1, ServerCountAssumption DEF Server
  <2>3. s # None /\ s + 1 \in Nat /\ s + 1 # None
    BY <2>2, NoneAssumption
  <2>4. s + 1 \in 0..ServerCount
    BY <2>2, ServerCountAssumption
  <2> QED  BY <1>1, <2>1, <2>3, <2>4, InProcessType
<1>3. process # "dumped"
  BY <1>2 DEF PoolInv, PoolTypes, AllLeft
<1>4. pool' = pool /\ worker' = worker /\ UNCHANGED <<process, adding, begun, accepted>>
  BY DEF SendDelayed, counts
<1>5. \A key : /\ InPool(pool, key) \in Nat /\ HeldBy(worker, key) \in Nat
               /\ AmountIn(requests, key) \in Nat
  BY <1>1, <1>2, InProcessType, AmountInType
<1>6. \A key \in Key : billed[key] \in Nat /\ unheard[key] \in Nat
                       /\ InProcess(pool, delaying, worker, key) \in Nat
  BY <1>1, InProcessType
<1>7. CASE \E left \in Remainders(requests) :
              /\ Book(requests, left)
              /\ delaying' = [server |-> s + 1, requests |-> Left(requests, left)]
  <2>1. PICK left \in Remainders(requests) :
              /\ Book(requests, left)
              /\ delaying' = [server |-> s + 1, requests |-> Left(requests, left)]
    BY <1>7
  <2> DEFINE rest == Left(requests, left)
  <2>2. /\ IsAmounts(rest)
        /\ \A key \in Key : /\ Booked(requests, left)[key] \in Nat
                            /\ AmountIn(requests, key) = AmountIn(rest, key) + Booked(requests, left)[key]
    BY <1>2, LeftType
  <2>3. delaying' = [server |-> s + 1, requests |-> rest] /\ rest \in AnyAmounts
    BY <2>1, <2>2, AmountsAre
  <2> HIDE DEF rest
  <2>4. delaying' \in DelayState /\ delaying'.requests = rest
    BY <1>2, <2>3 DEF DelayState
  <2>5. billed' \in [Key -> Nat] /\ unheard' \in [Key -> Nat]
    BY <1>1, <1>2, <2>1, BooksAll
  <2>6. \A key \in Key : billed'[key] = billed[key] + Booked(requests, left)[key]
                         /\ unheard'[key] = unheard[key]
    BY <2>1 DEF Book
  <2>7. \A key : AmountIn(rest, key) \in Nat
    BY <2>2, AmountInType
  <2>8. ASSUME NEW key \in Key
        PROVE  InProcess(pool, delaying, worker, key)
                 = InProcess(pool', delaying', worker', key) + Booked(requests, left)[key]
               /\ InProcess(pool', delaying', worker', key) \in Int
    BY <1>4, <1>5, <2>2, <2>4, <2>7 DEF InProcess
  <2>9. \A key \in Key :
          /\ billed[key] + InProcess(pool, delaying, worker, key)
               <= billed'[key] + InProcess(pool', delaying', worker', key)
          /\ billed'[key] + InProcess(pool', delaying', worker', key) + unheard[key]
               <= billed[key] + InProcess(pool, delaying, worker, key) + unheard'[key]
    BY <1>6, <2>2, <2>6, <2>8
  <2>10. pool' \in Pools /\ worker' \in [Workers -> WorkerState]
    BY <1>1, <1>4
  <2> QED  BY <1>3, <1>4, <2>4, <2>5, <2>9, <2>10, Flow
<1>8. CASE Unheard(requests) /\ delaying' = [delaying EXCEPT !.server = @ + 1]
  <2>1. delaying' \in DelayState /\ delaying'.requests = requests
    BY <1>1, <1>2, <1>8 DEF DelayState
  <2>2. billed' \in [Key -> Nat] /\ unheard' \in [Key -> Nat]
    BY <1>1, <1>2, <1>8, BooksAll
  <2>3. ASSUME NEW key \in Key
        PROVE  /\ billed[key] <= billed'[key]
               /\ billed'[key] + unheard[key] = billed[key] + unheard'[key]
               /\ billed'[key] \in Nat /\ unheard'[key] \in Nat
    BY <1>1, <1>2, <1>8, <2>2, UnheardBooks
  <2>4. \A key : InProcess(pool', delaying', worker', key) = InProcess(pool, delaying, worker, key)
    BY <1>4, <2>1 DEF InProcess
  <2>5. \A key \in Key :
          /\ billed[key] + InProcess(pool, delaying, worker, key)
               <= billed'[key] + InProcess(pool', delaying', worker', key)
          /\ billed'[key] + InProcess(pool', delaying', worker', key) + unheard[key]
               <= billed[key] + InProcess(pool, delaying, worker, key) + unheard'[key]
    BY <1>6, <2>3, <2>4
  <2>6. pool' \in Pools /\ worker' \in [Workers -> WorkerState]
    BY <1>1, <1>4
  <2> QED  BY <1>3, <1>4, <2>1, <2>2, <2>5, <2>6, Flow
<1> QED  BY <1>7, <1>8 DEF SendDelayed

LEMMA PutDelayedKeeps ==
    ASSUME PoolInv, PutDelayed
    PROVE  PoolInv'
<1> DEFINE requests == delaying.requests
<1>1. pool \in Pools /\ worker \in [Workers -> WorkerState] /\ delaying \in DelayState
      /\ billed \in [Key -> Nat] /\ unheard \in [Key -> Nat]
  BY DEF PoolInv, PoolTypes
<1>2. IsAmounts(requests)
  BY <1>1, InProcessType
<1>3. process # "dumped"
  BY DEF PutDelayed, PoolInv, PoolTypes, AllLeft
<1>4. /\ pool' = AddDelayed(pool, requests)
      /\ delaying' = [server |-> None, requests |-> NoAmounts]
      /\ worker' = worker /\ billed' = billed /\ unheard' = unheard
      /\ UNCHANGED <<process, adding, begun, accepted>>
  BY DEF PutDelayed, counts, bills
<1>5. Takes(pool, pool', requests)
  <2> HIDE DEF requests
  <2> QED  BY <1>1, <1>2, <1>4, AddDelayedAdds
<1>6. NoAmounts \in AnyAmounts
  BY NoAmountsType, AmountsAre
<1>7. delaying' \in DelayState /\ delaying'.requests = NoAmounts
  BY <1>4, <1>6 DEF DelayState
<1>8. ASSUME NEW key
      PROVE  InProcess(pool', delaying', worker', key) = InProcess(pool, delaying, worker, key)
  <2>1. InPool(pool', key) = InPool(pool, key) + AmountIn(requests, key)
    BY <1>5 DEF Takes
  <2>2. AmountIn(delaying'.requests, key) = 0
    BY <1>7, NoAmountsType
  <2>3. InPool(pool, key) \in Nat /\ HeldBy(worker, key) \in Nat /\ AmountIn(requests, key) \in Nat
    BY <1>1, <1>2, InProcessType, AmountInType
  <2> QED  BY <1>4, <2>1, <2>2, <2>3 DEF InProcess
<1>9. \A key \in Key : billed[key] \in Nat /\ InProcess(pool, delaying, worker, key) \in Nat
                       /\ unheard[key] \in Nat
  BY <1>1, InProcessType
<1>10. pool' \in Pools
  BY <1>5 DEF Takes
<1> QED  BY <1>1, <1>3, <1>4, <1>7, <1>8, <1>9, <1>10, Flow

-----------------------------------------------------------------------------
(* The steps of a caller.                                                  *)

LEMMA BeginAddKeeps ==
    ASSUME PoolInv, NEW c \in Callers, NEW k \in Key, NEW time \in Times, NEW amount \in Amounts,
           BeginAdd(c, k, time, amount)
    PROVE  PoolInv'
<1> DEFINE request == [key |-> k, time |-> time, amount |-> amount]
           add == [server |-> 0, request |-> request]
<1>1. time \in Nat /\ amount \in Nat
  BY RequestAssumption
<1>2. add \in Adding /\ add # None /\ add.server = 0 /\ add.request.key = k
      /\ add.request.amount = amount
  <2>1. add \in Adding
    BY <1>1, ServersFinite DEF Adding, Correction
  <2>2. add # None
    BY <2>1, AddingType
  <2> QED  BY <2>1, <2>2
<1>3. /\ PoolTypes /\ adding \in [Callers -> {None} \cup Adding] /\ adding[c] = None
      /\ begun \in [Key -> Nat] /\ billed \in [Key -> Nat] /\ unheard \in [Key -> Nat]
      /\ accepted \in [Key -> Nat]
  BY DEF PoolInv, PoolTypes, BeginAdd
<1>4. adding' = [adding EXCEPT ![c] = add] /\ begun' = [begun EXCEPT ![k] = @ + amount]
  BY DEF BeginAdd
<1>5. UNCHANGED <<pool, worker, delaying, process, disk, accepted, billed, unheard>>
  BY DEF BeginAdd, bills
<1> HIDE DEF add
<1>6. adding' \in [Callers -> {None} \cup Adding] /\ begun' \in [Key -> Nat]
  BY <1>1, <1>2, <1>3, <1>4
<1>7. PoolTypes'
  BY <1>3, <1>5, <1>6 DEF PoolTypes, AllLeft
<1>8. ASSUME NEW key \in Key PROVE Conserved(key)'
  <2>1. Held(key)' = Held(key) /\ Held(key) \in Nat
    BY <1>3, <1>5, HeldIs DEF Held, InPool
  <2>2. GivenBy(None, key) = 0 /\ ComingFrom(None, key) = 0
    BY DEF GivenBy, ComingFrom
  <2>3. GivenBy(add, key) = 0 /\ ComingFrom(add, key) = IF key = k THEN amount ELSE 0
    BY <1>1, <1>2 DEF GivenBy, ComingFrom, SharesBefore
  <2>4. adding'[c] = add /\ \A d \in Callers \ {c} : adding'[d] = adding[d]
    BY <1>3, <1>4
  <2>5. /\ Given(adding', key) = Given(adding, key) - GivenBy(adding[c], key) + GivenBy(adding'[c], key)
        /\ Coming(adding', key) = Coming(adding, key) - ComingFrom(adding[c], key)
                                  + ComingFrom(adding'[c], key)
    BY <1>3, <1>6, <2>4, CallerChanges
  <2>6. Given(adding, key) \in Nat /\ Coming(adding, key) \in Nat
    BY <1>3, CallersType
  <2>7. /\ Given(adding', key) = Given(adding, key)
        /\ Coming(adding', key) = Coming(adding, key) + (IF key = k THEN amount ELSE 0)
    BY <1>1, <1>3, <2>2, <2>3, <2>4, <2>5, <2>6
  <2>8. begun'[key] = begun[key] + (IF key = k THEN amount ELSE 0)
    BY <1>1, <1>3, <1>4
  <2>9. Conserved(key) /\ billed[key] \in Nat /\ unheard[key] \in Nat /\ begun[key] \in Nat
        /\ accepted[key] \in Nat
    BY <1>3 DEF PoolInv
  <2> QED  BY <1>1, <1>5, <2>1, <2>6, <2>7, <2>8, <2>9 DEF Conserved
<1> QED  BY <1>7, <1>8 DEF PoolInv

LEMMA AddShareKeeps ==
    ASSUME PoolInv, NEW c \in Callers, AddShare(c)
    PROVE  PoolInv'
<1> DEFINE add == adding[c]
           s == add.server
           request == add.request
           k == request.key
           amount == request.amount
           given == SharesBefore(s, amount)
           share == Share(s, amount)
           next == [add EXCEPT !.server = NextServer(s)]
<1>1. /\ PoolTypes /\ adding \in [Callers -> {None} \cup Adding] /\ pool \in Pools
      /\ begun \in [Key -> Nat] /\ billed \in [Key -> Nat] /\ unheard \in [Key -> Nat]
      /\ accepted \in [Key -> Nat] /\ worker \in [Workers -> WorkerState] /\ delaying \in DelayState
  BY DEF PoolInv, PoolTypes
<1>2. /\ add \in Adding /\ add # None /\ s \in Server /\ k \in Key /\ amount \in Nat
      /\ request \in [key : Key, time : Nat, amount : Nat]
  <2>1. add # None
    BY DEF AddShare
  <2>2. add \in Adding
    BY <1>1, <2>1
  <2> QED  BY <2>1, <2>2 DEF Adding, Correction
<1>3. /\ given \in Nat /\ share \in Nat /\ given + share <= amount
      /\ NextServer(s) # None => SharesBefore(NextServer(s), amount) = given + share
      /\ NextServer(s) = None => given + share = amount
      /\ NextServer(s) # None => NextServer(s) \in Server
  <2>1. s = 1 => ServerCount > 1
    BY <1>2, ServerCountAssumption DEF Server
  <2> HIDE DEF s, request, add
  <2> QED  BY <1>2, <2>1, SharesAdd, ShareOfAdds, NextServerIs
<1>4. NextServer(s) # None => /\ next \in Adding /\ next # None /\ next.server = NextServer(s)
                              /\ next.request = request
  <2>1. NextServer(s) # None => next \in Adding /\ next.server = NextServer(s) /\ next.request = request
    BY <1>2, <1>3 DEF Adding
  <2> QED  BY <2>1, AddingType
<1>5. /\ pool' = AddToServer(pool, s, ShareOf(s, request))
      /\ NextServer(s) # None => adding' = [adding EXCEPT ![c] = next] /\ accepted' = accepted
      /\ NextServer(s) = None =>
            /\ adding' = [adding EXCEPT ![c] = None]
            /\ IF process = "running" THEN accepted' = [accepted EXCEPT ![k] = @ + amount]
               ELSE accepted' = accepted
      /\ UNCHANGED <<worker, delaying, process, disk, begun, billed, unheard>>
  BY <1>1 DEF AddShare, counts, bills
<1>6. /\ pool' \in Pools
      /\ \A key : InPool(pool', key) = InPool(pool, key) + (IF key = k THEN share ELSE 0)
  <2>1. /\ IsAmounts(ShareOf(s, request))
        /\ \A key : AmountIn(ShareOf(s, request), key) = IF key = k THEN share ELSE 0
    BY <1>2, ShareOfAdds
  <2>2. Takes(pool, pool', ShareOf(s, request))
    BY <1>1, <1>2, <1>5, <2>1, AddToServerAdds
  <2> QED  BY <2>1, <2>2 DEF Takes
<1>7. adding' \in [Callers -> {None} \cup Adding] /\ accepted' \in [Key -> Nat]
  BY <1>1, <1>2, <1>4, <1>5
<1>8. PoolTypes'
  BY <1>1, <1>5, <1>6, <1>7 DEF PoolTypes, AllLeft
<1>9. ASSUME NEW key \in Key PROVE Conserved(key)'
  <2>1. \A d \in Callers \ {c} : adding'[d] = adding[d]
    BY <1>1, <1>5
  <2>2. /\ Given(adding', key) = Given(adding, key) - GivenBy(add, key) + GivenBy(adding'[c], key)
        /\ Coming(adding', key) = Coming(adding, key) - ComingFrom(add, key)
                                  + ComingFrom(adding'[c], key)
    BY <1>1, <1>7, <2>1, CallerChanges
  <2>3. Given(adding, key) \in Nat /\ Coming(adding, key) \in Nat
    BY <1>1, CallersType
  <2>4. /\ GivenBy(add, key) = IF key = k THEN given ELSE 0
        /\ ComingFrom(add, key) = IF key = k THEN amount - given ELSE 0
    BY <1>2 DEF GivenBy, ComingFrom
  <2>5. NextServer(s) # None =>
          /\ GivenBy(adding'[c], key) = IF key = k THEN given + share ELSE 0
          /\ ComingFrom(adding'[c], key) = IF key = k THEN amount - (given + share) ELSE 0
    <3> SUFFICES ASSUME NextServer(s) # None
                 PROVE  /\ GivenBy(adding'[c], key) = IF key = k THEN given + share ELSE 0
                        /\ ComingFrom(adding'[c], key) = IF key = k THEN amount - (given + share) ELSE 0
      OBVIOUS
    <3>1. adding'[c] = next
      BY <1>1, <1>5
    <3>2. SharesBefore(NextServer(s), amount) = given + share
      BY <1>3
    <3>3. next # None /\ next.server = NextServer(s) /\ next.request = request
      BY <1>4
    <3> HIDE DEF next, given, share, s
    <3> QED  BY <3>1, <3>2, <3>3 DEF GivenBy, ComingFrom
  <2>6. NextServer(s) = None =>
          GivenBy(adding'[c], key) = 0 /\ ComingFrom(adding'[c], key) = 0
    BY <1>1, <1>5 DEF GivenBy, ComingFrom
  <2>7. /\ Held(key) \in Nat
        /\ Held(key)' = Held(key) + (IF process = "dumped" \/ key # k THEN 0 ELSE share)
    <3>1. Held(key) \in Nat
      BY <1>1, HeldIs
    <3>2. CASE process = "dumped"
      BY <1>5, <3>1, <3>2 DEF Held
    <3>3. CASE process # "dumped"
      <4>1. Held(key) = InProcess(pool, delaying, worker, key)
        BY <1>1, <3>3, HeldIs
      <4>2. Held(key)' = InProcess(pool', delaying', worker', key)
        BY <1>5, <1>8, <3>3, HeldIsNext
      <4>3. /\ InPool(pool, key) \in Nat /\ AmountIn(delaying.requests, key) \in Nat
            /\ HeldBy(worker, key) \in Nat
        BY <1>1, InProcessType
      <4> HIDE DEF share, k
      <4> QED  BY <1>3, <1>5, <1>6, <3>1, <3>3, <4>1, <4>2, <4>3 DEF InProcess
    <3> QED  BY <3>1, <3>2, <3>3
  <2>8. accepted'[key] = accepted[key]
          + (IF NextServer(s) = None /\ process = "running" /\ key = k THEN amount ELSE 0)
    BY <1>1, <1>2, <1>5
  <2>9. Conserved(key) /\ billed[key] \in Nat /\ unheard[key] \in Nat /\ begun[key] \in Nat
        /\ accepted[key] \in Nat
    BY <1>1 DEF PoolInv
  <2>10. /\ accepted[key] + (IF process = "dumped" THEN 0 ELSE Given(adding, key))
               <= billed[key] + Held(key)
         /\ billed[key] + Held(key) + Coming(adding, key) <= begun[key] + unheard[key]
    BY <2>9 DEF Conserved
  <2> HIDE DEF given, share, k, amount, s, add, next
  <2>11. CASE key # k
    <3>1. Given(adding', key) = Given(adding, key) /\ Coming(adding', key) = Coming(adding, key)
      BY <2>2, <2>3, <2>4, <2>5, <2>6, <2>11
    <3>2. Held(key)' = Held(key) /\ accepted'[key] = accepted[key]
      BY <2>7, <2>8, <2>9, <2>11
    <3> QED  BY <1>5, <2>10, <3>1, <3>2 DEF Conserved
  <2>12. CASE key = k /\ NextServer(s) # None
    <3>1. /\ Given(adding', key) = Given(adding, key) + share
          /\ Coming(adding', key) = Coming(adding, key) - share
      BY <1>2, <1>3, <2>2, <2>3, <2>4, <2>5, <2>12
    <3>2. /\ Held(key)' = Held(key) + (IF process = "dumped" THEN 0 ELSE share)
          /\ accepted'[key] = accepted[key]
      BY <2>7, <2>8, <2>9, <2>12
    <3> QED  BY <1>3, <1>5, <2>3, <2>7, <2>9, <2>10, <3>1, <3>2 DEF Conserved
  <2>13. CASE key = k /\ NextServer(s) = None
    <3>1. /\ Given(adding', key) = Given(adding, key) - given
          /\ Coming(adding', key) = Coming(adding, key) - share /\ given + share = amount
      BY <1>2, <1>3, <2>2, <2>3, <2>4, <2>6, <2>13
    <3>2. /\ Held(key)' = Held(key) + (IF process = "dumped" THEN 0 ELSE share)
          /\ accepted'[key] = accepted[key] + (IF process = "running" THEN amount ELSE 0)
      BY <2>7, <2>8, <2>13
    <3> QED  BY <1>2, <1>3, <1>5, <2>3, <2>7, <2>9, <2>10, <3>1, <3>2 DEF Conserved
  <2> QED  BY <2>11, <2>12, <2>13
<1> QED  BY <1>8, <1>9 DEF PoolInv

-----------------------------------------------------------------------------
(* Stop, dump and the next process.                                        *)

LEMMA StopKeeps ==
    ASSUME PoolInv, Stop
    PROVE  PoolInv'
<1>1. /\ process = "running" /\ process' = "stopping"
      /\ UNCHANGED <<pool, adding, worker, delaying, disk, begun, accepted, billed, unheard>>
  BY DEF Stop, counts, bills
<1>2. PoolTypes'
  BY <1>1 DEF PoolInv, PoolTypes
<1>3. ASSUME NEW key \in Key PROVE Conserved(key)'
  <2>1. Held(key)' = Held(key)
    BY <1>1 DEF Held, InPool
  <2>2. Conserved(key)
    BY DEF PoolInv
  <2> QED  BY <1>1, <2>1, <2>2 DEF Conserved
<1> QED  BY <1>2, <1>3 DEF PoolInv

LEMMA LastDumpKeeps ==
    ASSUME PoolInv, LastDump
    PROVE  PoolInv'
<1>1. /\ process = "stopping" /\ AllLeft /\ process' = "dumped" /\ disk' = Save(pool)
      /\ UNCHANGED <<pool, adding, worker, delaying, begun, accepted, billed, unheard>>
  BY DEF LastDump, bills
<1>2. PoolTypes /\ pool \in Pools /\ worker \in [Workers -> WorkerState] /\ delaying \in DelayState
  BY DEF PoolInv, PoolTypes
<1>3. IsFile(Save(pool)) /\ \A key \in Key : (IF key \in DOMAIN Save(pool) THEN Save(pool)[key] ELSE 0)
                                               = InPool(pool, key)
  BY <1>2, SaveIs
<1>4. PoolTypes'
  BY <1>1, <1>2, <1>3 DEF PoolTypes, AllLeft
<1>5. ASSUME NEW key \in Key PROVE Conserved(key)'
  <2>1. Held(key)' = InPool(pool, key)
    <3>1. Held(key)' = IF key \in DOMAIN disk' THEN disk'[key] ELSE 0
      BY <1>1 DEF Held
    <3> QED  BY <1>1, <1>3, <3>1
  <2>2. Held(key) = InProcess(pool, delaying, worker, key)
    BY <1>1, <1>2, HeldIs
  <2>3. delaying.requests = NoAmounts /\ \A w \in Workers : worker[w].requests = NoAmounts
    BY <1>1, <1>2 DEF AllLeft, DelayState, WorkerState
  <2>4. AmountIn(delaying.requests, key) = 0 /\ HeldBy(worker, key) = 0
    BY <2>3, NoAmountsType, NobodyHolds
  <2>5. InPool(pool, key) \in Nat
    BY <1>2, InPoolType
  <2>6. Held(key)' = Held(key) /\ Held(key) \in Nat
    BY <2>1, <2>2, <2>4, <2>5 DEF InProcess
  <2>7. Conserved(key) /\ accepted[key] \in Nat /\ billed[key] \in Nat /\ Given(adding, key) \in Nat
    BY <1>2, CallersType DEF PoolInv, PoolTypes
  <2> QED  BY <1>1, <2>6, <2>7 DEF Conserved
<1> QED  BY <1>4, <1>5 DEF PoolInv

LEMMA RestartKeeps ==
    ASSUME PoolInv, Restart
    PROVE  PoolInv'
<1>1. /\ process = "dumped" /\ process' = "running" /\ pool' = Load(disk)
      /\ adding' = [c \in Callers |-> None] /\ worker' = [w \in Workers |-> Idle]
      /\ UNCHANGED <<delaying, disk, begun, accepted, billed, unheard>>
  BY DEF Restart, bills
<1>2. PoolTypes /\ IsFile(disk) /\ delaying.server = None /\ delaying \in DelayState
  BY <1>1 DEF PoolInv, PoolTypes, AllLeft
<1>3. /\ pool' \in Pools
      /\ \A key : InPool(pool', key) = IF key \in DOMAIN disk THEN disk[key] ELSE 0
  BY <1>1, <1>2, LoadAdds
<1>4. Idle \in WorkerState /\ Idle.requests = NoAmounts
  BY NoAmountsType, AmountsAre DEF Idle, WorkerState
<1>5. worker' \in [Workers -> WorkerState] /\ \A w \in Workers : worker'[w].requests = NoAmounts
  BY <1>1, <1>4
<1>6. PoolTypes'
  BY <1>1, <1>2, <1>3, <1>5 DEF PoolTypes
<1>7. ASSUME NEW key \in Key PROVE Conserved(key)'
  <2>1. Held(key) = IF key \in DOMAIN disk THEN disk[key] ELSE 0
    BY <1>1 DEF Held
  <2>2. Held(key)' = InProcess(pool', delaying', worker', key)
    BY <1>1, <1>6, HeldIsNext
  <2>3. delaying'.requests = NoAmounts
    BY <1>1, <1>2 DEF DelayState
  <2>4. AmountIn(delaying'.requests, key) = 0 /\ HeldBy(worker', key) = 0
    BY <1>5, <2>3, NoAmountsType, NobodyHolds
  <2>5. InPool(pool', key) \in Nat
    BY <1>3, InPoolType
  <2>6. Held(key)' = Held(key) /\ Held(key) \in Nat
    BY <1>3, <2>1, <2>2, <2>4, <2>5 DEF InProcess
  <2>7. Given(adding', key) = 0 /\ Coming(adding', key) = 0
    BY <1>1, NobodyAdds
  <2>8. Conserved(key) /\ Coming(adding, key) \in Nat /\ billed[key] \in Nat
        /\ begun[key] \in Nat /\ unheard[key] \in Nat /\ accepted[key] \in Nat
    BY <1>2, CallersType DEF PoolInv, PoolTypes
  <2> QED  BY <1>1, <2>6, <2>7, <2>8 DEF Conserved
<1> QED  BY <1>6, <1>7 DEF PoolInv

-----------------------------------------------------------------------------

LEMMA PoolInit == Init => PoolInv
<1> SUFFICES ASSUME Init PROVE PoolInv
  OBVIOUS
<1>1. Idle \in WorkerState /\ Idle.requests = NoAmounts /\ NoAmounts \in AnyAmounts
  BY NoAmountsType, AmountsAre DEF Idle, WorkerState
<1>2. PoolTypes
  BY <1>1, NewPoolEmpty DEF Init, PoolTypes, DelayState
<1>3. ASSUME NEW key \in Key PROVE Conserved(key)
  <2>1. InPool(pool, key) = 0
    BY NewPoolEmpty DEF Init
  <2>2. AmountIn(delaying.requests, key) = 0 /\ HeldBy(worker, key) = 0
    BY <1>1, NoAmountsType, NobodyHolds DEF Init
  <2>3. Held(key) = 0
    BY <1>2, <2>1, <2>2, HeldIs DEF Init, InProcess
  <2>4. Given(adding, key) = 0 /\ Coming(adding, key) = 0
    BY NobodyAdds DEF Init
  <2> QED  BY <2>3, <2>4 DEF Init, Conserved
<1> QED  BY <1>2, <1>3 DEF PoolInv

LEMMA PoolStep == PoolInv /\ [Next]_vars => PoolInv'
<1> SUFFICES ASSUME PoolInv, [Next]_vars PROVE PoolInv'
  OBVIOUS
<1>1. ASSUME NEW c \in Callers, NEW key \in Key, NEW time \in Times, NEW amount \in Amounts,
             BeginAdd(c, key, time, amount)
      PROVE  PoolInv'
  BY <1>1, BeginAddKeeps
<1>2. ASSUME NEW c \in Callers, AddShare(c) PROVE PoolInv'
  BY <1>2, AddShareKeeps
<1>3. ASSUME NEW w \in Workers, Work(w) PROVE PoolInv'
  BY <1>3, GetServerKeeps, LeaveKeeps, TakeRequestsKeeps, AnsweredKeeps, UnansweredKeeps,
     ResendIsKept DEF Work
<1>4. ASSUME NEW s \in Server, ActivateServer(s) PROVE PoolInv'
  BY <1>4, ActivateServerKeeps
<1>5. CASE TakeDelayed
  BY <1>5, TakeDelayedKeeps
<1>6. CASE SendDelayed
  BY <1>6, SendDelayedKeeps
<1>7. CASE PutDelayed
  BY <1>7, PutDelayedKeeps
<1>8. CASE Stop
  BY <1>8, StopKeeps
<1>9. CASE LastDump
  BY <1>9, LastDumpKeeps
<1>10. CASE Restart
  BY <1>10, RestartKeeps
<1>11. CASE UNCHANGED vars
  <2>1. UNCHANGED <<pool, adding, worker, delaying, process, disk, begun, accepted, billed, unheard>>
    BY <1>11 DEF vars, counts, bills
  <2>2. PoolTypes'
    BY <2>1 DEF PoolInv, PoolTypes, AllLeft
  <2>3. ASSUME NEW key \in Key PROVE Conserved(key)'
    <3>1. Held(key)' = Held(key)
      BY <2>1 DEF Held, InPool
    <3>2. Conserved(key)
      BY DEF PoolInv
    <3> QED  BY <2>1, <3>1, <3>2 DEF Conserved
  <2> QED  BY <2>2, <2>3 DEF PoolInv
<1> QED  BY <1>1, <1>2, <1>3, <1>4, <1>5, <1>6, <1>7, <1>8, <1>9, <1>10, <1>11 DEF Next

(* The amounts are conserved in every reachable state.                     *)
LEMMA PoolHolds == Spec => []PoolInv
BY PoolInit, PoolStep, PTL DEF Spec

(* A correction whose add returned to its caller (process_impression,      *)
(* process_click) is booked by a billing server or still held: in the      *)
(* pool, by a worker, by send_delayed_ or in the storage file.             *)
THEOREM AcceptedIsKept == Spec => []AcceptedIsNotLost
<1>1. PoolInv => AcceptedIsNotLost
  <2> SUFFICES ASSUME PoolInv, NEW key \in Key
               PROVE  accepted[key] <= billed[key] + Held(key)
    BY DEF AcceptedIsNotLost
  <2>1. Conserved(key) /\ Given(adding, key) \in Nat /\ Held(key) \in Nat
        /\ accepted[key] \in Nat /\ billed[key] \in Nat
    BY CallersType, HeldIs DEF PoolInv, PoolTypes
  <2> QED  BY <2>1 DEF Conserved
<1> QED  BY <1>1, PoolHolds, PTL

(* What the billing servers booked and what is held of a key is no more    *)
(* than came in, but for calls that were booked and not answered.          *)
THEOREM BilledOnce == Spec => []NotBilledTwice
<1>1. PoolInv => NotBilledTwice
  <2> SUFFICES ASSUME PoolInv, NEW key \in Key
               PROVE  billed[key] + Held(key) <= begun[key] + unheard[key]
    BY DEF NotBilledTwice
  <2>1. Conserved(key) /\ Coming(adding, key) \in Nat /\ Held(key) \in Nat
        /\ billed[key] \in Nat /\ begun[key] \in Nat /\ unheard[key] \in Nat
    BY CallersType, HeldIs DEF PoolInv, PoolTypes
  <2> QED  BY <2>1 DEF Conserved
<1> QED  BY <1>1, PoolHolds, PTL
=============================================================================
