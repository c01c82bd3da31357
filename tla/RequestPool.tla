----------------------------- MODULE RequestPool ----------------------------
(***************************************************************************)
(* BillingProcessor: the corrections of impressions and clicks on their    *)
(* way from RequestInfoManager to the billing servers.  A correction is    *)
(* shared out among all servers (RequestPool), every server's requests are *)
(* aggregated by key and sent by worker threads (Sender::Job); what a      *)
(* server refuses, or cannot be told, goes to another server once more and *)
(* then among the delayed amounts, which a task offers to every server.    *)
(*                                                                         *)
(* An aggregate holder is a function from <<key, mode>> to the first time  *)
(* and the amount.  The key stands for hour, account, advertiser, campaign,*)
(* group and ctr; one natural number stands for the four aggregate fields, *)
(* in units of the smallest decimal.  All keys are of the hour 0.          *)
(* One call of add_to_server or add_resend_to_server is one step, though   *)
(* it takes the lock of each server it tries anew.                         *)
(***************************************************************************)
EXTENDS Sums, FiniteSets, Functions

CONSTANTS
    ServerCount,    \* servers_.size()
    Key,            \* what requests are aggregated by
    Times,          \* times of requests inside the hour
    Amounts,        \* amounts of requests
    Callers,        \* threads that process impressions and clicks
    Workers,        \* threads of Sender
    MaxRequests,    \* how many requests one call carries (100 in the code)
    LostReplies,    \* may a server book a call whose reply is lost?
    None,           \* no server, no request, no storage file
    MaxAdds,        \* bound of the model: requests processed
    MaxTimers,      \* bound of the model: activation timers of a server
    MaxRestarts     \* bound of the model: restarts of the process

ASSUME ServerCountAssumption == ServerCount \in Nat \ {0}
ASSUME RequestAssumption == Times \subseteq Nat /\ Amounts \subseteq Nat /\ IsFiniteSet(Key)
ASSUME ThreadAssumption == IsFiniteSet(Callers) /\ IsFiniteSet(Workers)
ASSUME NoneAssumption ==
    None \notin Nat /\ None \notin [server : Nat, request : [key : Key, time : Nat, amount : Nat]]

VARIABLES
    pool,       \* [servers, non_empty, delayed]: the RequestPool
    adding,     \* per caller: the request it adds and the server it is at
    worker,     \* per worker: where it is, its server and its requests
    delaying,   \* the send_delayed_ task: next server and its requests
    timers,     \* per server: how many ActivateServerGoals are scheduled
    process,    \* "running", "stopping", "dumped"
    disk,       \* amounts per key in the storage file
    adds,       \* how many requests were processed
    restarts,
    begun,      \* history, per key: amounts callers have begun to add
    accepted,   \* history, per key: amounts whose add returned to its caller
    billed,     \* history, per key: amounts booked by billing servers
    unheard     \* history, per key: those of them whose reply was lost

bills == <<billed, unheard>>
counts == <<disk, adds, restarts, begun>>
vars == <<pool, adding, worker, delaying, timers, process, counts, accepted, bills>>

Server == 0..(ServerCount - 1)
Slot == Key \X {"NORMAL", "RESEND"}

-----------------------------------------------------------------------------
(* Aggregate holders (AmountAggregateHolder) and request arrays.           *)

NoAmounts == [slot \in {} |-> None]

(* Request::add, add_to_aggregator_i_: amounts add up, the first of the    *)
(* two times is kept.                                                      *)
Merge(amounts, requests) ==
    [slot \in DOMAIN amounts \cup DOMAIN requests |->
        IF slot \notin DOMAIN requests THEN amounts[slot]
        ELSE IF slot \notin DOMAIN amounts THEN requests[slot]
        ELSE [time   |-> Min({amounts[slot].time, requests[slot].time}),
              amount |-> amounts[slot].amount + requests[slot].amount]]

OfMode(requests, mode) ==
    Restrict(requests, {slot \in DOMAIN requests : slot[2] = mode})

(* mark_resend_, for requests that are all in the mode NORMAL.             *)
MarkResend(requests) ==
    [slot \in {<<s[1], "RESEND">> : s \in DOMAIN requests} |->
        requests[<<slot[1], "NORMAL">>]]

FirstTime(amounts) == Min({amounts[slot].time : slot \in DOMAIN amounts})

(* ServerStateFirstRequestLess does not tell these two servers apart.      *)
SamePlace(servers, s, t) ==
    LET left == servers[s].amounts
        right == servers[t].amounts
    IN  \/ s = t
        \/ left # NoAmounts /\ right # NoAmounts /\ FirstTime(left) = FirstTime(right)

Before(servers, s, t) ==
    LET left == servers[s].amounts
        right == servers[t].amounts
    IN  \/ left # NoAmounts /\ right = NoAmounts
        \/ left = NoAmounts /\ right = NoAmounts /\ s < t
        \/ left # NoAmounts /\ right # NoAmounts /\ FirstTime(left) < FirstTime(right)

(* non_empty_servers_ is a multiset: how many entries a server has in it.  *)
(* erase(server) removes every entry of the same place in its order.       *)
Erase(p, s) ==
    [t \in Server |-> IF SamePlace(p.servers, s, t) THEN 0 ELSE p.non_empty[t]]

Insert(entries, s) == [entries EXCEPT ![s] = @ + 1]

Listed(p) == {s \in Server : p.non_empty[s] > 0}

-----------------------------------------------------------------------------
(* RequestPool.                                                            *)

(* add_to_server_ of an active server.                                     *)
AddToActive(p, s, requests) ==
    [p EXCEPT !.servers[s].amounts = Merge(@, requests),
              !.non_empty = Insert(IF p.servers[s].amounts = NoAmounts
                                   THEN @ ELSE Erase(p, s), s)]

AddDelayed(p, requests) == [p EXCEPT !.delayed = Merge(@, requests)]

(* The first server from the given one on that takes the requests; the     *)
(* requests are delayed if there is none.                                  *)
AddFrom(p, from, requests) ==
    LET active == {s \in Server : s >= from /\ p.servers[s].active}
    IN  IF requests = NoAmounts THEN p
        ELSE IF active = {} THEN AddDelayed(p, requests)
        ELSE AddToActive(p, Min(active), requests)

(* add_resend_to_server                                                    *)
AddResendToServer(p, index, requests) ==
    LET normal == MarkResend(OfMode(requests, "NORMAL"))
        resend == OfMode(requests, "RESEND")
    IN  AddFrom(AddFrom(p, IF index <= 1 THEN 1 ELSE 0, normal),
                IF index < ServerCount THEN index + 1 ELSE ServerCount, resend)

(* add_to_server                                                           *)
AddToServer(p, s, requests) ==
    IF p.servers[s].active THEN AddToActive(p, s, requests)
    ELSE AddResendToServer(p, s + 1, requests)

(* Mutant: every share takes the remainder. *)
Share_RemainderToAll(s, amount) == (amount \div ServerCount) + (amount % ServerCount)

(* add_to_all_servers: the first server's share takes the remainder; the   *)
(* servers are served in the order 0, 2, 3, ..., 1.                        *)
Share(s, amount) ==
    (amount \div ServerCount) + (IF s = 0 THEN amount % ServerCount ELSE 0)

NextServer(s) ==
    IF s = 1 \/ ServerCount = 1 THEN None
    ELSE IF Max({s + 1, 2}) < ServerCount THEN Max({s + 1, 2}) ELSE 1

ShareOf(s, request) ==
    [slot \in {<<request.key, "NORMAL">>} |->
        [time |-> request.time, amount |-> Share(s, request.amount)]]

(* load_amounts_: all of it before any other thread starts.                *)
LoadKey(key, p, amount) ==
    LET request == [key |-> key, time |-> 0, amount |-> amount]
        first == AddToServer(p, 0, ShareOf(0, request))
        others == FoldSet(LAMBDA s, q : AddToServer(q, s, ShareOf(s, request)),
                          first, Server \ {0, 1})
    IN  IF ServerCount = 1 THEN first ELSE AddToServer(others, 1, ShareOf(1, request))

NewPool ==
    [servers   |-> [s \in Server |-> [active |-> TRUE, amounts |-> NoAmounts]],
     non_empty |-> [s \in Server |-> 0],
     delayed   |-> NoAmounts]

Load(file) ==
    FoldSet(LAMBDA key, p : LoadKey(key, p, file[key]), NewPool, DOMAIN file)

(* collect_aggregator_, save_amounts_: one line per key, modes and times   *)
(* are not written.                                                        *)
AmountAt(requests, slot) == IF slot \in DOMAIN requests THEN requests[slot].amount ELSE 0

AmountIn(requests, key) ==
    AmountAt(requests, <<key, "NORMAL">>) + AmountAt(requests, <<key, "RESEND">>)

InPool(p, key) ==
    AmountIn(p.delayed, key) + SumOver([s \in Server |-> AmountIn(p.servers[s].amounts, key)], Server)

KeysOf(p) ==
    {slot[1] : slot \in DOMAIN p.delayed \cup
                        UNION {DOMAIN p.servers[s].amounts : s \in Server}}

Save(p) == [key \in KeysOf(p) |-> InPool(p, key)]

-----------------------------------------------------------------------------

Idle == [pc |-> "get", server |-> None, requests |-> NoAmounts]

Init ==
    /\ pool = NewPool
    /\ adding = [c \in Callers |-> None]
    /\ worker = [w \in Workers |-> Idle]
    /\ delaying = [server |-> None, requests |-> NoAmounts]
    /\ timers = [s \in Server |-> 0]
    /\ process = "running"
    /\ disk = None
    /\ adds = 0
    /\ restarts = 0
    /\ begun = [key \in Key |-> 0]
    /\ accepted = [key \in Key |-> 0]
    /\ billed = [key \in Key |-> 0]
    /\ unheard = [key \in Key |-> 0]

(* process_impression, process_click: RequestPool::add.                    *)
BeginAdd(c, key, time, amount) ==
    /\ adding[c] = None /\ adds < MaxAdds
    /\ adds' = adds + 1
    /\ adding' = [adding EXCEPT ![c] =
                    [server |-> 0, request |-> [key |-> key, time |-> time, amount |-> amount]]]
    /\ begun' = [begun EXCEPT ![key] = @ + amount]
    /\ UNCHANGED <<pool, worker, delaying, timers, process, disk, restarts, accepted, bills>>

(* One add_to_server of add_to_all_servers; the last one is followed by    *)
(* the check of active(): the caller gets an exception when the pool has   *)
(* been deactivated meanwhile, but the request stays where it is.          *)
AddShare(c) ==
    /\ adding[c] # None
    /\ LET s == adding[c].server
           request == adding[c].request
       IN  /\ pool' = AddToServer(pool, s, ShareOf(s, request))
           /\ IF NextServer(s) # None
              THEN adding' = [adding EXCEPT ![c].server = NextServer(s)] /\ UNCHANGED accepted
              ELSE /\ adding' = [adding EXCEPT ![c] = None]
                   /\ IF process = "running"
                      THEN accepted' = [accepted EXCEPT ![request.key] = @ + request.amount]
                      ELSE UNCHANGED accepted
    /\ UNCHANGED <<worker, delaying, timers, process, counts, bills>>

-----------------------------------------------------------------------------
(* Sender::Job::work and RequestPool::get_requests                         *)

GetServer(w, s) ==
    /\ worker[w].pc = "get" /\ process = "running"
    /\ s \in Listed(pool)
    /\ \A t \in Listed(pool) : ~Before(pool.servers, t, s)
    /\ pool' = [pool EXCEPT !.non_empty[s] = @ - 1]
    /\ worker' = [worker EXCEPT ![w].pc = "check", ![w].server = s]
    /\ UNCHANGED <<adding, delaying, timers, process, counts, accepted, bills>>

(* Job::work returns when the pool has been deactivated.                   *)
Leave(w) ==
    /\ worker[w].pc = "get" /\ process = "stopping"
    /\ worker' = [worker EXCEPT ![w].pc = "left"]
    /\ UNCHANGED <<pool, adding, delaying, timers, process, counts, accepted, bills>>

(* get_aggregator_requests_i_: the requests of the earliest times.         *)
Earliest(amounts) ==
    IF Cardinality(DOMAIN amounts) <= MaxRequests THEN {DOMAIN amounts}
    ELSE {slots \in kSubset(MaxRequests, DOMAIN amounts) :
            \A slot \in slots, other \in DOMAIN amounts \ slots :
                amounts[slot].time <= amounts[other].time}

(* The place of a server that still has requests.                          *)
Put(p, s) ==
    IF p.servers[s].amounts = NoAmounts THEN p.non_empty ELSE Insert(p.non_empty, s)

(* Under the server's lock: its requests are taken, unless another thread  *)
(* has taken them all.                                                     *)
TakeRequests(w) ==
    /\ worker[w].pc = "check"
    /\ LET s == worker[w].server
           amounts == pool.servers[s].amounts
       IN  IF amounts = NoAmounts
           THEN worker' = [worker EXCEPT ![w] = Idle] /\ UNCHANGED pool
           ELSE \E slots \in Earliest(amounts) :
                  LET rest == [pool EXCEPT
                        !.servers[s].amounts = Restrict(@, DOMAIN @ \ slots),
                        !.non_empty = Erase(pool, s)]
                  IN  /\ pool' = [rest EXCEPT !.non_empty = Put(rest, s)]
                      /\ worker' = [worker EXCEPT ![w].pc = "send",
                                                  ![w].requests = Restrict(amounts, slots)]
    /\ UNCHANGED <<adding, delaying, timers, process, counts, accepted, bills>>

(* A billing server books a part of every request (add_amount); the rest   *)
(* is its reply.                                                           *)
Remainders(requests) ==
    {left \in [DOMAIN requests -> 0..Max({0} \cup {requests[slot].amount : slot \in DOMAIN requests})] :
        \A slot \in DOMAIN requests : left[slot] <= requests[slot].amount}

Left(requests, left) ==
    [slot \in {x \in DOMAIN requests : left[x] > 0} |-> [requests[slot] EXCEPT !.amount = left[slot]]]

Booked(requests, left) ==
    [key \in Key |-> AmountIn(requests, key) - AmountIn(Left(requests, left), key)]

Book(requests, left) ==
    /\ billed' = [key \in Key |-> billed[key] + Booked(requests, left)[key]]
    /\ UNCHANGED unheard

(* send_requests: the array keeps what is left.                            *)
Answered(w) ==
    /\ worker[w].pc = "send"
    /\ \E left \in Remainders(worker[w].requests) :
         LET requests == Left(worker[w].requests, left)
         IN  /\ Book(worker[w].requests, left)
             /\ worker' = [worker EXCEPT ![w] =
                  IF requests = NoAmounts THEN Idle
                  ELSE [@ EXCEPT !.pc = "resend", !.requests = requests]]
    /\ UNCHANGED <<pool, adding, delaying, timers, process, counts, accepted>>

(* What the server did with a call that was not answered. As a bound of   *)
(* the model, one reply is lost.                                           *)
Unheard(requests) ==
    \/ UNCHANGED bills
    \/ /\ LostReplies /\ unheard = [key \in Key |-> 0]
       /\ \E left \in Remainders(requests) :
            /\ billed' = [key \in Key |-> billed[key] + Booked(requests, left)[key]]
            /\ unheard' = Booked(requests, left)

(* ServerUnreachable: the server is deactivated for a while; its requests  *)
(* stay where they are. On other exceptions it stays active.               *)
Unanswered(w) ==
    /\ worker[w].pc = "send"
    /\ Unheard(worker[w].requests)
    /\ worker' = [worker EXCEPT ![w].pc = "resend"]
    /\ \/ LET s == worker[w].server
          IN  /\ timers[s] < MaxTimers
              /\ timers' = [timers EXCEPT ![s] = @ + 1]
              /\ pool' = [pool EXCEPT !.servers[s].active = FALSE]
       \/ UNCHANGED <<timers, pool>>
    /\ UNCHANGED <<adding, delaying, process, counts, accepted>>

Resend(w) ==
    /\ worker[w].pc = "resend"
    /\ pool' = AddResendToServer(pool, worker[w].server + 1, worker[w].requests)
    /\ worker' = [worker EXCEPT ![w] = Idle]
    /\ UNCHANGED <<adding, delaying, timers, process, counts, accepted, bills>>

-----------------------------------------------------------------------------
(* The scheduled tasks: ActivateServerGoal and send_delayed_.              *)

ActivateServer(s) ==
    /\ timers[s] > 0 /\ process = "running"
    /\ timers' = [timers EXCEPT ![s] = @ - 1]
    /\ LET p == [pool EXCEPT !.servers[s].active = TRUE]
       IN  pool' = [p EXCEPT !.non_empty = Put(p, s)]
    /\ UNCHANGED <<adding, worker, delaying, process, counts, accepted, bills>>

TakeDelayed ==
    /\ delaying.server = None /\ process = "running"
    /\ pool.delayed # NoAmounts
    /\ delaying' = [server |-> 0, requests |-> pool.delayed]
    /\ pool' = [pool EXCEPT !.delayed = NoAmounts]
    /\ UNCHANGED <<adding, worker, timers, process, counts, accepted, bills>>

(* Every server in turn, active or not, until nothing is left.             *)
SendDelayed ==
    /\ delaying.server \in Server
    /\ delaying.requests # NoAmounts
    /\ \/ \E left \in Remainders(delaying.requests) :
            /\ Book(delaying.requests, left)
            /\ delaying' = [server |-> delaying.server + 1,
                            requests |-> Left(delaying.requests, left)]
       \/ Unheard(delaying.requests) /\ delaying' = [delaying EXCEPT !.server = @ + 1]
    /\ UNCHANGED <<pool, adding, worker, timers, process, counts, accepted>>

PutDelayed ==
    /\ delaying.server # None
    /\ delaying.server = ServerCount \/ delaying.requests = NoAmounts
    /\ pool' = AddDelayed(pool, delaying.requests)
    /\ delaying' = [server |-> None, requests |-> NoAmounts]
    /\ UNCHANGED <<adding, worker, timers, process, counts, accepted, bills>>

-----------------------------------------------------------------------------
(* deactivate_object, wait_object, and the next process.                   *)

Stop ==
    /\ process = "running" /\ restarts < MaxRestarts
    /\ process' = "stopping"
    /\ UNCHANGED <<pool, adding, worker, delaying, timers, counts, accepted, bills>>

(* Mutant: the task is not waited for. *)
AllLeft_Workers == \A w \in Workers : worker[w].pc = "left"

(* "this is required, because send_delayed_ can pull out requests"         *)
AllLeft == delaying.server = None /\ \A w \in Workers : worker[w].pc = "left"

LastDump ==
    /\ process = "stopping" /\ AllLeft
    /\ process' = "dumped"
    /\ disk' = Save(pool)
    /\ UNCHANGED <<pool, adding, worker, delaying, timers, adds, restarts, begun, accepted, bills>>

(* A caller that is still adding goes with its process.                    *)
Restart ==
    /\ process = "dumped"
    /\ process' = "running"
    /\ restarts' = restarts + 1
    /\ pool' = Load(disk)
    /\ adding' = [c \in Callers |-> None]
    /\ worker' = [w \in Workers |-> Idle]
    /\ timers' = [s \in Server |-> 0]
    /\ UNCHANGED <<delaying, disk, adds, begun, accepted, bills>>

Work(w) ==
    \/ \E s \in Server : GetServer(w, s)
    \/ Leave(w)
    \/ TakeRequests(w)
    \/ Answered(w)
    \/ Unanswered(w)
    \/ Resend(w)

Next ==
    \/ \E c \in Callers, key \in Key, time \in Times, amount \in Amounts :
            BeginAdd(c, key, time, amount)
    \/ \E c \in Callers : AddShare(c)
    \/ \E w \in Workers : Work(w)
    \/ \E s \in Server : ActivateServer(s)
    \/ TakeDelayed
    \/ SendDelayed
    \/ PutDelayed
    \/ Stop
    \/ LastDump
    \/ Restart

Spec == Init /\ [][Next]_vars

-----------------------------------------------------------------------------

(* What the process holds of a key, or has left behind in its storage.     *)
Held(key) ==
    IF process = "dumped"
    THEN IF key \in DOMAIN disk THEN disk[key] ELSE 0
    ELSE InPool(pool, key)
         + AmountIn(delaying.requests, key)
         + SumOver([w \in Workers |-> AmountIn(worker[w].requests, key)], Workers)

(* A correction whose add returned to its caller is booked by the billing  *)
(* servers or still held, wherever the stop of the process met it: in a    *)
(* call, between two servers, pulled out by send_delayed_.                 *)
AcceptedIsNotLost ==
    \A key \in Key : accepted[key] <= billed[key] + Held(key)

(* Shares, remainders, resends and restarts never add up to more than the  *)
(* corrections that came in: only a lost reply bills an amount twice.      *)
NotBilledTwice ==
    \A key \in Key : billed[key] + Held(key) <= begun[key] + unheard[key]

(* "non empty servers": a server that has requests to send is on the list, *)
(* or a worker has just taken it from there to send them.                  *)
NonEmptyServersListed ==
    \A s \in Server : pool.servers[s].amounts # NoAmounts =>
        \/ s \in Listed(pool)
        \/ \E w \in Workers : worker[w].pc = "check" /\ worker[w].server = s
=============================================================================
