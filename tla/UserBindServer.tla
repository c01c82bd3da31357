--------------------------- MODULE UserBindServer ---------------------------
(***************************************************************************)
(* The server that binds the external ids of users to user ids             *)
(* (UserBindServerImpl over one portion of a UserBindChunk).               *)
(*                                                                         *)
(* An id is "seen" at first, "bound" to a user later.  The users of a kind *)
(* lie in holders, one for each period of time; the container of a kind,   *)
(* the holders in use, is never changed: who adds or drops a holder puts   *)
(* another container in its place, under the extend_lock, while calls go   *)
(* on with the one they have read.  A call locks its id only.  A user that *)
(* is used is moved to the holder of the present: it is erased from one    *)
(* holder, and put into another some steps later.                          *)
(*                                                                         *)
(* The unit of time is the period of a holder, here also the day of the    *)
(* bad events and any time longer than min_age.                            *)
(***************************************************************************)
EXTENDS Integers, FiniteSets, Sequences

CONSTANTS
    Id,             \* external ids, of one source
    Uid, NoUid,     \* user ids
    Caller,         \* threads
    Calls,          \* the calls that clients make, records as in GetCall
    None,
    Blacklisted,    \* user ids of the black list
    BindAtMinAge,
    MaxBad,         \* max_bad_event
    CountSize,      \* 256: the count of bad events is a byte
    Expire,         \* expire_time, in periods (4 in the code)
    Lag,            \* how late the time of a request can be
    MaxClock        \* bound of the model

Kind == {"seen", "bound"}

(* A call of the IDL; "own": is current_user_id the one of the binding?    *)
(* "old": was the user created in an earlier period (create_timestamp)?    *)
GetCall == [op : {"get"}, silent : BOOLEAN, generate : BOOLEAN,
            cookie : BOOLEAN, own : BOOLEAN, old : BOOLEAN]
AddCall == [op : {"add"}]

(* What is known of a seen user and of a bound one; "cookie": is it bound  *)
(* to the user id of a cookie?                                             *)
SeenUser == [first : Int]
BoundUser == [uid : Uid, cookie : BOOLEAN, bad : 0 .. CountSize - 1, day : Nat]

ASSUME BindAssumption ==
    /\ NoUid \notin Uid /\ Blacklisted \subseteq Uid
    /\ MaxBad \in Nat /\ CountSize \in Nat \ {0} /\ Expire \in Nat
    /\ Lag \in Nat /\ MaxClock \in Nat /\ BindAtMinAge \in BOOLEAN
    /\ Calls \subseteq GetCall \cup AddCall
    /\ None \notin SeenUser \cup BoundUser

VARIABLES
    clock,
    holders,    \* of each kind, all that were created
    container,  \* of each kind, the indices of the holders in use
    caller,     \* of each thread, the call it is in
    spent       \* user ids that were handed out

vars == <<clock, holders, container, caller, spent>>

Idle == [pc |-> "idle"]

Init ==
    /\ clock = 0
    /\ holders = [k \in Kind |-> <<>>]
    /\ container = [k \in Kind |-> {}]
    /\ caller = [c \in Caller |-> Idle]
    /\ spent = {}

-----------------------------------------------------------------------------
(* Holders.                                                                *)

With(k, in, i) == {h \in in : holders[k][h].users[i] # None}

(* The search goes from the newest holder to the oldest.                   *)
Newest(k, in) ==
    CHOOSE h \in in : \A g \in in : holders[k][g].period <= holders[k][h].period

Found(k, i) == With(k, container[k], i) # {}
Home(k, i) == Newest(k, With(k, container[k], i))
Info(k, i) == holders[k][Home(k, i)].users[i]

Stored(k, h, i, info) == [holders EXCEPT ![k][h].users[i] = info]

(* get_holder_: the holder of a period in the container that was read, or  *)
(* in the present one, or a new one.                                       *)
Of(k, in, p) == {h \in in : holders[k][h].period = p}

(* Mutant: the holder is added to the container that the call has read.    *)
Extended_Read(k, read) == read \cup {Len(holders[k]) + 1}

Extended(k, read) == container[k] \cup {Len(holders[k]) + 1}

-----------------------------------------------------------------------------
(* Users.                                                                  *)

Rotated(info, now) ==
    IF info.day = now THEN info ELSE [info EXCEPT !.day = now, !.bad = 0]

Counted(info) == [info EXCEPT !.bad = (@ + 1) % CountSize]

(* modify_at_get_ of a bound user.                                         *)
AtGet(info, call, now) ==
    CASE ~call.cookie -> info
      [] call.cookie /\ ~info.cookie -> [info EXCEPT !.cookie = TRUE]
      [] call.cookie /\ info.cookie /\ call.own -> info
      [] OTHER -> Counted(Rotated(info, now))

(* save_user_id_                                                           *)
Refused(info, u, now) ==
    info.cookie /\ u # info.uid /\ Rotated(info, now).bad >= MaxBad

Saved(info, u, now) ==
    IF ~info.cookie THEN [info EXCEPT !.cookie = TRUE, !.uid = u]
    ELSE IF u = info.uid THEN info
    ELSE [Counted(Rotated(info, now)) EXCEPT
            !.uid = IF Refused(info, u, now) THEN @ ELSE u]

NoUser == [uid |-> NoUid, cookie |-> FALSE, bad |-> 0, day |-> 0]

Fresh == Uid \ spent

(* prepare_result_at_get_                                                  *)
GetReply(info, call) ==
    [uid |-> info.uid, found |-> TRUE,
     invalid |-> call.cookie /\ info.cookie /\ info.bad > MaxBad]

NotBound == [uid |-> NoUid, found |-> FALSE, invalid |-> FALSE]

-----------------------------------------------------------------------------
(* Calls.  A caller in one of these steps holds the lock of its id.        *)

InChunk(c) == caller[c].pc \in {"seen", "holder", "put", "reply"}
Unlocked(i) == \A c \in Caller : InChunk(c) => caller[c].request.id # i

Goes(c, state) == caller' = [caller EXCEPT ![c] = state]

(* A user is to be put into the holder of the present; "read" is the       *)
(* container the call goes on with.                                        *)
Moves(request, kind, read, then, info, reply) ==
    [pc |-> "holder", kind |-> kind, read |-> read, then |-> then,
     info |-> info, reply |-> reply, request |-> request]

Replies(request, reply) == [pc |-> "reply", reply |-> reply, request |-> request]

(* "new" is the user id to add, "resave" whether it replaces another.      *)
Request(i, call, now, u, resave) ==
    [id |-> i, call |-> call, now |-> now, new |-> u, resave |-> resave]

(* The time of a request is not far from the one of the server.            *)
RequestTime == {t \in 0 .. clock : t >= clock - Lag}

(* The chunk's get_user_id looks among the bound users first.  One that is *)
(* in a holder of the past is moved.                                       *)
GetBound(c, i, call, now) ==
    LET request == Request(i, call, now, NoUid, FALSE)
        home == Home("bound", i)
        old == holders["bound"][home].users[i]
        info == AtGet(old, call, now)
    IN
    /\ caller[c] = Idle /\ call.op = "get" /\ Unlocked(i)
    /\ \/ /\ ~Found("bound", i)
          /\ Goes(c, [pc |-> "seen", request |-> request])
          /\ UNCHANGED holders
       \/ /\ Found("bound", i)
          /\ IF call.silent \/ holders["bound"][home].period >= now
             THEN /\ holders' = Stored("bound", home, i, info)
                  /\ Goes(c, Replies(request, GetReply(info, call)))
             ELSE /\ holders' = Stored("bound", home, i, None)
                  /\ Goes(c, Moves(request, "bound", container["bound"],
                                   "touch", info, NotBound))
    /\ UNCHANGED <<clock, container, spent>>

(* A seen user that is old enough is bound to a new user id.               *)
Generates(c, u) ==
    /\ u \in Fresh /\ spent' = spent \cup {u}
    /\ Goes(c, Moves(caller[c].request, "bound", {}, "store",
                     [NoUser EXCEPT !.uid = u, !.cookie = caller[c].request.call.cookie],
                     [NotBound EXCEPT !.uid = u]))

OldEnough(first, now) == BindAtMinAge /\ first < now

GetSeen(c) ==
    LET i == caller[c].request.id
        call == caller[c].request.call
        now == caller[c].request.now
        home == Home("seen", i)
        old == holders["seen"][home].users[i].first
        first == IF now < old THEN now ELSE old
    IN
    /\ caller[c].pc = "seen"
    /\ \/ /\ call.silent
          /\ Goes(c, Replies(caller[c].request, NotBound))
          /\ UNCHANGED <<holders, spent>>
       \/ /\ ~call.silent /\ ~Found("seen", i)
          /\ Goes(c, Moves(caller[c].request, "seen", container["seen"], "see", None,
                           NotBound))
          /\ UNCHANGED <<holders, spent>>
       \/ /\ ~call.silent /\ Found("seen", i) /\ OldEnough(first, now)
          /\ holders' = Stored("seen", home, i, None)
          /\ \E u \in Uid : Generates(c, u)
       \/ /\ ~call.silent /\ Found("seen", i) /\ ~OldEnough(first, now)
          /\ IF holders["seen"][home].period >= now
             THEN /\ holders' = Stored("seen", home, i, [first |-> first])
                  /\ Goes(c, Replies(caller[c].request, NotBound))
             ELSE /\ holders' = Stored("seen", home, i, None)
                  /\ Goes(c, Moves(caller[c].request, "seen", container["seen"], "see",
                                   [first |-> first], NotBound))
          /\ UNCHANGED spent
    /\ UNCHANGED <<clock, container>>

(* Mutant: a user that is bound stays among the seen ones.                 *)
Unseen_Kept(i) == holders

(* erase_user_id_                                                          *)
Unseen(i) ==
    IF Found("seen", i) THEN Stored("seen", Home("seen", i), i, None) ELSE holders

(* The chunk's add_user_id.  Nobody else touches the id, so that it leaves *)
(* the seen users and is looked up in one step.                            *)
AddBound(c, request) ==
    LET i == request.id
        now == request.now
        home == Home("bound", i)
        old == IF Found("bound", i) THEN holders["bound"][home].users[i] ELSE NoUser
        stays == Found("bound", i) /\ holders["bound"][home].period >= now
        saves == request.resave \/ ~Found("bound", i)
        info == IF saves THEN Saved(old, request.new, now) ELSE old
        unseen == Unseen(i)
        reply == [uid |-> old.uid, found |-> Found("bound", i),
                  invalid |-> saves /\ Refused(old, request.new, now)]
    IN
    /\ Unlocked(i)
    /\ spent' = spent \cup {request.new}
    /\ IF stays
       THEN /\ holders' = [unseen EXCEPT !["bound"][home].users[i] = info]
            /\ Goes(c, Replies(request, reply))
       ELSE /\ holders' = IF Found("bound", i)
                          THEN [unseen EXCEPT !["bound"][home].users[i] = None]
                          ELSE unseen
            /\ Goes(c, Moves(request, "bound", container["bound"], "store", info,
                             reply))
    /\ UNCHANGED <<clock, container>>

(* A client's add_user_id.                                                 *)
Add(c, i, call, now, u) ==
    /\ caller[c] = Idle /\ call.op = "add"
    /\ AddBound(c, Request(i, call, now, u, TRUE))

GetHolder(c) ==
    LET k == caller[c].kind
        now == caller[c].request.now
        fast == Of(k, caller[c].read, now)
        slow == Of(k, container[k], now)
        empty == [period |-> now, users |-> [i \in Id |-> None]]
        Takes(h) == Goes(c, [caller[c] EXCEPT !.pc = "put", !.read = {h}])
    IN
    /\ caller[c].pc = "holder"
    /\ \/ /\ fast # {} /\ \E h \in fast : Takes(h)
          /\ UNCHANGED <<holders, container>>
       \/ /\ fast = {} /\ slow # {} /\ \E h \in slow : Takes(h)
          /\ UNCHANGED <<holders, container>>
       \/ /\ fast = {} /\ slow = {}
          /\ holders' = [holders EXCEPT ![k] = Append(@, empty)]
          /\ container' = [container EXCEPT ![k] = Extended(k, caller[c].read)]
          /\ Takes(Len(holders[k]) + 1)
    /\ UNCHANGED <<clock, spent>>

Put(c) ==
    LET i == caller[c].request.id
        call == caller[c].request.call
        now == caller[c].request.now
        touched == AtGet(caller[c].info, call, now)
        first == IF caller[c].info # None THEN caller[c].info.first
                 ELSE IF call.old THEN now - 1 ELSE now
        Stores(info, reply) ==
            /\ \E h \in caller[c].read : holders' = Stored(caller[c].kind, h, i, info)
            /\ Goes(c, Replies(caller[c].request, reply))
            /\ UNCHANGED spent
    IN
    /\ caller[c].pc = "put"
    /\ \/ /\ caller[c].then = "store"
          /\ Stores(caller[c].info, caller[c].reply)
       \/ /\ caller[c].then = "touch"
          /\ Stores(touched, GetReply(touched, call))
       \/ /\ caller[c].then = "see" /\ ~OldEnough(first, now)
          /\ Stores([first |-> first], NotBound)
       \/ /\ caller[c].then = "see" /\ OldEnough(first, now)
          /\ \E u \in Uid : Generates(c, u)
          /\ UNCHANGED holders
    /\ UNCHANGED <<clock, container>>

-----------------------------------------------------------------------------
(* The server's get_user_id: with the lock released, an id that has no     *)
(* user, or one of the black list, is added with a new user id.            *)

AddsAfterGet(c) ==
    /\ caller[c].request.call.op = "get" /\ caller[c].request.new = NoUid
    /\ \/ caller[c].reply.uid \in Blacklisted
       \/ /\ caller[c].request.call.generate /\ caller[c].reply.uid = NoUid
          /\ ~caller[c].reply.invalid /\ ~caller[c].reply.found

Return(c) ==
    /\ caller[c].pc = "reply"
    /\ Goes(c, IF AddsAfterGet(c)
               THEN [pc |-> "again",
                     request |-> [caller[c].request EXCEPT
                                    !.resave = caller[c].reply.uid # NoUid]]
               ELSE Idle)
    /\ UNCHANGED <<clock, holders, container, spent>>

AddAgain(c, u) ==
    /\ caller[c].pc = "again" /\ u \in Fresh
    /\ AddBound(c, [caller[c].request EXCEPT !.new = u])

-----------------------------------------------------------------------------
(* The task that drops the holders of the past, by the end of their periods. *)
Kept(k) == {h \in container[k] : holders[k][h].period + 1 > clock - Expire}

ClearExpired(k) ==
    /\ container' = [container EXCEPT ![k] = Kept(k)]
    /\ UNCHANGED <<clock, holders, caller, spent>>

Tick ==
    /\ clock < MaxClock
    /\ clock' = clock + 1
    /\ UNCHANGED <<holders, container, caller, spent>>

Asks(c, i, call, now, users) ==
    \/ GetBound(c, i, call, now)
    \/ \E u \in users : Add(c, i, call, now, u)

GoesOn(c) ==
    \/ GetSeen(c)
    \/ GetHolder(c)
    \/ Put(c)
    \/ Return(c)
    \/ \E u \in Uid : AddAgain(c, u)

Next ==
    \/ \E c \in Caller, i \in Id, call \in Calls, now \in RequestTime :
        Asks(c, i, call, now, Uid)
    \/ \E c \in Caller : GoesOn(c)
    \/ \E k \in Kind : ClearExpired(k)
    \/ Tick

Spec == Init /\ [][Next]_vars

-----------------------------------------------------------------------------
(* Mutant: the server answers with the new user id though one was found.   *)
Answer_New(c) ==
    IF caller[c].request.new # NoUid THEN caller[c].request.new ELSE caller[c].reply.uid

Answer(c) ==
    IF caller[c].request.new # NoUid /\ (caller[c].request.resave \/ ~caller[c].reply.found)
    THEN caller[c].request.new
    ELSE caller[c].reply.uid

(* The user id that a client is told is the one the id is bound to: two    *)
(* threads that generate one for the same id give the same answer.  (A     *)
(* call that lasts until its own period has expired is excepted, and a     *)
(* silent one, which does not prolong the binding.)                        *)
AnswerIsBinding ==
    \A c \in Caller :
        /\ caller[c].pc = "reply" /\ ~caller[c].reply.invalid
        /\ Answer(c) # NoUid
        /\ caller[c].request.now + 1 > clock - Expire
        /\ caller[c].request.new = NoUid => ~caller[c].request.call.silent
        => /\ Found("bound", caller[c].request.id)
           /\ Info("bound", caller[c].request.id).uid = Answer(c)

(* What the clients see: the user of an id and its last use.  An id that   *)
(* is on its way to the present is bound to the user it will have.         *)
Underway(i) ==
    {c \in Caller : /\ caller[c].pc \in {"holder", "put"} /\ caller[c].kind = "bound"
                    /\ caller[c].request.id = i}

Binding(i) ==
    IF Underway(i) # {} THEN caller[CHOOSE c \in Caller : c \in Underway(i)].info.uid
    ELSE IF Found("bound", i) THEN Info("bound", i).uid
    ELSE NoUid

LastUse(i) ==
    IF Underway(i) # {} THEN caller[CHOOSE c \in Caller : c \in Underway(i)].request.now
    ELSE IF Found("bound", i) THEN holders["bound"][Home("bound", i)].period
    ELSE 0

Directory == INSTANCE UserDirectory WITH
    user <- [i \in Id |-> Binding(i)],
    used <- [i \in Id |-> LastUse(i)],
    today <- clock
=============================================================================
