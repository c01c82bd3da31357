--------------------------- MODULE MCUserBindDump ---------------------------
(***************************************************************************)
(* What the clients do is chosen at the start: they look two ids up, those *)
(* of old users late at times; or they work on one id with cookies and     *)
(* silently, and rewrite it; or one client rewrites one id while the chunk *)
(* is dumped and the process crashes.                                      *)
(***************************************************************************)
EXTENDS UserBindDump, TLC

VARIABLES
    clients,    \* "look", "rewrite" or "dump"
    ids         \* the ids they know

Get(silent, cookie, old) ==
    [op |-> "get", silent |-> silent, generate |-> ~old, cookie |-> cookie,
     own |-> TRUE, old |-> old]

MCLookups == {Get(FALSE, FALSE, FALSE), Get(FALSE, FALSE, TRUE)}
MCAdds == {[op |-> "add"]}
MCRewrites == {Get(FALSE, TRUE, FALSE), Get(TRUE, FALSE, FALSE)} \cup MCAdds
MCCalls == MCLookups \cup MCRewrites

MCAsked ==
    CASE clients = "look" -> MCLookups
      [] clients = "rewrite" -> MCRewrites
      [] clients = "dump" -> MCAdds

MCTime(call) == IF clients = "look" /\ call.old THEN RequestTime ELSE {clock}
MCUsers == IF clients = "rewrite" THEN Uid ELSE Uid \ Blacklisted
MCDays == IF clients = "dump" THEN 1 ELSE MaxClock

MCCall ==
    \/ \E c \in Caller :
        \/ /\ clients = "dump" => \A d \in Caller : caller[d] = Idle
           /\ \E i \in ids, call \in MCAsked : \E now \in MCTime(call) :
                Asks(c, i, call, now, MCUsers)
        \/ GoesOn(c)
    \/ \E k \in Kind : ClearExpired(k)
    \/ clock < MCDays /\ Tick

MCNext ==
    /\ UNCHANGED <<clients, ids>>
    /\ \/ clients # "dump" /\ MCCall /\ spent' \subseteq MCUsers /\ UNCHANGED dumpVars
       \/ /\ clients = "dump"
          /\ \/ ready /\ MCCall /\ UNCHANGED <<disk, dump, crashes, ready>>
             \/ ready /\ DumpStep /\ UNCHANGED vars
             \/ Crash
          /\ Noted

MCInit ==
    /\ DumpInit
    /\ \/ clients = "look" /\ ids = Id
       \/ clients \in {"rewrite", "dump"} /\ ids \in {{i} : i \in Id}

MCSpec == MCInit /\ [][MCNext]_<<allVars, clients, ids>>

MCSymmetry ==
    Permutations(Id) \cup Permutations(Uid \ Blacklisted) \cup Permutations(Caller)

(* add_user_id hands out no user id.  Of the bound users in files only the  *)
(* user ids are told apart: what else they have shows after a crash only,   *)
(* where a run ends.                                                       *)
MCFiles(files) ==
    {[f EXCEPT !.users = [i \in Id |->
        IF @[i] = None \/ f.kind = "seen" THEN @[i] ELSE @[i].uid]] : f \in files}

MCView ==
    <<clients, ids, clock, holders, container, caller,
      IF clients # "dump" THEN spent
      ELSE <<MCFiles(disk), crashes, ready, since,
             IF dump = NoDump THEN NoDump
             ELSE [dump EXCEPT !.old = MCFiles(@), !.tmp = MCFiles(@)]>>>>

(* What comes after the last crash is not looked at.                       *)
MCUpToCrash == crashes < MaxCrashes
=============================================================================
