----------------------- MODULE MCRequestInfoContainer -----------------------
EXTENDS RequestInfoContainer, TLC

CONSTANTS o1, o2, u1, u2, u3, p1

(* The request is logged where its user is at home; the others may be at    *)
(* home there or away.                                                     *)
AllHomes == {[u \in User |-> IF u \in away THEN o2 ELSE o1] : away \in SUBSET {u2, u3}}

AllTrackings == [notice : BOOLEAN, impression : BOOLEAN, action : BOOLEAN]

(* A request that may move has one action, one that may move twice is       *)
(* logged once, noticed and clicked at most once.                          *)
FewRecords ==
    {a \in [Record -> 0..2] :
        /\ a["notice"] <= 1 /\ a[p1] <= 1
        /\ a["foreign"] = 1 => a["action"] <= 1
        /\ a["foreign"] = 2 =>
            /\ a["request"] = 1 /\ a["click"] <= 1
            /\ a["impression"] = 0 /\ a["action"] = 0 /\ a[p1] = 0}

(* The others are alike. *)
MCSymmetry == Permutations({u2, u3})
=============================================================================
