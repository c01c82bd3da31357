--------------------------- MODULE MCFileTransfer ---------------------------
EXTENDS FileTransfer

SenderRests == batch = {} /\ \A f \in File : mover[f] = Resting

(* The second file comes before the first, and that before the first round,*)
(* or not at all.                                                          *)
(* Files meet at the sender only: with two of them the copies go on when   *)
(* the sender rests.                                                       *)
TwoMeetAtSender ==
    /\ 2 \in logged' \ logged => 1 \notin logged
    /\ 1 \in logged' \ logged => SenderRests /\ source = logged /\ faults = 0
    /\ 2 \in logged /\ commitSent' # commitSent => SenderRests

(* Two faults happen to one file.                                          *)
OneStory == Cardinality(logged) + faults' <= 3
=============================================================================
