---------------------------- MODULE ProfileUsers ----------------------------
(* What the parts of a profile map share: its keys and those who use it.   *)
CONSTANTS
    Key,
    Client,     \* threads that use the map
    None

ASSUME ProfileUsersAssumption == None \notin Key \cup Client
=============================================================================
