---------------------- MODULE MCBillingStateContainer -----------------------
(***************************************************************************)
(* A check and a confirm of one group on two servers, and a configuration  *)
(* that comes while the check is on its way; confirms come before it only. *)
(* Neither step is fair, so nothing that must happen is cut off.           *)
(***************************************************************************)
EXTENDS BillingStateContainer

MCConfirmsBeforeConfig ==
    \A t \in Confirmers : current' # 1 => thread'[t] = Idle
=============================================================================
