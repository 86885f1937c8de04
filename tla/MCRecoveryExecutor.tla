--------------------------- MODULE MCRecoveryExecutor ---------------------------
(***************************************************************************)
(* The executor where effects are visible once their call has ended: nothing  *)
(* is ever in flight.  Effects that land later are in MCServices.           *)
(***************************************************************************)
EXTENDS RecoveryExecutor

OnTime == inFlight = 0 /\ Next

OnTimeSpec == Init /\ [][OnTime]_vars /\ WF_vars(Step)
==============================================================================
