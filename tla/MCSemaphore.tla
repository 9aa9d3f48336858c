----------------------------- MODULE MCSemaphore -----------------------------
(* The semaphore alone, with the calls of gasneti_semaphore_trydown_partial. *)
EXTENDS Semaphore

SemaphoreSpec == SemaInit /\ [][SemaNextPartial]_semaVars
=============================================================================
