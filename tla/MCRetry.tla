------------------------------ MODULE MCRetry ------------------------------
(* The sender's own constants: five attempts, one second, thirty seconds.  *)
EXTENDS Retry

(* Retry-After: 0, the watchtower's own "1", one over the cap, a negative. *)
MCRetryAfters == {0, 1, 60, -5}
=============================================================================
