------------------------------- MODULE Backoff -------------------------------
(***************************************************************************)
(* The retry delay of action_executor.rs, `delay(attempt_times)`, as it   *)
(* is applied along one retry chain of either stage: after the attempt    *)
(* numbered n fails and n is below the cap, the task sleeps delay(n) and  *)
(* re-enqueues attempt n + 1.  In Rust `2 ^ attempt_times` is bitwise     *)
(* XOR, which is what Delay computes.                                     *)
(***************************************************************************)
EXTENDS Naturals, Bitwise

CONSTANT MaxAttempts   \* MAX_SIGNING_ATTEMPTS or MAX_EXECUTION_ATTEMPTS

VARIABLES attempt,     \* attempt number of the wrapper being processed
          lastDelay    \* milliseconds slept before it was enqueued (0 at first)

vars == <<attempt, lastDelay>>

(* delay_ms = 100 * (2 ^ attempt_times) *)
Delay(n) == 100 * (2 ^^ n)

Init == attempt = 0 /\ lastDelay = 0

(* The attempt fails below the cap: sleep, then enqueue attempt + 1.      *)
RetryAfterFailure ==
    /\ attempt < MaxAttempts
    /\ lastDelay' = Delay(attempt)
    /\ attempt' = attempt + 1

Spec == Init /\ [][RetryAfterFailure]_vars

(* Backoff monotonicity (spec: inter-attempt delays of one action are     *)
(* non-decreasing; the code comment lists 0.1s, 0.2s, 0.4s, ...): each     *)
(* retry of a chain waits at least as long as the one before.              *)
BackoffNonDecreasing == [][lastDelay' >= lastDelay]_vars
=============================================================================
