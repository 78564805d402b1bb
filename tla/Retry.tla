------------------------------- MODULE Retry -------------------------------
(***************************************************************************)
(* retry and post of the sentinel's sender (internal/sentinel/sender/      *)
(* sender.go), with their timing: one payload, up to MaxSendAttempts       *)
(* POSTs, exponential backoff, and the waits a 429 asks for with           *)
(* Retry-After.                                                            *)
(* Time is in seconds and jumps to the next event.                         *)
(***************************************************************************)
EXTENDS Integers

CONSTANTS
  MaxSendAttempts, \* maxSendAttempts
  InitialBackoff,  \* initialBackoff
  MaxWait,         \* the 30 s cap on a backoff and on a Retry-After
  RetryAfters,     \* Retry-After values a 429 may carry (negative ones parse)
  PostTimes        \* how long a POST may take, up to the client timeout

ASSUME RetryAssumption ==
  /\ MaxSendAttempts \in Nat \ {0}
  /\ InitialBackoff \in Nat \ {0}
  /\ MaxWait \in Nat
  /\ InitialBackoff <= MaxWait
  /\ RetryAfters \subseteq Int
  /\ PostTimes \subseteq Nat
  /\ \E d \in PostTimes : \A e \in PostTimes : e <= d    \* the client timeout bounds them

VARIABLES
  pc,         \* "loop", "backoff", "post", "retry_after" or a result
  i,          \* attempts started so far
  backoff,    \* the next exponential backoff
  skip,       \* skipBackoff
  wait,       \* the Retry-After wait under way
  now,        \* the clock
  ctxDone,    \* ctx is done
  failedAt,   \* history: when the last attempt failed
  asked       \* history: the least wait due before the next attempt

retryVars == <<pc, i, backoff, skip, wait, now, ctxDone, failedAt, asked>>
-----------------------------------------------------------------------------
(* Mutant: Retry-After is taken as it comes.                               *)
Uncapped(seconds) == seconds

(* The cap on every wait.                                                  *)
Capped(seconds) == IF seconds > MaxWait THEN MaxWait ELSE seconds

RetryInit ==
  /\ pc = "loop"
  /\ i = 0
  /\ backoff = InitialBackoff
  /\ skip = FALSE
  /\ wait = 0
  /\ now = 0
  /\ ctxDone = FALSE
  /\ failedAt = 0
  /\ asked = 0

(* The head of the loop: done after MaxSendAttempts, else a backoff        *)
(* before every attempt but the first and those a Retry-After has delayed. *)
LoopHead ==
  /\ pc = "loop"
  /\ pc' = IF i = MaxSendAttempts THEN "exhausted"
           ELSE IF i > 0 /\ ~skip THEN "backoff" ELSE "post"
  /\ UNCHANGED <<i, backoff, skip, wait, now, ctxDone, failedAt, asked>>

(* The backoff timer fires; the backoff doubles up to the cap.             *)
BackoffOver ==
  /\ pc = "backoff"
  /\ now' = now + backoff
  /\ backoff' = Capped(2 * backoff)
  /\ pc' = "post"
  /\ UNCHANGED <<i, skip, wait, ctxDone, failedAt, asked>>

(* fn succeeds.                                                            *)
PostOk ==
  /\ pc = "post"
  /\ ~ctxDone
  /\ \E d \in PostTimes : now' = now + d
  /\ pc' = "ok"
  /\ i' = i + 1
  /\ skip' = FALSE
  /\ UNCHANGED <<backoff, wait, ctxDone, failedAt, asked>>

(* Mutant: skipBackoff keeps its value from an earlier attempt.            *)
PostErrorKeepsSkip ==
  /\ pc = "post"
  /\ \E d \in PostTimes : now' = now + d
  /\ pc' = "loop"
  /\ i' = i + 1
  /\ failedAt' = now'
  /\ asked' = InitialBackoff
  /\ UNCHANGED <<backoff, skip, wait, ctxDone>>

(* fn fails with any other error, a 429 without a usable Retry-After       *)
(* included.                                                               *)
PostError ==
  /\ pc = "post"
  /\ \E d \in PostTimes : now' = now + d
  /\ pc' = "loop"
  /\ i' = i + 1
  /\ skip' = FALSE
  /\ failedAt' = now'
  /\ asked' = InitialBackoff
  /\ UNCHANGED <<backoff, wait, ctxDone>>

(* fn fails with a retryAfterError: post caps the wait; a wait of zero     *)
(* goes straight to the next attempt, without a backoff.                   *)
PostLimited ==
  /\ pc = "post"
  /\ ~ctxDone
  /\ \E d \in PostTimes, ra \in RetryAfters :
       LET w == Capped(ra)
       IN  /\ now' = now + d
           /\ failedAt' = now'
           /\ asked' = w
           /\ wait' = w
           /\ IF w = 0 THEN pc' = "loop" /\ skip' = TRUE ELSE pc' = "retry_after" /\ skip' = FALSE
  /\ i' = i + 1
  /\ UNCHANGED <<backoff, ctxDone>>

(* Mutant: a negative wait is taken for an endless one.                    *)
RetryAfterOverPositive ==
  /\ pc = "retry_after"
  /\ wait > 0
  /\ now' = now + wait
  /\ skip' = TRUE
  /\ pc' = "loop"
  /\ UNCHANGED <<i, backoff, wait, ctxDone, failedAt, asked>>

(* The Retry-After timer fires (at once when the wait is negative).        *)
RetryAfterOver ==
  /\ pc = "retry_after"
  /\ now' = IF wait > 0 THEN now + wait ELSE now
  /\ skip' = TRUE
  /\ pc' = "loop"
  /\ UNCHANGED <<i, backoff, wait, ctxDone, failedAt, asked>>

(* ctx.Done wins the select of either wait.                                *)
Interrupted ==
  /\ pc \in {"backoff", "retry_after"}
  /\ ctxDone
  /\ pc' = "ctx_error"
  /\ UNCHANGED <<i, backoff, skip, wait, now, ctxDone, failedAt, asked>>

CancelRetry ==
  /\ ~ctxDone
  /\ pc \notin {"ok", "exhausted", "ctx_error"}
  /\ ctxDone' = TRUE
  /\ UNCHANGED <<pc, i, backoff, skip, wait, now, failedAt, asked>>

Step ==
  \/ LoopHead
  \/ BackoffOver
  \/ PostOk
  \/ PostError
  \/ PostLimited
  \/ RetryAfterOver
  \/ Interrupted

RetryNext == Step \/ CancelRetry

RetrySpec == RetryInit /\ [][RetryNext]_retryVars

(* The flush loop runs: timers fire and the HTTP client has a timeout.     *)
FairRetrySpec == RetrySpec /\ WF_retryVars(Step)
-----------------------------------------------------------------------------
RetryTypeOK ==
  /\ pc \in {"loop", "backoff", "post", "retry_after", "ok", "exhausted", "ctx_error"}
  /\ i \in 0..MaxSendAttempts
  /\ backoff \in InitialBackoff..MaxWait
  /\ skip \in BOOLEAN
  /\ wait \in Int
  /\ now \in Nat
  /\ ctxDone \in BOOLEAN
  /\ failedAt \in Nat
  /\ asked \in Int

(* An attempt never follows a failure too soon: it starts at least the     *)
(* initial backoff later, or, after a 429, at least the wait it asked for  *)
(* (capped), which alone may be zero.                                      *)
WaitsBeforeRetry ==
  pc = "post" /\ i > 0 => now >= failedAt + asked

(* The time a payload can hold the single flush loop is bounded, whatever  *)
(* the watchtower answers: an attempt and a wait of at most the cap each   *)
(* per attempt.                                                            *)
HoldsLoopBounded ==
  LET slowest == CHOOSE d \in PostTimes : \A e \in PostTimes : e <= d
  IN  now <= MaxSendAttempts * (slowest + MaxWait)

(* A flush of one payload ends: retry returns, whatever is answered.       *)
RetryReturns == <>(pc \in {"ok", "exhausted", "ctx_error"})
=============================================================================
