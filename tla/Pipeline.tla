------------------------------ MODULE Pipeline ------------------------------
(***************************************************************************)
(* The sentinel's payload pipeline (internal/sentinel/app/run.go with      *)
(* internal/sentinel/sender): for every buffered collector a goroutine     *)
(* that collects into a bounded channel, a wireBuffered goroutine that     *)
(* moves payloads into a bounded drop-oldest Buffer, and one main loop     *)
(* that flushes the buffers of all collectors, one at a time, with         *)
(* retries.  Cancelling ctx makes the main loop leave its select, flush    *)
(* what is buffered under a fresh deadline, and wait for the goroutines.   *)
(*                                                                         *)
(* A payload is its number in the order of its collector.  The length of a *)
(* backoff is left out (module Retry times it): the next attempt comes     *)
(* some time later, and ctx may be cancelled before.                       *)
(***************************************************************************)
EXTENDS Naturals, Sequences, FiniteSets

CONSTANTS
  Kinds,        \* collector types with a Buffer: rpc, logs, resources, metadata, self
  DrainOrder,   \* the sequence in which Run flushes them at shutdown
  OutCap,       \* capacity of a collector's channel
  BufCap,       \* Buffer.maxSize
  MaxAttempts,  \* maxSendAttempts
  Outcomes,     \* what a POST may come to, of {"acked", "unacked", "refused"}
  MaxItems      \* bound: payloads of each collector

ASSUME PipelineAssumption ==
  /\ OutCap \in Nat \ {0}
  /\ BufCap \in Nat \ {0}      \* NewBuffer panics otherwise
  /\ MaxAttempts \in Nat \ {0}
  /\ MaxItems \in [Kinds -> Nat]
  /\ Kinds # {}
  /\ DrainOrder \in Seq(Kinds)
  /\ Outcomes \subseteq {"acked", "unacked", "refused"}

VARIABLES
  emitted,     \* payloads each collector has put on its channel
  collecting,  \* the collector goroutine runs
  out,         \* the collector's channel
  wiring,      \* the wireBuffered goroutine runs
  buf,         \* the collector's Buffer
  main,        \* where the main loop is
  phase,       \* 0 before the shutdown drain, else its position in DrainOrder
  cur,         \* the collector being flushed
  items,       \* what is left of the drained slice, the head being sent
  attempt,     \* failed attempts for the head
  cancelled,   \* ctx is done
  expired,     \* drainCtx is done
  delivered,   \* history: payloads the watchtower accepted, in order
  sent,        \* stats.Record calls
  drops,       \* stats.RecordDrop calls by reason
  lost         \* history: drained payloads a flush returned without sending

vars == <<emitted, collecting, out, wiring, buf, main, phase, cur, items, attempt,
          cancelled, expired, delivered, sent, drops, lost>>
goroutines == <<emitted, collecting, out, wiring, buf>>
-----------------------------------------------------------------------------
Init ==
  /\ emitted = [k \in Kinds |-> 0]
  /\ collecting = [k \in Kinds |-> TRUE]
  /\ out = [k \in Kinds |-> <<>>]
  /\ wiring = [k \in Kinds |-> TRUE]
  /\ buf = [k \in Kinds |-> <<>>]
  /\ main = "select"
  /\ phase = 0
  /\ cur = CHOOSE k \in Kinds : TRUE
  /\ items = <<>>
  /\ attempt = 0
  /\ cancelled = FALSE
  /\ expired = FALSE
  /\ delivered = [k \in Kinds |-> <<>>]
  /\ sent = [k \in Kinds |-> 0]
  /\ drops = [k \in Kinds |-> [buffer_full |-> 0, retry_exhausted |-> 0]]
  /\ lost = [k \in Kinds |-> 0]
-----------------------------------------------------------------------------
(* A collector's send on its channel, which blocks while the channel is    *)
(* full; after a cancellation its select may still choose the send.        *)
Collect(k) ==
  /\ collecting[k]
  /\ Len(out[k]) < OutCap
  /\ emitted[k] < MaxItems[k]
  /\ emitted' = [emitted EXCEPT ![k] = @ + 1]
  /\ out' = [out EXCEPT ![k] = Append(@, emitted[k] + 1)]
  /\ UNCHANGED <<collecting, wiring, buf, main, phase, cur, items, attempt,
                 cancelled, expired, delivered, sent, drops, lost>>

StopCollector(k) ==
  /\ collecting[k]
  /\ cancelled
  /\ collecting' = [collecting EXCEPT ![k] = FALSE]
  /\ UNCHANGED <<emitted, out, wiring, buf, main, phase, cur, items, attempt,
                 cancelled, expired, delivered, sent, drops, lost>>

(* Buffer.Push: at capacity the oldest payload goes.                       *)
Full(b) == Len(b) >= BufCap

(* Mutant: at capacity the oldest slot is overwritten in place.            *)
PushInPlace(b, p) == IF Full(b) THEN [b EXCEPT ![1] = p] ELSE Append(b, p)

Push(b, p) == Append(IF Full(b) THEN Tail(b) ELSE b, p)

(* Mutant: the result of Push is ignored.                                  *)
WireUncounted(k) ==
  /\ wiring[k]
  /\ out[k] # <<>>
  /\ out' = [out EXCEPT ![k] = Tail(@)]
  /\ buf' = [buf EXCEPT ![k] = Push(@, Head(out[k]))]
  /\ UNCHANGED <<emitted, collecting, wiring, main, phase, cur, items, attempt,
                 cancelled, expired, delivered, sent, drops, lost>>

(* wireBuffered: receive, Push, and count what Push dropped.               *)
Wire(k) ==
  /\ wiring[k]
  /\ out[k] # <<>>
  /\ out' = [out EXCEPT ![k] = Tail(@)]
  /\ buf' = [buf EXCEPT ![k] = Push(@, Head(out[k]))]
  /\ drops' = [drops EXCEPT ![k].buffer_full = IF Full(buf[k]) THEN @ + 1 ELSE @]
  /\ UNCHANGED <<emitted, collecting, wiring, main, phase, cur, items, attempt,
                 cancelled, expired, delivered, sent, lost>>

(* Mutant: the goroutine ranges over a channel nobody closes.              *)
StopWireNever(k) == FALSE /\ UNCHANGED vars

StopWire(k) ==
  /\ wiring[k]
  /\ cancelled
  /\ wiring' = [wiring EXCEPT ![k] = FALSE]
  /\ UNCHANGED <<emitted, collecting, out, buf, main, phase, cur, items, attempt,
                 cancelled, expired, delivered, sent, drops, lost>>
-----------------------------------------------------------------------------
(* The context the running flush was given: ctx, or drainCtx at shutdown.  *)
CtxDone == IF phase = 0 THEN cancelled ELSE expired

(* Where the main loop goes when a flush returns.                          *)
FlushReturns ==
  /\ main' = IF phase = 0 THEN "select" ELSE "drain"
  /\ phase' = IF phase = 0 THEN 0 ELSE phase + 1

(* buf.Drain() and the loop over what it returned.                         *)
Drain(k) ==
  /\ cur' = k
  /\ items' = buf[k]
  /\ buf' = [buf EXCEPT ![k] = <<>>]
  /\ attempt' = 0

(* Mutant: a buffer is flushed only once it is full.                       *)
FlushTickWhenFull(k) ==
  /\ main = "select"
  /\ Full(buf[k])
  /\ Drain(k)
  /\ main' = "send"
  /\ UNCHANGED <<emitted, collecting, out, wiring, phase, cancelled, expired,
                 delivered, sent, drops, lost>>

(* The main select takes a send tick; nothing is flushed when the buffer   *)
(* is empty.  The select may choose a tick although ctx is done.           *)
FlushTick(k) ==
  /\ main = "select"
  /\ buf[k] # <<>>
  /\ Drain(k)
  /\ main' = "send"
  /\ UNCHANGED <<emitted, collecting, out, wiring, phase, cancelled, expired,
                 delivered, sent, drops, lost>>

(* The main select takes ctx.Done: the shutdown drain starts.              *)
BeginDrain ==
  /\ main = "select"
  /\ cancelled
  /\ main' = "drain"
  /\ phase' = 1
  /\ UNCHANGED <<goroutines, cur, items, attempt, cancelled, expired,
                 delivered, sent, drops, lost>>

(* The next flush of the drain.                                            *)
DrainFlush ==
  /\ main = "drain"
  /\ phase <= Len(DrainOrder)
  /\ LET k == DrainOrder[phase]
     IN  /\ Drain(k)
         /\ IF buf[k] = <<>>
            THEN main' = "drain" /\ phase' = phase + 1
            ELSE main' = "send" /\ UNCHANGED phase
  /\ UNCHANGED <<emitted, collecting, out, wiring, cancelled, expired,
                 delivered, sent, drops, lost>>

(* wg.Wait, then Run returns.                                              *)
Return ==
  /\ main = "drain"
  /\ phase > Len(DrainOrder)
  /\ \A k \in Kinds : ~collecting[k] /\ ~wiring[k]
  /\ main' = "returned"
  /\ UNCHANGED <<goroutines, phase, cur, items, attempt, cancelled, expired,
                 delivered, sent, drops, lost>>
-----------------------------------------------------------------------------
(* An attempt starts; with its context done it fails at once.              *)
Post ==
  /\ main = "send"
  /\ main' = IF CtxDone THEN "failed" ELSE "posting"
  /\ attempt' = IF CtxDone THEN attempt + 1 ELSE attempt
  /\ UNCHANGED <<goroutines, phase, cur, items, cancelled, expired,
                 delivered, sent, drops, lost>>

(* The head is settled: the loop goes on with the rest of the slice.       *)
NextItem ==
  /\ items' = Tail(items)
  /\ attempt' = 0
  /\ IF Len(items) = 1 THEN FlushReturns ELSE main' = "send" /\ UNCHANGED phase

(* A 2xx answer: SendRawWithRetry returns nil and the payload is recorded. *)
PostAcked ==
  /\ main = "posting"
  /\ "acked" \in Outcomes
  /\ delivered' = [delivered EXCEPT ![cur] = Append(@, Head(items))]
  /\ sent' = [sent EXCEPT ![cur] = @ + 1]
  /\ NextItem
  /\ UNCHANGED <<goroutines, cur, cancelled, expired, drops, lost>>

(* The attempt fails: refused (a connection error, any non-2xx status, the *)
(* context done), or accepted by a watchtower whose answer never arrives.  *)
PostFails ==
  /\ main = "posting"
  /\ \/ ("refused" \in Outcomes \/ CtxDone) /\ UNCHANGED delivered
     \/ /\ "unacked" \in Outcomes \/ CtxDone
        /\ delivered' = [delivered EXCEPT ![cur] = Append(@, Head(items))]
  /\ main' = "failed"
  /\ attempt' = attempt + 1
  /\ UNCHANGED <<goroutines, phase, cur, items, cancelled, expired, sent, drops, lost>>

(* Mutant: one attempt too many.                                           *)
RetryOnceMore ==
  /\ main = "failed"
  /\ attempt <= MaxAttempts
  /\ main' = "send"
  /\ UNCHANGED <<goroutines, phase, cur, items, attempt, cancelled, expired,
                 delivered, sent, drops, lost>>

(* The backoff timer fires before the context is done.                     *)
Retry ==
  /\ main = "failed"
  /\ attempt < MaxAttempts
  /\ main' = "send"
  /\ UNCHANGED <<goroutines, phase, cur, items, attempt, cancelled, expired,
                 delivered, sent, drops, lost>>

(* All attempts failed with the context live: a counted drop.              *)
Exhaust ==
  /\ main = "failed"
  /\ attempt >= MaxAttempts
  /\ ~CtxDone
  /\ drops' = [drops EXCEPT ![cur].retry_exhausted = @ + 1]
  /\ NextItem
  /\ UNCHANGED <<goroutines, cur, cancelled, expired, delivered, sent, lost>>

(* The context is done: the flush returns, with the rest of its slice.     *)
Abandon ==
  /\ main = "failed"
  /\ CtxDone
  /\ lost' = [lost EXCEPT ![cur] = @ + Len(items)]
  /\ items' = <<>>
  /\ attempt' = 0
  /\ FlushReturns
  /\ UNCHANGED <<goroutines, cur, cancelled, expired, delivered, sent, drops>>
-----------------------------------------------------------------------------
Cancel ==
  /\ ~cancelled
  /\ cancelled' = TRUE
  /\ UNCHANGED <<goroutines, main, phase, cur, items, attempt, expired,
                 delivered, sent, drops, lost>>

(* The ten seconds of drainCtx are over.                                   *)
DrainTimeout ==
  /\ phase > 0
  /\ main # "returned"
  /\ ~expired
  /\ expired' = TRUE
  /\ UNCHANGED <<goroutines, main, phase, cur, items, attempt, cancelled,
                 delivered, sent, drops, lost>>

MainLoop ==
  \/ \E k \in Kinds : FlushTick(k)
  \/ BeginDrain
  \/ DrainFlush
  \/ Return
  \/ Post
  \/ PostAcked
  \/ PostFails
  \/ Retry
  \/ Exhaust
  \/ Abandon

Next ==
  \/ MainLoop
  \/ \E k \in Kinds : Collect(k) \/ StopCollector(k) \/ Wire(k) \/ StopWire(k)
  \/ Cancel
  \/ DrainTimeout

(* The main loop blocks only in its select and in wg.Wait: an HTTP attempt *)
(* ends within the client's 30 s timeout and a backoff within 30 s.  Send  *)
(* tickers keep firing and Go's select picks among ready cases at random,  *)
(* so every buffer is flushed again; the goroutines run until they see     *)
(* ctx.Done.  Collectors owe nothing, and nothing makes ctx be cancelled.  *)
Fairness ==
  /\ WF_vars(MainLoop)
  /\ WF_vars(BeginDrain)
  /\ \A k \in Kinds :
       WF_vars(FlushTick(k)) /\ WF_vars(Wire(k)) /\ WF_vars(StopWire(k)) /\ WF_vars(StopCollector(k))

Spec == Init /\ [][Next]_vars
FairSpec == Spec /\ Fairness
-----------------------------------------------------------------------------
(* The payloads of a collector that are not settled, oldest first.         *)
Flushing(k) == IF cur = k THEN items ELSE <<>>
Queue(k) == Flushing(k) \o buf[k] \o out[k]

TypeOK ==
  /\ emitted \in [Kinds -> Nat]
  /\ collecting \in [Kinds -> BOOLEAN]
  /\ out \in [Kinds -> Seq(Nat)]
  /\ wiring \in [Kinds -> BOOLEAN]
  /\ buf \in [Kinds -> Seq(Nat)]
  /\ main \in {"select", "send", "posting", "failed", "drain", "returned"}
  /\ phase \in 0..Len(DrainOrder) + 1
  /\ cur \in Kinds
  /\ items \in Seq(Nat)
  /\ attempt \in 0..MaxAttempts
  /\ cancelled \in BOOLEAN
  /\ expired \in BOOLEAN
  /\ delivered \in [Kinds -> Seq(Nat)]
  /\ sent \in [Kinds -> Nat]
  /\ drops \in [Kinds -> [buffer_full : Nat, retry_exhausted : Nat]]
  /\ lost \in [Kinds -> Nat]

(* Every payload is accounted for: it waits in the channel, the buffer or  *)
(* the slice being flushed, or it was recorded as sent or dropped, or a    *)
(* flush abandoned it, which only a cancelled context makes it do.  While  *)
(* the sentinel runs, nothing vanishes that its statistics do not show.    *)
Accounted ==
  \A k \in Kinds :
    /\ emitted[k] = Len(Queue(k)) + sent[k] + drops[k].buffer_full
                      + drops[k].retry_exhausted + lost[k]
    /\ lost[k] > 0 => cancelled

(* Payloads of a collector reach the watchtower in the order they were     *)
(* collected, over flushes, retries, duplicates, overflow and the shutdown *)
(* drain; what waits is newer than, or still is, the last one delivered.   *)
InOrder ==
  \A k \in Kinds :
    /\ \A i, j \in DOMAIN delivered[k] : i < j => delivered[k][i] <= delivered[k][j]
    /\ \A i \in DOMAIN delivered[k], j \in DOMAIN Queue(k) : delivered[k][i] <= Queue(k)[j]

(* The pipeline implements the lossy FIFO of PayloadQueue.                 *)
Fifo == INSTANCE PayloadQueue WITH
  queue    <- [k \in Kinds |-> Queue(k)],
  recorded <- [k \in Kinds |-> sent[k] + drops[k].buffer_full + drops[k].retry_exhausted],
  stopping <- cancelled

ImplementsFifo == Fifo!QueueSpec

(* After a cancellation Run returns: no goroutine keeps it in wg.Wait, and *)
(* the drain ends even when the watchtower never answers.                  *)
Returns == cancelled ~> main = "returned"

(* While the sentinel runs, a payload does not wait forever: it is sent or *)
(* dropped, although one loop serves all collectors and another's flush    *)
(* may use up all its retries first.                                       *)
Settles == \A k \in Kinds : Queue(k) # <<>> ~> Queue(k) = <<>> \/ cancelled

(* "After shutdown, all buffered items must have been sent": with a        *)
(* watchtower that accepts everything, and a drain that did not run out of *)
(* time, no flush has abandoned payloads it took from a buffer.            *)
ShutdownSendsBuffered == main = "returned" /\ ~expired => \A k \in Kinds : lost[k] = 0
=============================================================================
