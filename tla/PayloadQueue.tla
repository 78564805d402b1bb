---------------------------- MODULE PayloadQueue ----------------------------
(***************************************************************************)
(* What the sentinel promises about the payloads of a collector, whatever  *)
(* channels, buffers, flushes and retries lie in between: a lossy FIFO     *)
(* that delivers at least once.                                            *)
(*   - Payloads are numbered as they are emitted and delivered in that     *)
(*     order; a payload may be delivered again only while nothing later    *)
(*     has been.                                                           *)
(*   - A payload leaves the queue delivered and recorded as sent, or       *)
(*     recorded as dropped; only a shutdown may lose some unrecorded.      *)
(***************************************************************************)
EXTENDS Naturals, Sequences, SequencesExt

CONSTANTS Kinds   \* collector types

VARIABLES
  queue,      \* payloads emitted and not yet settled
  emitted,    \* number of payloads emitted
  delivered,  \* what the watchtower accepted, in order
  recorded,   \* payloads the statistics know the fate of
  stopping    \* the sentinel was asked to stop

queueVars == <<queue, emitted, delivered, recorded, stopping>>

QueueInit ==
  /\ queue = [k \in Kinds |-> <<>>]
  /\ emitted = [k \in Kinds |-> 0]
  /\ delivered = [k \in Kinds |-> <<>>]
  /\ recorded = [k \in Kinds |-> 0]
  /\ stopping = FALSE

Emit(k) ==
  /\ emitted' = [emitted EXCEPT ![k] = @ + 1]
  /\ queue' = [queue EXCEPT ![k] = Append(@, emitted[k] + 1)]
  /\ UNCHANGED <<delivered, recorded, stopping>>

(* The watchtower takes the oldest payload and the sentinel learns of it.  *)
Deliver(k) ==
  /\ queue[k] # <<>>
  /\ delivered' = [delivered EXCEPT ![k] = Append(@, Head(queue[k]))]
  /\ queue' = [queue EXCEPT ![k] = Tail(@)]
  /\ recorded' = [recorded EXCEPT ![k] = @ + 1]
  /\ UNCHANGED <<emitted, stopping>>

(* The watchtower takes it but the answer is lost: it will come again, or  *)
(* be dropped.                                                             *)
DeliverUnknowingly(k) ==
  /\ queue[k] # <<>>
  /\ delivered' = [delivered EXCEPT ![k] = Append(@, Head(queue[k]))]
  /\ UNCHANGED <<queue, emitted, recorded, stopping>>

(* A payload is given up and recorded as a drop; when the queue is full a  *)
(* new one may enter in the same step.                                     *)
Drop(k) ==
  /\ \E i \in DOMAIN queue[k] : queue' = [queue EXCEPT ![k] = RemoveAt(@, i)]
  /\ recorded' = [recorded EXCEPT ![k] = @ + 1]
  /\ UNCHANGED <<emitted, delivered, stopping>>

Stop ==
  /\ stopping' = TRUE
  /\ UNCHANGED <<queue, emitted, delivered, recorded>>

(* A shutdown abandons the oldest n payloads.                              *)
Lose(k) ==
  /\ stopping
  /\ \E n \in 1..Len(queue[k]) :
       queue' = [queue EXCEPT ![k] = SubSeq(@, n + 1, Len(@))]
  /\ UNCHANGED <<emitted, delivered, recorded, stopping>>

QueueNext ==
  \/ \E k \in Kinds : Emit(k) \/ Deliver(k) \/ DeliverUnknowingly(k) \/ Drop(k) \/ Lose(k)
  \/ Stop

QueueSpec == QueueInit /\ [][QueueNext]_queueVars
=============================================================================
