------------------------------- MODULE Stats -------------------------------
(***************************************************************************)
(* The sentinel's statistics (internal/sentinel/stats): the counters of    *)
(* one collector type.  Every operator is the critical section of the      *)
(* method of its name.  A payload counts one, whatever its size; the wire  *)
(* size only adds a second sum beside the first.                           *)
(***************************************************************************)
EXTENDS Naturals

Reasons == {"buffer_full", "retry_exhausted"}
Zero == [sent |-> 0, drops |-> [r \in Reasons |-> 0]]

(* total never resets, last does at every Snapshot.                        *)
NewEntry == [total |-> Zero, last |-> Zero]

Record(e) == [e EXCEPT !.total.sent = @ + 1, !.last.sent = @ + 1]

RecordDrop(e, reason) ==
  [e EXCEPT !.total.drops[reason] = @ + 1, !.last.drops[reason] = @ + 1]

(* Mutant: the drops since the last snapshot stay.                         *)
SnapshotKeepsDrops(e) == [e EXCEPT !.last.sent = 0]

(* What Snapshot leaves behind; its caller has seen e.                     *)
Snapshot(e) == [e EXCEPT !.last = Zero]

Plus(a, b) == [sent |-> a.sent + b.sent, drops |-> [r \in Reasons |-> a.drops[r] + b.drops[r]]]
AtMost(a, b) == a.sent <= b.sent /\ \A r \in Reasons : a.drops[r] <= b.drops[r]

Counters == [sent : Nat, drops : [Reasons -> Nat]]
Entries  == [total : Counters, last : Counters]
=============================================================================
