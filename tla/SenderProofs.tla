---------------------------- MODULE SenderProofs ----------------------------
(***************************************************************************)
(* Proofs about the sentinel's OTLP relay and its statistics, for any      *)
(* exports, any capacity of the channel and any number of attempts; and    *)
(* about the retry loop they send with, for any backoff and cap, whatever  *)
(* Retry-After values the watchtower answers with and however long an      *)
(* attempt takes up to the client timeout.                                 *)
(***************************************************************************)
EXTENDS OtlpRelay, Retry, FiniteSetTheorems, SequenceTheorems, TLAPS

(* What the operations of Stats do to an entry, counter by counter.        *)
LEMMA CounterFacts ==
  ASSUME NEW a \in Counters
  PROVE  /\ a.sent \in Nat /\ a.drops \in [Reasons -> Nat]
         /\ \A r \in Reasons : a.drops[r] \in Nat
         /\ a.drops["buffer_full"] \in Nat /\ a.drops["retry_exhausted"] \in Nat
BY DEF Counters, Reasons

LEMMA CountersEqual ==
  ASSUME NEW a \in Counters, NEW b \in Counters, a.sent = b.sent,
         \A r \in Reasons : a.drops[r] = b.drops[r]
  PROVE  a = b
<1>1. a.drops = b.drops
  BY DEF Counters
<1> QED  BY <1>1 DEF Counters

LEMMA EntryFacts ==
  ASSUME NEW e \in Entries
  PROVE  e.total \in Counters /\ e.last \in Counters
BY DEF Entries

LEMMA EntryShape ==
  ASSUME NEW e \in Entries
  PROVE  \E m \in Nat, n \in Nat, f \in [Reasons -> Nat], g \in [Reasons -> Nat] :
           e = [total |-> [sent |-> m, drops |-> f], last |-> [sent |-> n, drops |-> g]]
<1>1. e.total \in Counters /\ e.last \in Counters /\ e = [total |-> e.total, last |-> e.last]
  BY DEF Entries
<1>2. PICK m \in Nat, f \in [Reasons -> Nat] : e.total = [sent |-> m, drops |-> f]
  BY <1>1 DEF Counters
<1>3. PICK n \in Nat, g \in [Reasons -> Nat] : e.last = [sent |-> n, drops |-> g]
  BY <1>1 DEF Counters
<1> QED  BY <1>1, <1>2, <1>3

LEMMA SetTotal ==
  ASSUME NEW x, NEW y, NEW t
  PROVE  [[total |-> x, last |-> y] EXCEPT !.total = t] = [total |-> t, last |-> y]
OBVIOUS

LEMMA SetLast ==
  ASSUME NEW x, NEW y, NEW l
  PROVE  [[total |-> x, last |-> y] EXCEPT !.last = l] = [total |-> x, last |-> l]
OBVIOUS

LEMMA SetBoth ==
  ASSUME NEW x, NEW y, NEW t, NEW l
  PROVE  [[total |-> x, last |-> y] EXCEPT !.total = t, !.last = l] = [total |-> t, last |-> l]
<1>1. [[total |-> x, last |-> y] EXCEPT !.total = t] = [total |-> t, last |-> y]
  BY SetTotal
<1>2. [[total |-> t, last |-> y] EXCEPT !.last = l] = [total |-> t, last |-> l]
  BY SetLast
<1>3. [[total |-> x, last |-> y] EXCEPT !.total = t, !.last = l]
        = [[total |-> t, last |-> y] EXCEPT !.last = l]
  BY <1>1
<1> QED  BY <1>2, <1>3

LEMMA RecordFacts ==
  ASSUME NEW e \in Entries
  PROVE  /\ Record(e) \in Entries
         /\ Record(e).total.sent = e.total.sent + 1 /\ Record(e).total.drops = e.total.drops
         /\ Record(e).last.sent = e.last.sent + 1 /\ Record(e).last.drops = e.last.drops
<1>1. PICK m \in Nat, n \in Nat, f \in [Reasons -> Nat], g \in [Reasons -> Nat] :
        e = [total |-> [sent |-> m, drops |-> f], last |-> [sent |-> n, drops |-> g]]
  BY EntryShape
<1>2. Record(e) = [total |-> [sent |-> m + 1, drops |-> f], last |-> [sent |-> n + 1, drops |-> g]]
  <2>1. [e.total EXCEPT !.sent = @ + 1] = [sent |-> m + 1, drops |-> f]
    BY <1>1
  <2>2. [e.last EXCEPT !.sent = @ + 1] = [sent |-> n + 1, drops |-> g]
    BY <1>1
  <2>3. Record(e) = [e EXCEPT !.total = [e.total EXCEPT !.sent = @ + 1],
                              !.last  = [e.last EXCEPT !.sent = @ + 1]]
    BY <1>1 DEF Record
  <2>4. Record(e) = [e EXCEPT !.total = [sent |-> m + 1, drops |-> f],
                              !.last  = [sent |-> n + 1, drops |-> g]]
    BY <2>1, <2>2, <2>3
  <2> QED  BY <1>1, <2>4, SetBoth
<1>3. m + 1 \in Nat /\ n + 1 \in Nat
  OBVIOUS
<1>4. Record(e) \in Entries
  BY <1>2, <1>3 DEF Entries, Counters
<1> QED  BY <1>1, <1>2, <1>4

LEMMA RecordDropFacts ==
  ASSUME NEW e \in Entries, NEW why \in Reasons
  PROVE  /\ RecordDrop(e, why) \in Entries
         /\ RecordDrop(e, why).total.sent = e.total.sent
         /\ RecordDrop(e, why).last.sent = e.last.sent
         /\ RecordDrop(e, why).total.drops = [e.total.drops EXCEPT ![why] = @ + 1]
         /\ RecordDrop(e, why).last.drops = [e.last.drops EXCEPT ![why] = @ + 1]
<1>1. PICK m \in Nat, n \in Nat, f \in [Reasons -> Nat], g \in [Reasons -> Nat] :
        e = [total |-> [sent |-> m, drops |-> f], last |-> [sent |-> n, drops |-> g]]
  BY EntryShape
<1>2. RecordDrop(e, why) =
        [total |-> [sent |-> m, drops |-> [f EXCEPT ![why] = @ + 1]],
         last  |-> [sent |-> n, drops |-> [g EXCEPT ![why] = @ + 1]]]
  <2>1. [e.total EXCEPT !.drops[why] = @ + 1] = [sent |-> m, drops |-> [f EXCEPT ![why] = @ + 1]]
    BY <1>1
  <2>2. [e.last EXCEPT !.drops[why] = @ + 1] = [sent |-> n, drops |-> [g EXCEPT ![why] = @ + 1]]
    BY <1>1
  <2>3. RecordDrop(e, why) = [e EXCEPT !.total = [e.total EXCEPT !.drops[why] = @ + 1],
                                       !.last  = [e.last EXCEPT !.drops[why] = @ + 1]]
    BY <1>1 DEF RecordDrop
  <2>4. RecordDrop(e, why) = [e EXCEPT !.total = [sent |-> m, drops |-> [f EXCEPT ![why] = @ + 1]],
                                       !.last  = [sent |-> n, drops |-> [g EXCEPT ![why] = @ + 1]]]
    BY <2>1, <2>2, <2>3
  <2> QED  BY <1>1, <2>4, SetBoth
<1>3. /\ [f EXCEPT ![why] = @ + 1] \in [Reasons -> Nat]
      /\ [g EXCEPT ![why] = @ + 1] \in [Reasons -> Nat]
  OBVIOUS
<1>4. RecordDrop(e, why) \in Entries
  BY <1>2, <1>3 DEF Entries, Counters
<1>5. /\ e.total.sent = m /\ e.last.sent = n /\ e.total.drops = f /\ e.last.drops = g
  BY <1>1
<1>6. /\ RecordDrop(e, why).total = [sent |-> m, drops |-> [f EXCEPT ![why] = @ + 1]]
      /\ RecordDrop(e, why).last = [sent |-> n, drops |-> [g EXCEPT ![why] = @ + 1]]
  BY <1>2
<1> QED  BY <1>4, <1>5, <1>6

LEMMA DropCounted ==
  ASSUME NEW e \in Entries, NEW why \in Reasons, NEW d, d = RecordDrop(e, why)
  PROVE  /\ d \in Entries /\ d.total.sent = e.total.sent
         /\ Dropped(d.total) = Dropped(e.total) + 1
<1>1. PICK f \in [Reasons -> Nat] : f = e.total.drops
  BY EntryFacts, CounterFacts
<1>2. d.total.drops = [f EXCEPT ![why] = @ + 1]
  BY <1>1, RecordDropFacts
<1>3. f["buffer_full"] \in Nat /\ f["retry_exhausted"] \in Nat
  BY DEF Reasons
<1>4. /\ d.total.drops["buffer_full"] =
           IF why = "buffer_full" THEN f["buffer_full"] + 1 ELSE f["buffer_full"]
      /\ d.total.drops["retry_exhausted"] =
           IF why = "buffer_full" THEN f["retry_exhausted"] ELSE f["retry_exhausted"] + 1
  BY <1>2 DEF Reasons
<1>5. Dropped(d.total) = Dropped(e.total) + 1
  BY <1>1, <1>3, <1>4 DEF Dropped
<1> QED  BY <1>5, RecordDropFacts

LEMMA SnapshotFacts ==
  ASSUME NEW e \in Entries
  PROVE  Snapshot(e) \in Entries /\ Snapshot(e).total = e.total /\ Snapshot(e).last = Zero
BY DEF Snapshot, Entries, Counters, Zero

LEMMA ZeroFacts == Zero \in Counters /\ Zero.sent = 0 /\ \A r \in Reasons : Zero.drops[r] = 0
BY DEF Zero, Counters

LEMMA PlusFacts ==
  ASSUME NEW a \in Counters, NEW b \in Counters
  PROVE  /\ Plus(a, b) \in Counters /\ Plus(a, b).sent = a.sent + b.sent
         /\ \A r \in Reasons : Plus(a, b).drops[r] = a.drops[r] + b.drops[r]
BY DEF Plus, Counters
-----------------------------------------------------------------------------
Sending == sender \in {"send", "posting", "failed"}

(* The sender holds a payload exactly while it sends.                      *)
RelayTypes ==
  /\ handler \in [Exports -> {"new", "handling", "ok", "bad_request"}]
  /\ chan \in Seq(Exports)
  /\ item \in Seq(Exports)
  /\ Len(item) = IF Sending THEN 1 ELSE 0
  /\ acked \in Nat /\ aborted \in Nat
  /\ st \in Entries

AccountInv == RelayTypes /\ AcceptedAccounted

(* Only the handlers and the sender move payloads; the account is a sum of *)
(* three numbers.                                                          *)
LEMMA AccountKept ==
  ASSUME AccountInv, handler' = handler, chan' = chan, item' = item, Sending' <=> Sending,
         UNCHANGED <<acked, aborted>>, cancelled => cancelled', st' \in Entries, st'.total = st.total
  PROVE  AccountInv'
<1>1. Accepted' = Accepted
  BY DEF Accepted
<1> QED  BY <1>1 DEF AccountInv, RelayTypes, AcceptedAccounted, Settled, Dropped

LEMMA AcceptedGrows ==
  ASSUME RelayTypes, NEW e \in Exports, handler[e] = "handling",
         handler' = [handler EXCEPT ![e] = "ok"]
  PROVE  /\ Cardinality(Accepted') = Cardinality(Accepted) + 1
         /\ Cardinality(Accepted) \in Nat
<1>1. Accepted' = Accepted \cup {e} /\ e \notin Accepted
  BY DEF Accepted, RelayTypes
<1>2. IsFiniteSet(Accepted)
  BY OtlpAssumption, FS_Subset DEF Accepted
<1> QED  BY <1>1, <1>2, FS_AddElement, FS_CardinalityType

LEMMA AccountNumbers ==
  ASSUME RelayTypes
  PROVE  /\ Len(chan) \in Nat /\ Len(item) \in Nat /\ st.total.sent \in Nat
         /\ acked \in Nat /\ aborted \in Nat /\ Dropped(st.total) \in Nat /\ Settled \in Nat
         /\ Dropped(st.total) = st.total.drops["buffer_full"] + st.total.drops["retry_exhausted"]
<1>1. st.total \in Counters
  BY EntryFacts DEF RelayTypes
<1>2. /\ st.total.sent \in Nat
      /\ st.total.drops["buffer_full"] \in Nat /\ st.total.drops["retry_exhausted"] \in Nat
  BY <1>1, CounterFacts
<1>3. Dropped(st.total) = st.total.drops["buffer_full"] + st.total.drops["retry_exhausted"]
  BY DEF Dropped
<1>4. Len(chan) \in Nat /\ Len(item) \in Nat /\ acked \in Nat /\ aborted \in Nat
  BY DEF RelayTypes
<1>5. Settled \in Nat
  BY <1>2, <1>3, <1>4 DEF Settled
<1> QED  BY <1>2, <1>3, <1>4, <1>5

LEMMA AccountStep == AccountInv /\ [Next]_vars => AccountInv'
<1> SUFFICES ASSUME AccountInv, [Next]_vars PROVE AccountInv'
  OBVIOUS
<1> USE DEF AccountInv
<1>1. CASE UNCHANGED vars
  BY <1>1, AccountKept DEF vars, relay, RelayTypes, Sending
<1>2. ASSUME NEW e \in Exports, Accept(e) \/ HandleBad(e) PROVE AccountInv'
  <2>1. handler' \in [Exports -> {"new", "handling", "ok", "bad_request"}] /\ Accepted' = Accepted
    BY <1>2 DEF Accept, HandleBad, Accepted, RelayTypes
  <2>2. UNCHANGED <<chan, item, sender, acked, aborted, cancelled, st>>
    BY <1>2 DEF Accept, HandleBad
  <2> QED  BY <2>1, <2>2 DEF RelayTypes, AcceptedAccounted, Settled, Dropped, Sending
<1>3. ASSUME NEW e \in Exports, HandleMetrics(e) PROVE AccountInv'
  <2>1. /\ Cardinality(Accepted') = Cardinality(Accepted) + 1 /\ Cardinality(Accepted) \in Nat
    BY <1>3, AcceptedGrows DEF HandleMetrics
  <2>2. handler' \in [Exports -> {"new", "handling", "ok", "bad_request"}] /\ UNCHANGED <<item, sender, acked, aborted, cancelled>>
    BY <1>3 DEF HandleMetrics, RelayTypes
  <2>3. CASE chan' = Append(chan, e) /\ st' = st
    <3>1. chan' \in Seq(Exports) /\ Len(chan') = Len(chan) + 1
      BY <2>3 DEF RelayTypes
    <3>2. AcceptedAccounted'
      <4>1. Settled' = Settled
        BY <2>2, <2>3 DEF Settled, Dropped
      <4>2. Cardinality(Accepted') = Len(chan') + Len(item') + Settled'
        BY <2>1, <2>2, <3>1, <4>1, AccountNumbers DEF AcceptedAccounted
      <4> QED  BY <2>2, <2>3, <4>2 DEF AcceptedAccounted
    <3> QED  BY <2>2, <2>3, <3>1, <3>2 DEF RelayTypes, Sending
  <2>4. CASE chan' = chan /\ st' = RecordDrop(st, "buffer_full")
    <3>1. /\ st' \in Entries /\ st'.total.sent = st.total.sent
          /\ Dropped(st'.total) = Dropped(st.total) + 1
      BY <2>4, DropCounted DEF Reasons, RelayTypes
    <3>2. AcceptedAccounted'
      <4>1. Settled' = Settled + 1
        BY <2>2, <3>1, AccountNumbers DEF Settled
      <4>2. Cardinality(Accepted') = Len(chan') + Len(item') + Settled'
        BY <2>1, <2>2, <2>4, <4>1, AccountNumbers DEF AcceptedAccounted
      <4> QED  BY <2>2, <3>1, <4>2 DEF AcceptedAccounted
    <3> QED  BY <2>2, <2>4, <3>1, <3>2 DEF RelayTypes, Sending
  <2> QED  BY <1>3, <2>3, <2>4 DEF HandleMetrics
<1>4. CASE Receive
  <2>1. /\ chan' \in Seq(Exports) /\ Len(chan') = Len(chan) - 1
        /\ item' \in Seq(Exports) /\ Len(item') = 1 /\ Len(item) = 0
    BY <1>4 DEF Receive, RelayTypes, Sending
  <2>2. UNCHANGED <<handler, acked, aborted, cancelled, st>> /\ Sending' /\ Accepted' = Accepted
    BY <1>4 DEF Receive, Sending, Accepted
  <2> QED  BY <2>1, <2>2, AccountNumbers DEF RelayTypes, AcceptedAccounted, Settled, Dropped
<1>5. CASE StopSender \/ Post \/ PostFails \/ Retry
  BY <1>5, AccountKept DEF StopSender, Post, PostFails, Retry, Sending, RelayTypes
<1>6. CASE PostAcked \/ RecordAborted
  <2>1. /\ st' \in Entries /\ st'.total.sent = st.total.sent + 1 /\ st'.total.drops = st.total.drops
    BY <1>6, RecordFacts DEF PostAcked, RecordAborted, RelayTypes
  <2>2. item' = <<>> /\ Len(item) = 1 /\ ~Sending'
    BY <1>6 DEF PostAcked, RecordAborted, RelayTypes, Sending
  <2>3. /\ UNCHANGED <<handler, chan, cancelled>> /\ Accepted' = Accepted
        /\ \/ acked' = acked + 1 /\ aborted' = aborted
           \/ acked' = acked /\ aborted' = aborted + 1 /\ cancelled
    BY <1>6 DEF PostAcked, RecordAborted, Accepted
  <2>4. item' \in Seq(Exports) /\ Len(item') = 0
    BY <2>2
  <2>5. Dropped(st'.total) = Dropped(st.total)
    BY <2>1 DEF Dropped
  <2>6. AcceptedAccounted'
    <3>0. Settled' = Settled + 1
      BY <2>3, <2>5, AccountNumbers DEF Settled
    <3>1. Cardinality(Accepted') = Len(chan') + Len(item') + Settled'
      BY <2>2, <2>3, <2>4, <3>0, AccountNumbers DEF AcceptedAccounted
    <3>2. acked' <= st'.total.sent /\ st'.total.sent <= acked' + aborted'
      <4>1. PICK n \in Nat : n = st.total.sent /\ acked <= n /\ n <= acked + aborted
        BY AccountNumbers DEF AcceptedAccounted
      <4>2. st'.total.sent = n + 1 /\ acked \in Nat /\ aborted \in Nat
        BY <2>1, <4>1, AccountNumbers
      <4>3. acked' <= n + 1 /\ n + 1 <= acked' + aborted'
        BY <2>3, <4>1, <4>2
      <4> QED  BY <4>2, <4>3
    <3>3. aborted' > 0 => cancelled'
      <4>1. (cancelled' <=> cancelled) /\ (aborted' = aborted \/ cancelled)
        BY <2>3
      <4>2. aborted > 0 => cancelled
        BY DEF AcceptedAccounted
      <4> QED  BY <4>1, <4>2
    <3> QED  BY <3>1, <3>2, <3>3 DEF AcceptedAccounted
  <2>7. acked' \in Nat /\ aborted' \in Nat
    BY <2>3, AccountNumbers
  <2> QED  BY <2>1, <2>2, <2>3, <2>4, <2>6, <2>7 DEF RelayTypes
<1>7. CASE Exhaust
  <2>1. /\ st' \in Entries /\ st'.total.sent = st.total.sent
        /\ Dropped(st'.total) = Dropped(st.total) + 1
    BY <1>7, DropCounted DEF Exhaust, Reasons, RelayTypes
  <2>2. item' = <<>> /\ Len(item) = 1 /\ ~Sending'
    BY <1>7 DEF Exhaust, RelayTypes, Sending
  <2>3. UNCHANGED <<handler, chan, acked, aborted, cancelled>> /\ Accepted' = Accepted
    BY <1>7 DEF Exhaust, Accepted
  <2>4. item' \in Seq(Exports) /\ Len(item') = 0
    BY <2>2
  <2>5. AcceptedAccounted'
    <3>1. Settled' = Settled + 1
      BY <2>1, <2>3, AccountNumbers DEF Settled
    <3>2. Cardinality(Accepted') = Len(chan') + Len(item') + Settled'
      BY <2>2, <2>3, <2>4, <3>1, AccountNumbers DEF AcceptedAccounted
    <3> QED  BY <2>1, <2>3, <3>2 DEF AcceptedAccounted
  <2> QED  BY <2>1, <2>2, <2>3, <2>4, <2>5 DEF RelayTypes
<1>8. CASE LogStats \/ SelfSnapshot
  <2>1. st' \in Entries /\ st'.total = st.total
    BY <1>8, SnapshotFacts DEF LogStats, SelfSnapshot, RelayTypes
  <2> QED  BY <1>8, <2>1, AccountKept DEF LogStats, SelfSnapshot, relay, Sending
<1>9. CASE ShutdownServer \/ ServeFails \/ SelfSend \/ SelfStop \/ Cancel \/ Return
  BY <1>9, AccountKept DEF ShutdownServer, ServeFails, SelfSend, SelfStop, Cancel, Return, relay, Sending, RelayTypes
<1> QED  BY <1>1, <1>2, <1>3, <1>4, <1>5, <1>6, <1>7, <1>8, <1>9 DEF Next, Sender, Self

(* Every export that was answered 200 (Relay.handleMetrics) is on the      *)
(* channel, with the sender, acknowledged, counted once as dropped, or cut *)
(* short by the cancellation; and the sent counter has each acknowledged   *)
(* one once.                                                               *)
THEOREM AcceptedIsAccounted == Spec => []AcceptedAccounted
<1>1. Init => AccountInv
  <2> SUFFICES ASSUME Init PROVE AccountInv
    OBVIOUS
  <2>1. Accepted = {}
    BY DEF Init, Accepted
  <2>2. st \in Entries /\ st.total = Zero /\ Dropped(Zero) = 0
    BY ZeroFacts DEF Init, NewEntry, Entries, Dropped, Reasons
  <2> QED  BY <2>1, <2>2, FS_EmptySet, ZeroFacts DEF Init, AccountInv, RelayTypes, AcceptedAccounted, Settled, Sending
<1>2. AccountInv => AcceptedAccounted
  BY DEF AccountInv
<1> QED  BY <1>1, <1>2, AccountStep, PTL DEF Spec
-----------------------------------------------------------------------------
(* What was logged, what self took and what is pending add up to total.    *)
AddUp(l, t, e) == Plus(Plus(l, t), e.last) = e.total

(* The same, counter by counter.                                           *)
LEMMA AddUpCounters ==
  ASSUME NEW l \in Counters, NEW t \in Counters, NEW e \in Entries
  PROVE  AddUp(l, t, e) <=> /\ l.sent + t.sent + e.last.sent = e.total.sent
                            /\ \A r \in Reasons : l.drops[r] + t.drops[r] + e.last.drops[r] = e.total.drops[r]
<1> DEFINE s == Plus(Plus(l, t), e.last)
<1>1. Plus(l, t) \in Counters /\ e.last \in Counters /\ e.total \in Counters
  BY PlusFacts, EntryFacts
<1>2. /\ s \in Counters /\ s.sent = Plus(l, t).sent + e.last.sent
      /\ \A r \in Reasons : s.drops[r] = Plus(l, t).drops[r] + e.last.drops[r]
  BY <1>1, PlusFacts
<1>3. /\ s.sent = l.sent + t.sent + e.last.sent
      /\ \A r \in Reasons : s.drops[r] = l.drops[r] + t.drops[r] + e.last.drops[r]
  BY <1>2, PlusFacts
<1> HIDE DEF s
<1>4. s = e.total <=> s.sent = e.total.sent /\ \A r \in Reasons : s.drops[r] = e.total.drops[r]
  BY <1>1, <1>2, CountersEqual
<1> QED  BY <1>3, <1>4 DEF AddUp, s

LEMMA AtMostTransitive ==
  ASSUME NEW a \in Counters, NEW b \in Counters, NEW c \in Counters, AtMost(a, b), AtMost(b, c)
  PROVE  AtMost(a, c)
BY CounterFacts DEF AtMost

LEMMA AtMostSelf == ASSUME NEW a \in Counters PROVE AtMost(a, a)
BY CounterFacts DEF AtMost

(* One more payload counts in total and in last alike.                     *)
LEMMA RecordAddsUp ==
  ASSUME NEW l \in Counters, NEW t \in Counters, NEW e \in Entries, AddUp(l, t, e),
         NEW d, d = Record(e)
  PROVE  d \in Entries /\ AddUp(l, t, d) /\ AtMost(e.total, d.total)
<1>1. /\ l.sent + t.sent + e.last.sent = e.total.sent
      /\ \A r \in Reasons : l.drops[r] + t.drops[r] + e.last.drops[r] = e.total.drops[r]
  BY AddUpCounters
<1>2. /\ d \in Entries /\ d.total.sent = e.total.sent + 1 /\ d.total.drops = e.total.drops
      /\ d.last.sent = e.last.sent + 1 /\ d.last.drops = e.last.drops
  BY RecordFacts
<1>3. /\ l.sent \in Nat /\ t.sent \in Nat /\ e.last.sent \in Nat /\ e.total.sent \in Nat
      /\ \A r \in Reasons : e.total.drops[r] \in Nat
  BY EntryFacts, CounterFacts
<1>4. l.sent + t.sent + d.last.sent = d.total.sent
  BY <1>1, <1>2, <1>3
<1>5. \A r \in Reasons : l.drops[r] + t.drops[r] + d.last.drops[r] = d.total.drops[r]
  BY <1>1, <1>2
<1>6. AtMost(e.total, d.total)
  BY <1>2, <1>3 DEF AtMost
<1> QED  BY <1>2, <1>4, <1>5, <1>6, AddUpCounters

LEMMA RecordDropAddsUp ==
  ASSUME NEW l \in Counters, NEW t \in Counters, NEW e \in Entries, AddUp(l, t, e),
         NEW why \in Reasons, NEW d, d = RecordDrop(e, why)
  PROVE  d \in Entries /\ AddUp(l, t, d) /\ AtMost(e.total, d.total)
<1>1. /\ l.sent + t.sent + e.last.sent = e.total.sent
      /\ \A r \in Reasons : l.drops[r] + t.drops[r] + e.last.drops[r] = e.total.drops[r]
  BY AddUpCounters
<1>2. PICK f \in [Reasons -> Nat], g \in [Reasons -> Nat] : f = e.total.drops /\ g = e.last.drops
  BY EntryFacts, CounterFacts
<1>3. /\ d \in Entries /\ d.total.sent = e.total.sent /\ d.last.sent = e.last.sent
      /\ d.total.drops = [f EXCEPT ![why] = @ + 1] /\ d.last.drops = [g EXCEPT ![why] = @ + 1]
  BY <1>2, RecordDropFacts
<1>4. ASSUME NEW r \in Reasons
      PROVE  /\ l.drops[r] + t.drops[r] + d.last.drops[r] = d.total.drops[r]
             /\ e.total.drops[r] <= d.total.drops[r]
  <2>1. l.drops[r] \in Nat /\ t.drops[r] \in Nat /\ f[r] \in Nat /\ g[r] \in Nat
    BY CounterFacts
  <2>2. l.drops[r] + t.drops[r] + g[r] = f[r]
    BY <1>1, <1>2
  <2>3. CASE r = why
    BY <1>2, <1>3, <2>1, <2>2, <2>3
  <2>4. CASE r # why
    <3>1. d.total.drops[r] = f[r] /\ d.last.drops[r] = g[r]
      BY <1>3, <2>4
    <3> QED  BY <1>2, <2>1, <2>2, <3>1
  <2> QED  BY <2>3, <2>4
<1>5. AtMost(e.total, d.total)
  BY <1>3, <1>4, EntryFacts, CounterFacts DEF AtMost
<1> QED  BY <1>1, <1>3, <1>4, <1>5, AddUpCounters

(* A snapshot moves what is pending to whoever took it.                    *)
LEMMA SnapshotAddsUp ==
  ASSUME NEW l \in Counters, NEW t \in Counters, NEW e \in Entries, AddUp(l, t, e),
         NEW d, d = Snapshot(e)
  PROVE  /\ d \in Entries /\ d.total = e.total
         /\ Plus(l, e.last) \in Counters /\ AddUp(Plus(l, e.last), t, d)
         /\ Plus(t, e.last) \in Counters /\ AddUp(l, Plus(t, e.last), d)
<1>1. /\ l.sent + t.sent + e.last.sent = e.total.sent
      /\ \A r \in Reasons : l.drops[r] + t.drops[r] + e.last.drops[r] = e.total.drops[r]
  BY AddUpCounters
<1>2. d \in Entries /\ d.total = e.total /\ d.last = Zero
  BY SnapshotFacts
<1>3. e.last \in Counters /\ d.last.sent = 0 /\ \A r \in Reasons : d.last.drops[r] = 0
  BY <1>2, EntryFacts, ZeroFacts
<1>4. PICK a \in Counters, b \in Counters : a = Plus(l, e.last) /\ b = Plus(t, e.last)
  BY <1>3, PlusFacts
<1>5. /\ a.sent = l.sent + e.last.sent /\ b.sent = t.sent + e.last.sent
      /\ \A r \in Reasons : a.drops[r] = l.drops[r] + e.last.drops[r] /\ b.drops[r] = t.drops[r] + e.last.drops[r]
  BY <1>3, <1>4, PlusFacts
<1>6. /\ l.sent \in Nat /\ t.sent \in Nat /\ e.last.sent \in Nat
      /\ \A r \in Reasons : l.drops[r] \in Nat /\ t.drops[r] \in Nat /\ e.last.drops[r] \in Nat
  BY <1>3, CounterFacts
<1>7. /\ a.sent + t.sent + d.last.sent = d.total.sent
      /\ l.sent + b.sent + d.last.sent = d.total.sent
  BY <1>1, <1>2, <1>3, <1>5, <1>6
<1>8. ASSUME NEW r \in Reasons
      PROVE  /\ a.drops[r] + t.drops[r] + d.last.drops[r] = d.total.drops[r]
             /\ l.drops[r] + b.drops[r] + d.last.drops[r] = d.total.drops[r]
  BY <1>1, <1>2, <1>3, <1>5, <1>6
<1> QED  BY <1>2, <1>4, <1>7, <1>8, AddUpCounters

SumInv ==
  /\ st \in Entries
  /\ report \in Counters /\ shown \in Counters /\ logged \in Counters /\ taken \in Counters
  /\ AddUp(logged, taken, st)
  /\ AtMost(shown, report) /\ AtMost(report, st.total)

LEMMA SumStep == SumInv /\ [Next]_vars => SumInv'
<1> SUFFICES ASSUME SumInv, [Next]_vars PROVE SumInv'
  OBVIOUS
<1> USE DEF SumInv
<1>1. ASSUME UNCHANGED <<st, readers>> PROVE SumInv'
  BY <1>1 DEF readers, AddUp
<1>2. ASSUME UNCHANGED readers, st' = Record(st) \/ (\E r \in Reasons : st' = RecordDrop(st, r))
      PROVE  SumInv'
  <2>1. st' \in Entries /\ AddUp(logged, taken, st') /\ AtMost(st.total, st'.total)
    BY <1>2, RecordAddsUp, RecordDropAddsUp
  <2>2. AtMost(report, st'.total)
    BY <2>1, EntryFacts, AtMostTransitive
  <2> QED  BY <1>2, <2>1, <2>2 DEF readers
<1>3. CASE \E e \in Exports : Accept(e) \/ HandleBad(e) \/ HandleMetrics(e)
  BY <1>1, <1>2, <1>3 DEF Accept, HandleBad, HandleMetrics, Reasons
<1>4. CASE Sender
  BY <1>1, <1>2, <1>4 DEF Sender, Receive, StopSender, Post, PostAcked, PostFails, Retry, Exhaust,
                          RecordAborted, Reasons
<1>5. CASE LogStats
  <2>1. /\ st' \in Entries /\ st'.total = st.total
        /\ logged' \in Counters /\ AddUp(logged', taken, st')
    BY <1>5, SnapshotAddsUp DEF LogStats
  <2> QED  BY <1>5, <2>1 DEF LogStats
<1>6. CASE SelfSnapshot
  <2>1. /\ st' \in Entries /\ st'.total = st.total
        /\ taken' \in Counters /\ AddUp(logged, taken', st')
    BY <1>6, SnapshotAddsUp DEF SelfSnapshot
  <2>2. report' = st.total /\ UNCHANGED <<shown, logged>>
    BY <1>6 DEF SelfSnapshot
  <2>3. AtMost(shown, report') /\ AtMost(report', st'.total) /\ report' \in Counters
    BY <2>1, <2>2, EntryFacts, AtMostTransitive, AtMostSelf
  <2> QED  BY <2>1, <2>2, <2>3
<1>7. CASE SelfSend
  BY <1>7, AtMostSelf DEF SelfSend, AddUp
<1>8. CASE SelfStop
  BY <1>8 DEF SelfStop, AddUp
<1>9. CASE ShutdownServer \/ ServeFails \/ Cancel \/ Return \/ UNCHANGED vars
  BY <1>1, <1>9 DEF ShutdownServer, ServeFails, Cancel, Return, vars
<1> QED  BY <1>3, <1>4, <1>5, <1>6, <1>7, <1>8, <1>9 DEF Next, Self

(* stats.Snapshot is called by the stats logger and by the self collector  *)
(* and resets what it returns: whatever their order, nothing is counted    *)
(* twice or lost between them, and no self_stats payload overstates.       *)
THEOREM SnapshotsNeverLose == Spec => []SnapshotsAddUp
<1>1. Init => SumInv
  <2> SUFFICES ASSUME Init PROVE SumInv
    OBVIOUS
  <2>1. /\ st \in Entries /\ st.total = Zero /\ st.last = Zero
        /\ report = Zero /\ shown = Zero /\ logged = Zero /\ taken = Zero
    BY ZeroFacts DEF Init, NewEntry, Entries
  <2>2. AddUp(logged, taken, st)
    BY <2>1, ZeroFacts, AddUpCounters
  <2> QED  BY <2>1, <2>2, ZeroFacts, AtMostSelf DEF SumInv
<1>2. SumInv => SnapshotsAddUp
  BY DEF SumInv, SnapshotsAddUp, AddUp
<1> QED  BY <1>1, <1>2, SumStep, PTL DEF Spec
-----------------------------------------------------------------------------
Counts ==
  /\ pc \in {"loop", "backoff", "post", "retry_after", "ok", "exhausted", "ctx_error"}
  /\ i \in 0..MaxSendAttempts
  /\ backoff \in InitialBackoff..MaxWait
  /\ skip \in BOOLEAN
  /\ now \in Nat /\ failedAt \in Nat /\ wait \in Int /\ asked \in Int

(* WaitsBeforeRetry is about the moment of an attempt.  What it needs from *)
(* the steps before: without skipBackoff a backoff is due and is still to  *)
(* come, and with it the wait that was asked for is over.                  *)
WaitInv ==
  /\ Counts
  /\ failedAt <= now
  /\ pc = "backoff" => ~skip /\ i > 0
  /\ pc \in {"loop", "backoff"} /\ i > 0 /\ ~skip => asked = InitialBackoff
  /\ pc = "loop" /\ i > 0 /\ skip => now >= failedAt + asked
  /\ pc = "retry_after" => asked = wait /\ wait <= MaxWait
  /\ pc \in {"post", "backoff"} => i < MaxSendAttempts
  /\ WaitsBeforeRetry

LEMMA ConstantFacts ==
  /\ MaxSendAttempts \in Nat /\ MaxSendAttempts > 0 /\ InitialBackoff \in Nat /\ MaxWait \in Nat
  /\ InitialBackoff <= MaxWait
  /\ \A d \in PostTimes : d \in Nat
  /\ \A ra \in RetryAfters : ra \in Int
BY RetryAssumption

LEMMA CappedFacts ==
  ASSUME NEW s \in Int
  PROVE  /\ Capped(s) \in Int /\ Capped(s) <= MaxWait
         /\ s >= InitialBackoff => Capped(s) >= InitialBackoff
BY ConstantFacts DEF Capped

LEMMA WaitStep == WaitInv /\ [RetryNext]_retryVars => WaitInv'
<1> SUFFICES ASSUME WaitInv, [RetryNext]_retryVars PROVE WaitInv'
  OBVIOUS
<1> USE ConstantFacts DEF WaitInv, Counts, WaitsBeforeRetry
<1>1. CASE LoopHead
  BY <1>1 DEF LoopHead
<1>2. CASE BackoffOver
  <2>1. backoff' \in InitialBackoff..MaxWait
    BY <1>2, CappedFacts DEF BackoffOver
  <2> QED  BY <1>2, <2>1 DEF BackoffOver
<1>3. CASE PostOk
  <2>1. PICK d \in Nat : now' = now + d
    BY <1>3 DEF PostOk
  <2>2. skip' \in BOOLEAN /\ ~skip'
    BY <1>3, Zenon DEF PostOk
  <2> QED  BY <1>3, <2>1, <2>2 DEF PostOk
<1>4. CASE PostError
  <2>1. PICK d \in Nat : now' = now + d
    BY <1>4 DEF PostError
  <2>2. skip' \in BOOLEAN /\ ~skip'
    BY <1>4, Zenon DEF PostError
  <2> QED  BY <1>4, <2>1, <2>2 DEF PostError
<1>5. CASE PostLimited
  <2>1. PICK d \in PostTimes, ra \in RetryAfters :
          /\ now' = now + d /\ failedAt' = now' /\ asked' = Capped(ra) /\ wait' = Capped(ra)
          /\ IF Capped(ra) = 0 THEN pc' = "loop" /\ skip' = TRUE
                               ELSE pc' = "retry_after" /\ skip' = FALSE
    BY <1>5 DEF PostLimited
  <2>2. Capped(ra) \in Int /\ Capped(ra) <= MaxWait /\ d \in Nat
    BY CappedFacts
  <2>3. skip' \in BOOLEAN /\ (pc' = "retry_after" => ~skip') /\ (pc' = "loop" => skip' /\ Capped(ra) = 0)
    BY <2>1, Zenon
  <2> QED  BY <1>5, <2>1, <2>2, <2>3 DEF PostLimited
<1>6. CASE RetryAfterOver
  BY <1>6 DEF RetryAfterOver
<1>7. CASE Interrupted \/ CancelRetry \/ UNCHANGED retryVars
  BY <1>7 DEF Interrupted, CancelRetry, retryVars
<1> QED  BY <1>1, <1>2, <1>3, <1>4, <1>5, <1>6, <1>7 DEF RetryNext, Step

LEMMA WaitInit == RetryInit => WaitInv
<1> SUFFICES ASSUME RetryInit PROVE WaitInv
  OBVIOUS
<1>1. skip \in BOOLEAN /\ ~skip
  BY Zenon DEF RetryInit
<1> QED  BY <1>1, ConstantFacts DEF RetryInit, WaitInv, Counts, WaitsBeforeRetry

(* Sender.retry never starts an attempt too soon after a failed one: the   *)
(* initial backoff later, or the (capped) wait the watchtower asked for.   *)
THEOREM RetriesWait == RetrySpec => []WaitsBeforeRetry
<1>1. WaitInv => WaitsBeforeRetry
  BY DEF WaitInv
<1> QED  BY <1>1, WaitInit, WaitStep, PTL DEF RetrySpec
-----------------------------------------------------------------------------
Slowest == CHOOSE d \in PostTimes : \A e \in PostTimes : e <= d

(* An attempt and the longest wait after it.                               *)
Round == Slowest + MaxWait

(* The wait after the attempts so far is still to come.                    *)
WaitDue == pc \in {"backoff", "retry_after", "ok"} \/ (pc = "loop" /\ i > 0 /\ ~skip)

(* i rounds pay for i attempts and the waits after them.                   *)
BudgetInv == WaitInv /\ now <= i * Round - (IF WaitDue THEN MaxWait ELSE 0)

LEMMA SlowestFacts == Slowest \in Nat /\ Round \in Nat /\ \A d \in PostTimes : d \in Nat /\ d <= Slowest
<1>1. Slowest \in PostTimes /\ \A d \in PostTimes : d <= Slowest
  BY RetryAssumption DEF Slowest
<1> QED  BY <1>1, RetryAssumption DEF Round

LEMMA Rounds ==
  ASSUME NEW n \in Nat, NEW d \in Nat
  PROVE  n * d \in Nat /\ (n + 1) * d = n * d + d /\ 0 * d = 0
OBVIOUS

LEMMA MoreRounds ==
  ASSUME NEW m \in Nat, NEW n \in Nat, m <= n, NEW d \in Nat
  PROVE  m * d <= n * d
OBVIOUS

(* An attempt takes at most Slowest of the next round.                     *)
LEMMA BudgetOfPost ==
  ASSUME BudgetInv, pc = "post", i' = i + 1, NEW d \in PostTimes, now' = now + d
  PROVE  now' <= i' * Round - MaxWait
<1>1. i \in Nat /\ now \in Nat /\ ~WaitDue
  BY DEF BudgetInv, WaitInv, Counts, WaitDue
<1>2. i * Round \in Nat /\ (i + 1) * Round = i * Round + Round
  BY <1>1, SlowestFacts, Rounds
<1>3. d \in Nat /\ d <= Slowest /\ Slowest \in Nat /\ MaxWait \in Nat /\ Round = Slowest + MaxWait
  BY SlowestFacts, RetryAssumption DEF Round
<1>4. PICK b \in Nat : b = i * Round /\ now <= b
  BY <1>1, <1>2 DEF BudgetInv
<1>5. now + d <= (b + Round) - MaxWait
  BY <1>1, <1>3, <1>4
<1> QED  BY <1>2, <1>4, <1>5

LEMMA BudgetStep == BudgetInv /\ [RetryNext]_retryVars => BudgetInv'
<1> SUFFICES ASSUME BudgetInv, [RetryNext]_retryVars PROVE BudgetInv'
  OBVIOUS
<1>1. WaitInv'
  BY WaitStep DEF BudgetInv
<1>2. i \in Nat /\ now \in Nat /\ i * Round \in Nat /\ MaxWait \in Nat
  BY SlowestFacts, Rounds, RetryAssumption DEF BudgetInv, WaitInv, Counts
<1>3. CASE PostOk \/ PostError \/ PostLimited
  <2>1. PICK d \in PostTimes : now' = now + d
    BY <1>3 DEF PostOk, PostError, PostLimited
  <2>2. now' <= i' * Round - MaxWait
    BY <1>3, <2>1, BudgetOfPost DEF PostOk, PostError, PostLimited
  <2>3. now' \in Nat /\ i' \in Nat /\ i' * Round \in Nat
    <3>1. now' \in Nat /\ i' \in Nat
      BY <1>1 DEF WaitInv, Counts
    <3> QED  BY <3>1, SlowestFacts, Rounds
  <2> QED  BY <1>1, <1>2, <2>2, <2>3 DEF BudgetInv
<1>4. CASE BackoffOver
  <2>1. now <= i * Round - MaxWait /\ now' = now + backoff /\ i' = i /\ ~WaitDue'
    BY <1>4 DEF BackoffOver, BudgetInv, WaitDue
  <2>2. backoff <= MaxWait /\ backoff \in Nat
    BY RetryAssumption DEF BudgetInv, WaitInv, Counts
  <2> QED  BY <1>1, <1>2, <2>1, <2>2 DEF BudgetInv
<1>5. CASE RetryAfterOver
  <2>1. /\ now <= i * Round - MaxWait /\ i' = i /\ ~WaitDue'
        /\ now' = IF wait > 0 THEN now + wait ELSE now
    BY <1>5 DEF RetryAfterOver, BudgetInv, WaitDue
  <2>2. wait <= MaxWait /\ wait \in Int
    BY <1>5 DEF RetryAfterOver, BudgetInv, WaitInv, Counts
  <2> QED  BY <1>1, <1>2, <2>1, <2>2 DEF BudgetInv
<1>6. CASE LoopHead \/ Interrupted \/ CancelRetry \/ UNCHANGED retryVars
  <2>1. UNCHANGED <<now, i>> /\ (WaitDue' => WaitDue)
    BY <1>6 DEF LoopHead, Interrupted, CancelRetry, retryVars, WaitDue, BudgetInv, WaitInv
  <2> QED  BY <1>1, <1>2, <2>1 DEF BudgetInv
<1> QED  BY <1>3, <1>4, <1>5, <1>6 DEF RetryNext, Step

(* Whatever the watchtower answers, one payload holds the single flush     *)
(* loop for at most an attempt and a capped wait per attempt.              *)
THEOREM RetryTimeBounded == RetrySpec => []HoldsLoopBounded
<1>1. RetryInit => BudgetInv
  BY WaitInit, SlowestFacts, Rounds DEF RetryInit, BudgetInv, WaitDue
<1>2. BudgetInv => HoldsLoopBounded
  <2> SUFFICES ASSUME BudgetInv PROVE now <= MaxSendAttempts * Round
    BY DEF HoldsLoopBounded, Round, Slowest
  <2>1. now \in Nat /\ i \in Nat /\ i <= MaxSendAttempts /\ MaxWait \in Nat /\ MaxSendAttempts \in Nat
    BY RetryAssumption DEF BudgetInv, WaitInv, Counts
  <2>2. i * Round \in Nat /\ MaxSendAttempts * Round \in Nat /\ i * Round <= MaxSendAttempts * Round
    BY <2>1, SlowestFacts, Rounds, MoreRounds
  <2>3. now <= i * Round
    BY <2>1, <2>2 DEF BudgetInv
  <2> QED  BY <2>1, <2>2, <2>3
<1> QED  BY <1>1, <1>2, BudgetStep, PTL DEF RetrySpec
=============================================================================
