--------------------------- MODULE PipelineProofs ---------------------------
(***************************************************************************)
(* Proofs about the sentinel's payload pipeline, for any collectors, any   *)
(* capacities, any number of attempts and of payloads.                     *)
(***************************************************************************)
EXTENDS Pipeline, SequenceTheorems, TLAPS

Sending == main \in {"send", "posting", "failed"}

(* What the control state of the main loop says about the rest: it holds a *)
(* drained slice exactly while it sends, attempts are left until one has   *)
(* failed, and only a cancellation starts the drain.                       *)
ControlOK ==
  /\ Sending <=> items # <<>>
  /\ main \in {"send", "posting"} => attempt < MaxAttempts
  /\ main = "select" => phase = 0
  /\ main \in {"drain", "returned"} => phase > 0
  /\ Sending => phase <= Len(DrainOrder)
  /\ phase > 0 => cancelled

MainOK == TypeOK /\ ControlOK

LEMMA Constants ==
  /\ OutCap \in Nat \ {0} /\ BufCap \in Nat \ {0} /\ MaxAttempts \in Nat \ {0}
  /\ DrainOrder \in Seq(Kinds) /\ Len(DrainOrder) \in Nat
BY PipelineAssumption

LEMMA SeqFacts ==
  ASSUME NEW s \in Seq(Nat)
  PROVE  /\ Len(s) \in Nat
         /\ Len(s) = 0 <=> s = <<>>
         /\ s # <<>> => Head(s) \in Nat /\ Tail(s) \in Seq(Nat) /\ Len(Tail(s)) = Len(s) - 1
         /\ \A x \in Nat : Append(s, x) \in Seq(Nat) /\ Len(Append(s, x)) = Len(s) + 1
OBVIOUS

(* The flush goes on with the rest of its slice, or returns.               *)
LEMMA NextItemOK ==
  ASSUME MainOK, Sending, NextItem
  PROVE  /\ items' \in Seq(Nat) /\ attempt' = 0
         /\ main' \in {"send", "select", "drain"}
         /\ phase' \in 0..Len(DrainOrder) + 1
         /\ main' = "send" <=> items' # <<>>
         /\ main' = "select" => phase' = 0
         /\ main' = "drain" => phase' > 0
         /\ main' = "send" => phase' <= Len(DrainOrder)
         /\ phase' > 0 => phase > 0
         /\ Len(items) = Len(items') + 1
<1>1. /\ items \in Seq(Nat) /\ items # <<>> /\ phase \in 0..Len(DrainOrder)
      /\ Len(DrainOrder) \in Nat
  BY Constants DEF MainOK, ControlOK, TypeOK
<1>2. /\ Tail(items) \in Seq(Nat) /\ Len(items) \in Nat /\ Len(items) >= 1
      /\ Len(Tail(items)) = Len(items) - 1
  BY <1>1
<1>3. Len(items) = 1 <=> Tail(items) = <<>>
  <2>1. Len(Tail(items)) = 0 <=> Tail(items) = <<>>
    BY <1>2, SeqFacts
  <2> QED  BY <1>2, <2>1, SMTT(30)
<1>4. CASE Len(items) = 1
  BY <1>1, <1>2, <1>3, <1>4 DEF NextItem, FlushReturns
<1>5. CASE Len(items) # 1
  BY <1>1, <1>2, <1>3, <1>5, SMTT(30) DEF NextItem
<1> QED  BY <1>4, <1>5

LEMMA DrainOK ==
  ASSUME TypeOK, NEW k \in Kinds, Drain(k)
  PROVE  /\ cur' \in Kinds /\ items' = buf[k] /\ items' \in Seq(Nat) /\ attempt' = 0
         /\ buf' = [buf EXCEPT ![k] = <<>>] /\ buf' \in [Kinds -> Seq(Nat)]
BY DEF TypeOK, Drain

(* A payload moves from the channel to the buffer; one may fall out of it. *)
LEMMA PushOK ==
  ASSUME TypeOK, NEW k \in Kinds, out[k] # <<>>
  PROVE  /\ Push(buf[k], Head(out[k])) \in Seq(Nat) /\ Tail(out[k]) \in Seq(Nat)
         /\ Len(Tail(out[k])) = Len(out[k]) - 1
         /\ Len(Push(buf[k], Head(out[k]))) = IF Full(buf[k]) THEN Len(buf[k]) ELSE Len(buf[k]) + 1
<1>1. buf[k] \in Seq(Nat) /\ out[k] \in Seq(Nat)
  BY DEF TypeOK
<1>2. /\ Head(out[k]) \in Nat /\ Tail(out[k]) \in Seq(Nat)
      /\ Len(Tail(out[k])) = Len(out[k]) - 1
  BY <1>1
<1>3. CASE Full(buf[k])
  <2>1. buf[k] # <<>>
    BY <1>1, <1>3, Constants DEF Full
  <2>2. Tail(buf[k]) \in Seq(Nat) /\ Len(Tail(buf[k])) = Len(buf[k]) - 1 /\ Len(buf[k]) \in Nat
    BY <1>1, <2>1, SeqFacts
  <2>3. Push(buf[k], Head(out[k])) = Append(Tail(buf[k]), Head(out[k]))
    BY <1>3 DEF Push
  <2>4. /\ Append(Tail(buf[k]), Head(out[k])) \in Seq(Nat)
        /\ Len(Append(Tail(buf[k]), Head(out[k]))) = Len(Tail(buf[k])) + 1
    BY <1>2, <2>2, SeqFacts
  <2>5. Len(Tail(buf[k])) + 1 = Len(buf[k])
    BY <2>2
  <2> QED  BY <1>2, <1>3, <2>3, <2>4, <2>5
<1>4. CASE ~Full(buf[k])
  <2>1. Push(buf[k], Head(out[k])) = Append(buf[k], Head(out[k]))
    BY <1>4 DEF Push
  <2>2. /\ Append(buf[k], Head(out[k])) \in Seq(Nat)
        /\ Len(Append(buf[k], Head(out[k]))) = Len(buf[k]) + 1
    BY <1>1, <1>2, SeqFacts
  <2> QED  BY <1>2, <1>4, <2>1, <2>2
<1> QED  BY <1>3, <1>4

LEMMA TypeStep == MainOK /\ [Next]_vars => TypeOK'
<1> SUFFICES ASSUME MainOK, [Next]_vars PROVE TypeOK'
  OBVIOUS
<1>0. TypeOK /\ ControlOK
  BY DEF MainOK
<1>1. ASSUME NEW k \in Kinds, Collect(k) PROVE TypeOK'
  <2>1. emitted[k] \in Nat /\ out[k] \in Seq(Nat)
    BY <1>0 DEF TypeOK
  <2>2. emitted[k] + 1 \in Nat /\ Append(out[k], emitted[k] + 1) \in Seq(Nat)
    BY <2>1
  <2> QED  BY <1>0, <1>1, <2>1, <2>2 DEF Collect, TypeOK
<1>2. ASSUME NEW k \in Kinds, StopCollector(k) PROVE TypeOK'
  BY <1>0, <1>2 DEF StopCollector, TypeOK
<1>3. ASSUME NEW k \in Kinds, Wire(k) PROVE TypeOK'
  <2>1. Push(buf[k], Head(out[k])) \in Seq(Nat) /\ Tail(out[k]) \in Seq(Nat)
    BY <1>0, <1>3, PushOK DEF Wire
  <2>2. drops' \in [Kinds -> [buffer_full : Nat, retry_exhausted : Nat]]
    <3>1. drops \in [Kinds -> [buffer_full : Nat, retry_exhausted : Nat]]
      BY <1>0 DEF TypeOK
    <3> QED  BY <1>3, <3>1 DEF Wire
  <2> QED  BY <1>0, <1>3, <2>1, <2>2 DEF Wire, TypeOK
<1>4. ASSUME NEW k \in Kinds, StopWire(k) PROVE TypeOK'
  BY <1>0, <1>4 DEF StopWire, TypeOK
<1>5. ASSUME NEW k \in Kinds, FlushTick(k) PROVE TypeOK'
  <2>1. Drain(k)
    BY <1>5 DEF FlushTick
  <2>2. /\ cur' \in Kinds /\ items' \in Seq(Nat) /\ attempt' \in 0..MaxAttempts
        /\ buf' \in [Kinds -> Seq(Nat)]
    BY <1>0, <2>1, DrainOK, Constants
  <2> QED  BY <1>0, <1>5, <2>2 DEF FlushTick, TypeOK
<1>6. CASE BeginDrain
  <2>1. phase' \in 0..Len(DrainOrder) + 1
    BY <1>6, Constants DEF BeginDrain
  <2> QED  BY <1>0, <1>6, <2>1 DEF BeginDrain, goroutines, TypeOK
<1>7. CASE DrainFlush
  <2>1. phase \in Nat /\ phase > 0 /\ phase <= Len(DrainOrder)
    <3>1. phase \in 0..Len(DrainOrder) + 1
      BY <1>0 DEF TypeOK
    <3> QED  BY <1>0, <1>7, <3>1, Constants DEF DrainFlush, ControlOK
  <2>2. DrainOrder[phase] \in Kinds
    BY <2>1, Constants, ElementOfSeq
  <2>3. PICK k \in Kinds : k = DrainOrder[phase] /\ Drain(k)
    BY <1>7, <2>2 DEF DrainFlush
  <2>4. main' \in {"drain", "send"} /\ phase' \in {phase, phase + 1}
    BY <1>7 DEF DrainFlush
  <2>5. phase' \in 0..Len(DrainOrder) + 1
    BY <2>1, <2>4, Constants
  <2>6. /\ cur' \in Kinds /\ items' \in Seq(Nat) /\ attempt' \in 0..MaxAttempts
        /\ buf' \in [Kinds -> Seq(Nat)]
    BY <1>0, <2>3, DrainOK, Constants
  <2> QED  BY <1>0, <1>7, <2>4, <2>5, <2>6 DEF DrainFlush, TypeOK
<1>8. CASE Return
  BY <1>0, <1>8 DEF Return, goroutines, TypeOK
<1>9. CASE Post
  <2>1. attempt \in 0..MaxAttempts /\ attempt < MaxAttempts
    BY <1>0, <1>9 DEF Post, TypeOK, ControlOK
  <2>2. attempt' \in {attempt, attempt + 1}
    BY <1>9 DEF Post
  <2>3. attempt' \in 0..MaxAttempts
    BY <2>1, <2>2, Constants
  <2> QED  BY <1>0, <1>9, <2>3 DEF Post, goroutines, TypeOK
<1>10. CASE PostAcked
  <2>1. Sending /\ NextItem
    BY <1>10 DEF PostAcked, Sending
  <2>2. delivered' \in [Kinds -> Seq(Nat)] /\ sent' \in [Kinds -> Nat]
    <3>1. items \in Seq(Nat) /\ items # <<>> /\ cur \in Kinds
      BY <2>1 DEF MainOK, ControlOK, TypeOK
    <3>2. Head(items) \in Nat
      BY <3>1
    <3>3. /\ delivered \in [Kinds -> Seq(Nat)] /\ delivered[cur] \in Seq(Nat)
          /\ sent \in [Kinds -> Nat] /\ sent[cur] \in Nat
      BY <1>0 DEF TypeOK
    <3>4. Append(delivered[cur], Head(items)) \in Seq(Nat) /\ sent[cur] + 1 \in Nat
      BY <3>2, <3>3
    <3> QED  BY <1>10, <3>1, <3>3, <3>4 DEF PostAcked
  <2>3. /\ items' \in Seq(Nat) /\ attempt' \in 0..MaxAttempts
        /\ main' \in {"send", "select", "drain"} /\ phase' \in 0..Len(DrainOrder) + 1
    BY <2>1, NextItemOK, Constants
  <2> QED  BY <1>0, <1>10, <2>2, <2>3 DEF PostAcked, goroutines, TypeOK
<1>11. CASE PostFails
  <2>1. delivered' \in [Kinds -> Seq(Nat)]
    <3>1. items \in Seq(Nat) /\ items # <<>> /\ cur \in Kinds
      BY <1>11 DEF PostFails, MainOK, ControlOK, TypeOK, Sending
    <3>2. Head(items) \in Nat
      BY <3>1
    <3>3. delivered \in [Kinds -> Seq(Nat)] /\ delivered[cur] \in Seq(Nat)
      BY <1>0 DEF TypeOK
    <3>4. Append(delivered[cur], Head(items)) \in Seq(Nat)
      BY <3>2, <3>3
    <3> QED  BY <1>11, <3>1, <3>3, <3>4 DEF PostFails
  <2>2. attempt' \in 0..MaxAttempts /\ main' = "failed"
    <3>1. attempt \in 0..MaxAttempts /\ attempt < MaxAttempts
      BY <1>0, <1>11 DEF PostFails, TypeOK, ControlOK
    <3> QED  BY <1>11, <3>1, Constants DEF PostFails
  <2> QED  BY <1>0, <1>11, <2>1, <2>2 DEF PostFails, goroutines, TypeOK
<1>12. CASE Retry
  BY <1>0, <1>12 DEF Retry, goroutines, TypeOK
<1>13. CASE Exhaust
  <2>1. Sending /\ NextItem
    BY <1>13 DEF Exhaust, Sending
  <2>2. drops' \in [Kinds -> [buffer_full : Nat, retry_exhausted : Nat]]
    <3>1. cur \in Kinds /\ drops \in [Kinds -> [buffer_full : Nat, retry_exhausted : Nat]]
      BY <1>0 DEF TypeOK
    <3> QED  BY <1>13, <3>1 DEF Exhaust
  <2>3. /\ items' \in Seq(Nat) /\ attempt' \in 0..MaxAttempts
        /\ main' \in {"send", "select", "drain"} /\ phase' \in 0..Len(DrainOrder) + 1
    BY <2>1, NextItemOK, Constants
  <2> QED  BY <1>0, <1>13, <2>2, <2>3 DEF Exhaust, goroutines, TypeOK
<1>14. CASE Abandon
  <2>1. lost' \in [Kinds -> Nat]
    <3>1. cur \in Kinds /\ lost \in [Kinds -> Nat] /\ lost[cur] \in Nat /\ items \in Seq(Nat)
      BY <1>0 DEF TypeOK
    <3>2. lost[cur] + Len(items) \in Nat
      BY <3>1
    <3> QED  BY <1>14, <3>1, <3>2 DEF Abandon
  <2>2. main' \in {"select", "drain"} /\ phase' \in 0..Len(DrainOrder) + 1
    <3>1. phase \in 0..Len(DrainOrder) + 1 /\ phase <= Len(DrainOrder)
      BY <1>0, <1>14 DEF Abandon, ControlOK, TypeOK, Sending
    <3> QED  BY <1>14, <3>1, Constants DEF Abandon, FlushReturns
  <2>3. items' \in Seq(Nat) /\ attempt' \in 0..MaxAttempts
    BY <1>14, Constants DEF Abandon
  <2> QED  BY <1>0, <1>14, <2>1, <2>2, <2>3 DEF Abandon, goroutines, TypeOK
<1>15. CASE Cancel \/ DrainTimeout
  BY <1>0, <1>15 DEF Cancel, DrainTimeout, goroutines, TypeOK
<1>16. CASE UNCHANGED vars
  BY <1>0, <1>16 DEF vars, TypeOK
<1> QED
  BY <1>1, <1>2, <1>3, <1>4, <1>5, <1>6, <1>7, <1>8, <1>9, <1>10, <1>11, <1>12, <1>13, <1>14,
     <1>15, <1>16 DEF Next, MainLoop

LEMMA ControlStep == MainOK /\ [Next]_vars => ControlOK'
<1> SUFFICES ASSUME MainOK, [Next]_vars PROVE ControlOK'
  OBVIOUS
<1> USE Constants
<1>0. /\ TypeOK /\ ControlOK /\ phase \in Nat /\ cancelled \in BOOLEAN /\ attempt \in Nat
  BY SMTT(30) DEF MainOK, TypeOK
<1>1. ASSUME main' = main, phase' = phase, items' = items, attempt' = attempt,
             cancelled' = cancelled \/ cancelled' = TRUE
      PROVE  ControlOK'
  BY <1>0, <1>1 DEF ControlOK, Sending
<1>2. ASSUME NEW k \in Kinds, Collect(k) \/ StopCollector(k) \/ Wire(k) \/ StopWire(k)
      PROVE  ControlOK'
  BY <1>1, <1>2 DEF Collect, StopCollector, Wire, StopWire
<1>3. ASSUME NEW k \in Kinds, FlushTick(k) PROVE ControlOK'
  BY <1>0, <1>3 DEF FlushTick, Drain, ControlOK, Sending
<1>4. CASE BeginDrain
  BY <1>0, <1>4 DEF BeginDrain, ControlOK, Sending
<1>5. CASE DrainFlush
  BY <1>0, <1>5 DEF DrainFlush, Drain, ControlOK, Sending
<1>6. CASE Return
  BY <1>0, <1>6 DEF Return, ControlOK, Sending
<1>7. CASE Post
  BY <1>0, <1>7 DEF Post, ControlOK, Sending
<1>8. CASE PostAcked \/ Exhaust
  <2>1. Sending /\ NextItem /\ cancelled' = cancelled
    BY <1>8 DEF PostAcked, Exhaust, Sending
  <2> QED  BY <1>0, <2>1, NextItemOK DEF MainOK, ControlOK, Sending
<1>9. CASE PostFails
  BY <1>0, <1>9 DEF PostFails, ControlOK, Sending
<1>10. CASE Retry
  BY <1>0, <1>10 DEF Retry, ControlOK, Sending
<1>11. CASE Abandon
  BY <1>0, <1>11 DEF Abandon, FlushReturns, ControlOK, Sending
<1>12. CASE Cancel \/ DrainTimeout
  BY <1>1, <1>12 DEF Cancel, DrainTimeout
<1>13. CASE UNCHANGED vars
  BY <1>1, <1>13 DEF vars
<1> QED
  BY <1>2, <1>3, <1>4, <1>5, <1>6, <1>7, <1>8, <1>9, <1>10, <1>11, <1>12, <1>13 DEF Next, MainLoop

LEMMA MainCorrect == Spec => []MainOK
<1>1. Init => MainOK
  <2> SUFFICES ASSUME Init PROVE MainOK
    OBVIOUS
  <2>1. cur \in Kinds
    BY PipelineAssumption DEF Init
  <2>2. drops \in [Kinds -> [buffer_full : Nat, retry_exhausted : Nat]]
    BY DEF Init
  <2>3. TypeOK
    <3>1. phase \in 0..Len(DrainOrder) + 1 /\ attempt \in 0..MaxAttempts
      BY Constants DEF Init
    <3>2. items \in Seq(Nat) /\ delivered \in [Kinds -> Seq(Nat)]
      BY DEF Init
    <3>3. out \in [Kinds -> Seq(Nat)] /\ buf \in [Kinds -> Seq(Nat)]
      BY DEF Init
    <3> QED  BY <2>1, <2>2, <3>1, <3>2, <3>3 DEF Init, TypeOK
  <2>4. ControlOK
    BY DEF Init, ControlOK, Sending
  <2> QED  BY <2>3, <2>4 DEF MainOK
<1>2. MainOK /\ [Next]_vars => MainOK'
  BY TypeStep, ControlStep DEF MainOK
<1> QED  BY <1>1, <1>2, PTL DEF Spec

(* The pipeline's state is well formed: no flush makes more than           *)
(* maxSendAttempts attempts, and the drain never runs past its last buffer.*)
THEOREM PipelineTypeCorrect == Spec => []TypeOK
<1>1. MainOK => TypeOK
  BY DEF MainOK
<1> QED  BY <1>1, MainCorrect, PTL
-----------------------------------------------------------------------------
(* The payloads of a collector by where they are, each place a number.     *)
Waiting(k) == Len(Flushing(k)) + Len(buf[k]) + Len(out[k])
Settled(k) == sent[k] + drops[k].buffer_full + drops[k].retry_exhausted + lost[k]

AccountOK(k) == emitted[k] = Waiting(k) + Settled(k)
AccountInv == \A k \in Kinds : AccountOK(k) /\ (lost[k] > 0 => cancelled)

LEMMA CountTypes ==
  ASSUME TypeOK, NEW k \in Kinds
  PROVE  /\ Flushing(k) \in Seq(Nat) /\ buf[k] \in Seq(Nat) /\ out[k] \in Seq(Nat)
         /\ Len(Flushing(k)) \in Nat /\ Len(buf[k]) \in Nat /\ Len(out[k]) \in Nat
         /\ emitted[k] \in Nat /\ sent[k] \in Nat /\ lost[k] \in Nat
         /\ drops[k].buffer_full \in Nat /\ drops[k].retry_exhausted \in Nat
<1>1. /\ items \in Seq(Nat) /\ buf[k] \in Seq(Nat) /\ out[k] \in Seq(Nat)
      /\ emitted[k] \in Nat /\ sent[k] \in Nat /\ lost[k] \in Nat
      /\ drops[k] \in [buffer_full : Nat, retry_exhausted : Nat]
  BY DEF TypeOK
<1>2. Flushing(k) \in Seq(Nat)
  BY <1>1 DEF Flushing
<1> QED  BY <1>1, <1>2, SeqFacts

LEMMA QueueLength ==
  ASSUME TypeOK, NEW k \in Kinds
  PROVE  Len(Queue(k)) = Waiting(k)
<1>1. Flushing(k) \in Seq(Nat) /\ buf[k] \in Seq(Nat) /\ out[k] \in Seq(Nat)
  BY CountTypes
<1>2. /\ Flushing(k) \o buf[k] \in Seq(Nat)
      /\ Len(Flushing(k) \o buf[k]) = Len(Flushing(k)) + Len(buf[k])
  BY <1>1, ConcatProperties
<1>3. Len((Flushing(k) \o buf[k]) \o out[k]) = Len(Flushing(k) \o buf[k]) + Len(out[k])
  BY <1>1, <1>2, ConcatProperties
<1> QED  BY <1>2, <1>3 DEF Queue, Waiting

(* A step that moves no payload of k, and settles none, keeps its account. *)
LEMMA AccountKept ==
  ASSUME NEW k \in Kinds, AccountOK(k), emitted'[k] = emitted[k],
         Waiting(k)' = Waiting(k), sent'[k] = sent[k], drops'[k] = drops[k], lost'[k] = lost[k]
  PROVE  AccountOK(k)'
BY DEF AccountOK, Settled

LEMMA AccountStep == MainOK /\ TypeOK' /\ AccountInv /\ [Next]_vars => AccountInv'
<1> SUFFICES ASSUME MainOK, TypeOK', AccountInv, [Next]_vars, NEW k \in Kinds
             PROVE  AccountOK(k)' /\ (lost'[k] > 0 => cancelled')
  BY DEF AccountInv
<1>0. TypeOK /\ ControlOK /\ AccountOK(k) /\ (lost[k] > 0 => cancelled)
  BY DEF MainOK, AccountInv
<1>t. /\ Len(Flushing(k)) \in Nat /\ Len(buf[k]) \in Nat /\ Len(out[k]) \in Nat
      /\ emitted[k] \in Nat /\ sent[k] \in Nat /\ lost[k] \in Nat
      /\ drops[k].buffer_full \in Nat /\ drops[k].retry_exhausted \in Nat
  BY <1>0, CountTypes
<1>f. /\ emitted \in [Kinds -> Nat] /\ out \in [Kinds -> Seq(Nat)] /\ buf \in [Kinds -> Seq(Nat)]
      /\ sent \in [Kinds -> Nat] /\ lost \in [Kinds -> Nat] /\ cur \in Kinds
      /\ drops \in [Kinds -> [buffer_full : Nat, retry_exhausted : Nat]]
      /\ out[k] \in Seq(Nat) /\ buf[k] \in Seq(Nat) /\ items \in Seq(Nat)
      /\ cancelled \in BOOLEAN
  BY <1>0 DEF TypeOK
<1> DEFINE e == emitted[k]
           f == Len(Flushing(k))
           b == Len(buf[k])
           o == Len(out[k])
           s == sent[k]
           x == drops[k].buffer_full
           y == drops[k].retry_exhausted
           l == lost[k]
<1>n. /\ e \in Nat /\ f \in Nat /\ b \in Nat /\ o \in Nat
      /\ s \in Nat /\ x \in Nat /\ y \in Nat /\ l \in Nat
  BY <1>t
<1>b. e = f + b + o + (s + x + y + l)
  BY <1>0 DEF AccountOK, Waiting, Settled
<1>c. ASSUME NEW e1, NEW f1, NEW b1, NEW o1, NEW s1, NEW x1, NEW y1, NEW l1,
             e1 = f1 + b1 + o1 + (s1 + x1 + y1 + l1),
             emitted'[k] = e1, Len(Flushing(k)') = f1, Len(buf'[k]) = b1, Len(out'[k]) = o1,
             sent'[k] = s1, drops'[k].buffer_full = x1, drops'[k].retry_exhausted = y1,
             lost'[k] = l1
      PROVE  AccountOK(k)'
  BY <1>c DEF AccountOK, Waiting, Settled
<1>s. ASSUME lost' = lost, cancelled' = cancelled \/ cancelled' = TRUE
      PROVE  lost'[k] > 0 => cancelled'
  BY <1>0, <1>s
<1>k. ASSUME emitted' = emitted, out' = out, buf' = buf, items' = items, cur' = cur,
             sent' = sent, drops' = drops, lost' = lost,
             cancelled' = cancelled \/ cancelled' = TRUE
      PROVE  AccountOK(k)' /\ (lost'[k] > 0 => cancelled')
  <2>1. Waiting(k)' = Waiting(k)
    BY <1>k DEF Waiting, Flushing
  <2> QED  BY <1>0, <1>k, <1>s, <2>1, AccountKept
<1>1. ASSUME NEW j \in Kinds, Collect(j) PROVE AccountOK(k)' /\ (lost'[k] > 0 => cancelled')
  <2>1. /\ emitted' = [emitted EXCEPT ![j] = @ + 1]
        /\ out' = [out EXCEPT ![j] = Append(out[j], emitted[j] + 1)]
        /\ buf' = buf /\ items' = items /\ cur' = cur /\ sent' = sent /\ drops' = drops
        /\ lost' = lost /\ cancelled' = cancelled
    BY <1>1 DEF Collect
  <2>2. Len(Flushing(k))' = Len(Flushing(k)) /\ Settled(k)' = Settled(k)
    BY <2>1 DEF Flushing, Settled
  <2>3. CASE j = k
    <3>1. Len(out'[k]) = Len(out[k]) + 1 /\ emitted'[k] = emitted[k] + 1
      BY <1>f, <1>t, <2>1, <2>3, SeqFacts
    <3>2. e + 1 = f + b + (o + 1) + (s + x + y + l)
      <4> HIDE DEF e, f, b, o, s, x, y, l
      <4> QED  BY <1>n, <1>b
    <3>3. AccountOK(k)'
      <4>1. Len(Flushing(k)') = f /\ Len(out'[k]) = o + 1 /\ emitted'[k] = e + 1
        BY <2>2, <3>1
      <4> QED  BY <1>c, <2>1, <3>2, <4>1
    <3> QED  BY <1>s, <2>1, <3>3
  <2>4. CASE j # k
    <3>1. out'[k] = out[k] /\ emitted'[k] = emitted[k]
      BY <1>f, <2>1, <2>4
    <3>2. Waiting(k)' = Waiting(k)
      BY <2>1, <2>2, <3>1 DEF Waiting
    <3> QED  BY <1>0, <1>s, <2>1, <3>1, <3>2, AccountKept
  <2> QED  BY <2>3, <2>4
<1>2. ASSUME NEW j \in Kinds, StopCollector(j) \/ StopWire(j)
      PROVE  AccountOK(k)' /\ (lost'[k] > 0 => cancelled')
  BY <1>2, <1>k DEF StopCollector, StopWire
<1>3. ASSUME NEW j \in Kinds, Wire(j) PROVE AccountOK(k)' /\ (lost'[k] > 0 => cancelled')
  <2>1. /\ out[j] # <<>> /\ out' = [out EXCEPT ![j] = Tail(out[j])]
        /\ buf' = [buf EXCEPT ![j] = Push(buf[j], Head(out[j]))]
        /\ drops' = [drops EXCEPT ![j].buffer_full = IF Full(buf[j]) THEN @ + 1 ELSE @]
        /\ emitted' = emitted /\ items' = items /\ cur' = cur /\ sent' = sent
        /\ lost' = lost /\ cancelled' = cancelled
    BY <1>3 DEF Wire
  <2>2. Len(Flushing(k))' = Len(Flushing(k))
    BY <2>1 DEF Flushing
  <2>3. CASE j = k
    <3>1. /\ Len(out'[k]) = Len(out[k]) - 1
          /\ Len(buf'[k]) = IF Full(buf[k]) THEN Len(buf[k]) ELSE Len(buf[k]) + 1
      <4>1. out'[k] = Tail(out[k]) /\ buf'[k] = Push(buf[k], Head(out[k]))
        BY <1>f, <2>1, <2>3
      <4> QED  BY <1>0, <2>1, <2>3, <4>1, PushOK
    <3>2. /\ drops'[k].buffer_full =
               IF Full(buf[k]) THEN drops[k].buffer_full + 1 ELSE drops[k].buffer_full
          /\ drops'[k].retry_exhausted = drops[k].retry_exhausted
      BY <1>f, <2>1, <2>3
    <3>3. AccountOK(k)'
      <4>0. /\ e = f + b + (o - 1) + (s + (x + 1) + y + l)
            /\ e = f + (b + 1) + (o - 1) + (s + x + y + l)
        <5> HIDE DEF e, f, b, o, s, x, y, l
        <5> QED  BY <1>n, <1>b
      <4>f. /\ emitted'[k] = e /\ Len(Flushing(k)') = f /\ Len(out'[k]) = o - 1
            /\ sent'[k] = s /\ drops'[k].retry_exhausted = y /\ lost'[k] = l
        BY <2>1, <2>2, <3>1, <3>2
      <4>1. CASE Full(buf[k])
        <5>1. Len(buf'[k]) = b /\ drops'[k].buffer_full = x + 1
          BY <3>1, <3>2, <4>1
        <5> HIDE DEF e, f, b, o, s, x, y, l
        <5> QED  BY <1>c, <4>0, <4>f, <5>1
      <4>2. CASE ~Full(buf[k])
        <5>1. Len(buf'[k]) = b + 1 /\ drops'[k].buffer_full = x
          BY <3>1, <3>2, <4>2
        <5> HIDE DEF e, f, b, o, s, x, y, l
        <5> QED  BY <1>c, <4>0, <4>f, <5>1
      <4> QED  BY <4>1, <4>2
    <3> QED  BY <1>s, <2>1, <3>3
  <2>4. CASE j # k
    <3>1. out'[k] = out[k] /\ buf'[k] = buf[k] /\ drops'[k] = drops[k]
      BY <1>f, <2>1, <2>4
    <3>2. Waiting(k)' = Waiting(k)
      BY <2>2, <3>1 DEF Waiting
    <3> QED  BY <1>0, <1>s, <2>1, <3>1, <3>2, AccountKept
  <2> QED  BY <2>3, <2>4
<1>4. ASSUME NEW j \in Kinds, Drain(j), main \in {"select", "drain"},
             emitted' = emitted, out' = out, sent' = sent, drops' = drops, lost' = lost,
             cancelled' = cancelled
      PROVE  AccountOK(k)' /\ (lost'[k] > 0 => cancelled')
  <2>1. items = <<>>
    BY <1>0, <1>4 DEF ControlOK, Sending
  <2>2. /\ cur' = j /\ items' = buf[j] /\ buf' = [buf EXCEPT ![j] = <<>>]
    BY <1>4 DEF Drain
  <2>3. Len(Flushing(k)) = 0
    BY <2>1 DEF Flushing
  <2>4. Len(Flushing(k)') + Len(buf'[k]) = Len(Flushing(k)) + Len(buf[k])
    <3>1. CASE j = k
      <4>1. Flushing(k)' = buf[k] /\ buf'[k] = <<>>
        BY <1>f, <2>2, <3>1 DEF Flushing
      <4>2. Len(buf'[k]) = 0
        BY <4>1
      <4> QED  BY <1>t, <2>3, <4>1, <4>2
    <3>2. CASE j # k
      <4>1. Flushing(k)' = <<>> /\ buf'[k] = buf[k]
        BY <1>f, <2>2, <3>2 DEF Flushing
      <4>2. Len(Flushing(k)') = 0
        BY <4>1
      <4> QED  BY <1>t, <2>3, <4>1, <4>2
    <3> QED  BY <3>1, <3>2
  <2>5. Waiting(k)' = Waiting(k)
    BY <1>4, <2>4 DEF Waiting
  <2> QED  BY <1>0, <1>4, <1>s, <2>5, AccountKept
<1>5. ASSUME NEW j \in Kinds, FlushTick(j) PROVE AccountOK(k)' /\ (lost'[k] > 0 => cancelled')
  BY <1>4, <1>5 DEF FlushTick
<1>6. CASE DrainFlush
  <2>1. phase \in Nat /\ phase > 0 /\ phase <= Len(DrainOrder)
    <3>1. phase \in 0..Len(DrainOrder) + 1
      BY <1>0 DEF TypeOK
    <3> QED  BY <1>0, <1>6, <3>1, Constants DEF DrainFlush, ControlOK
  <2>2. DrainOrder[phase] \in Kinds
    BY <2>1, Constants, ElementOfSeq
  <2>3. Drain(DrainOrder[phase])
    BY <1>6 DEF DrainFlush
  <2>4. /\ main \in {"select", "drain"} /\ emitted' = emitted /\ out' = out /\ sent' = sent
        /\ drops' = drops /\ lost' = lost /\ cancelled' = cancelled
    BY <1>6 DEF DrainFlush
  <2> QED  BY <1>4, <2>2, <2>3, <2>4
<1>7. CASE PostAcked \/ Exhaust
  <2>1. /\ Sending /\ NextItem /\ cur' = cur /\ lost' = lost /\ cancelled' = cancelled
        /\ emitted' = emitted /\ out' = out /\ buf' = buf
    BY <1>7 DEF PostAcked, Exhaust, Sending, goroutines
  <2>2. Len(items) = Len(items') + 1 /\ Len(items') \in Nat
    BY <2>1, NextItemOK, SeqFacts
  <2>3. \/ sent' = [sent EXCEPT ![cur] = @ + 1] /\ drops' = drops
        \/ sent' = sent /\ drops' = [drops EXCEPT ![cur].retry_exhausted = @ + 1]
    BY <1>7 DEF PostAcked, Exhaust
  <2>4. CASE cur = k
    <3>1. Len(Flushing(k)) = Len(items) /\ Len(Flushing(k)') = Len(items')
      BY <2>1, <2>4 DEF Flushing
    <3>2. /\ drops'[k].buffer_full = drops[k].buffer_full
          /\ sent'[k] + drops'[k].retry_exhausted = sent[k] + drops[k].retry_exhausted + 1
          /\ sent'[k] \in Nat /\ drops'[k].retry_exhausted \in Nat
      <4>1. CASE sent' = [sent EXCEPT ![cur] = @ + 1] /\ drops' = drops
        <5>1. sent'[k] = sent[k] + 1
          BY <1>f, <2>4, <4>1
        <5> QED  BY <1>t, <4>1, <5>1, SMTT(30)
      <4>2. CASE sent' = sent /\ drops' = [drops EXCEPT ![cur].retry_exhausted = @ + 1]
        <5>1. /\ drops'[k].retry_exhausted = drops[k].retry_exhausted + 1
              /\ drops'[k].buffer_full = drops[k].buffer_full
          BY <1>f, <2>4, <4>2
        <5> QED  BY <1>t, <4>2, <5>1, SMTT(30)
      <4> QED  BY <2>3, <4>1, <4>2
    <3>3. AccountOK(k)'
      <4>1. PICK f1 \in Nat, s1 \in Nat, y1 \in Nat :
              /\ f1 = Len(items') /\ s1 = sent'[k] /\ y1 = drops'[k].retry_exhausted
              /\ f = f1 + 1 /\ s1 + y1 = s + y + 1
        BY <2>2, <3>1, <3>2
      <4>2. e = f1 + b + o + (s1 + x + y1 + l)
        <5>1. f = f1 + 1 /\ s1 + y1 = s + y + 1
          BY <4>1
        <5> HIDE DEF e, f, b, o, s, x, y, l
        <5> QED  BY <1>n, <1>b, <5>1
      <4> QED  BY <1>c, <2>1, <3>1, <3>2, <4>1, <4>2, ZenonT(40)
    <3> QED  BY <1>s, <2>1, <3>3
  <2>5. CASE cur # k
    <3>1. sent'[k] = sent[k] /\ drops'[k] = drops[k]
      BY <1>f, <2>3, <2>5
    <3>2. Waiting(k)' = Waiting(k)
      BY <2>1, <2>5 DEF Waiting, Flushing
    <3> QED  BY <1>0, <1>s, <2>1, <3>1, <3>2, AccountKept
  <2> QED  BY <2>4, <2>5
<1>8. CASE Abandon
  <2>1. /\ items' = <<>> /\ cur' = cur /\ cancelled' = cancelled /\ sent' = sent /\ drops' = drops
        /\ emitted' = emitted /\ out' = out /\ buf' = buf
        /\ lost' = [lost EXCEPT ![cur] = @ + Len(items)]
    BY <1>8 DEF Abandon, goroutines
  <2>2. cancelled
    BY <1>0, <1>8 DEF Abandon, CtxDone, ControlOK, TypeOK
  <2>3. CASE cur = k
    <3>1. Len(Flushing(k)) = Len(items) /\ Flushing(k)' = <<>>
      BY <2>1, <2>3 DEF Flushing
    <3>2. Len(Flushing(k)') = 0
      BY <3>1
    <3>3. lost'[k] = lost[k] + Len(items)
      BY <1>f, <2>1, <2>3
    <3>4. AccountOK(k)'
      <4>1. e = 0 + b + o + (s + x + y + (l + f))
        <5> HIDE DEF e, f, b, o, s, x, y, l
        <5> QED  BY <1>n, <1>b
      <4>2. lost'[k] = l + f
        BY <3>1, <3>3
      <4> QED  BY <1>c, <2>1, <3>2, <4>1, <4>2
    <3> QED  BY <2>1, <2>2, <3>4
  <2>4. CASE cur # k
    <3>1. lost'[k] = lost[k]
      BY <1>f, <2>1, <2>4
    <3>2. Waiting(k)' = Waiting(k)
      BY <2>1, <2>4 DEF Waiting, Flushing
    <3> QED  BY <1>0, <2>1, <2>2, <3>1, <3>2, AccountKept
  <2> QED  BY <2>3, <2>4
<1>9. CASE BeginDrain \/ Return \/ Post \/ PostFails \/ Retry
  BY <1>9, <1>k DEF BeginDrain, Return, Post, PostFails, Retry, goroutines
<1>10. CASE Cancel \/ DrainTimeout
  BY <1>10, <1>k DEF Cancel, DrainTimeout, goroutines
<1>11. CASE UNCHANGED vars
  BY <1>11, <1>k DEF vars
<1> QED  BY <1>1, <1>2, <1>3, <1>5, <1>6, <1>7, <1>8, <1>9, <1>10, <1>11 DEF Next, MainLoop

(* Every payload a collector emitted is waiting somewhere, recorded as     *)
(* sent or dropped, or was abandoned by a flush after a cancellation; the  *)
(* statistics miss nothing while the sentinel runs.                        *)
THEOREM PayloadsAccounted == Spec => []Accounted
<1>1. Init => AccountInv
  <2> SUFFICES ASSUME Init, NEW k \in Kinds PROVE AccountOK(k) /\ (lost[k] > 0 => cancelled)
    BY DEF AccountInv
  <2>1. Flushing(k) = <<>> /\ buf[k] = <<>> /\ out[k] = <<>>
    BY DEF Init, Flushing
  <2>2. /\ emitted[k] = 0 /\ sent[k] = 0 /\ lost[k] = 0
        /\ drops[k].buffer_full = 0 /\ drops[k].retry_exhausted = 0
    BY DEF Init
  <2> QED  BY <2>1, <2>2 DEF AccountOK, Waiting, Settled
<1>2. MainOK /\ AccountInv => Accounted
  <2> SUFFICES ASSUME MainOK, AccountInv, NEW k \in Kinds
               PROVE  /\ emitted[k] = Len(Queue(k)) + sent[k] + drops[k].buffer_full
                                        + drops[k].retry_exhausted + lost[k]
                      /\ lost[k] > 0 => cancelled
    BY DEF Accounted
  <2>1. TypeOK /\ AccountOK(k) /\ (lost[k] > 0 => cancelled)
    BY DEF MainOK, AccountInv
  <2>2. Len(Queue(k)) = Waiting(k)
    BY <2>1, QueueLength
  <2>3. /\ Len(Flushing(k)) \in Nat /\ Len(buf[k]) \in Nat /\ Len(out[k]) \in Nat
        /\ sent[k] \in Nat /\ lost[k] \in Nat
        /\ drops[k].buffer_full \in Nat /\ drops[k].retry_exhausted \in Nat
    BY <2>1, CountTypes
  <2> DEFINE w == Waiting(k)
             s == sent[k]
             x == drops[k].buffer_full
             y == drops[k].retry_exhausted
             l == lost[k]
  <2>4. w \in Nat
    <3> DEFINE f == Len(Flushing(k))
               b == Len(buf[k])
               o == Len(out[k])
    <3>1. w = f + b + o /\ f \in Nat /\ b \in Nat /\ o \in Nat
      BY <2>3 DEF Waiting
    <3> HIDE DEF w, f, b, o
    <3> QED  BY <3>1
  <2>5. w + (s + x + y + l) = w + s + x + y + l
    <3>1. s \in Nat /\ x \in Nat /\ y \in Nat /\ l \in Nat
      BY <2>3
    <3> HIDE DEF w, s, x, y, l
    <3> QED  BY <2>4, <3>1
  <2> QED  BY <2>1, <2>2, <2>5 DEF AccountOK, Settled
<1>3. MainOK => TypeOK
  BY DEF MainOK
<1> QED  BY <1>1, <1>2, <1>3, AccountStep, MainCorrect, PTL DEF Spec
-----------------------------------------------------------------------------
(* What the steps do to the concatenation of a slice, a buffer and a       *)
(* channel, for any three sequences.                                       *)
LEMMA ThreeParts ==
  ASSUME NEW f \in Seq(Nat), NEW b \in Seq(Nat), NEW o \in Seq(Nat)
  PROVE  /\ (f \o b) \o o \in Seq(Nat)
         /\ Len((f \o b) \o o) = Len(f) + Len(b) + Len(o)
         /\ \A i \in 1..(Len(f) + Len(b) + Len(o)) : ((f \o b) \o o)[i] =
              IF i <= Len(f) THEN f[i]
              ELSE IF i <= Len(f) + Len(b) THEN b[i - Len(f)] ELSE o[i - Len(f) - Len(b)]
<1>1. /\ f \o b \in Seq(Nat) /\ Len(f \o b) = Len(f) + Len(b)
      /\ \A i \in 1..(Len(f) + Len(b)) : (f \o b)[i] = IF i <= Len(f) THEN f[i] ELSE b[i - Len(f)]
  BY ConcatProperties
<1>2. /\ (f \o b) \o o \in Seq(Nat) /\ Len((f \o b) \o o) = Len(f \o b) + Len(o)
      /\ \A i \in 1..(Len(f \o b) + Len(o)) :
           ((f \o b) \o o)[i] = IF i <= Len(f \o b) THEN (f \o b)[i] ELSE o[i - Len(f \o b)]
  BY <1>1, ConcatProperties
<1>3. Len(f) \in Nat /\ Len(b) \in Nat /\ Len(o) \in Nat
  OBVIOUS
<1> QED  BY <1>1, <1>2, <1>3

LEMMA EmitToBack ==
  ASSUME NEW f \in Seq(Nat), NEW b \in Seq(Nat), NEW o \in Seq(Nat), NEW x \in Nat
  PROVE  (f \o b) \o Append(o, x) = Append((f \o b) \o o, x)
<1>1. f \o b \in Seq(Nat) /\ (f \o b) \o o \in Seq(Nat) /\ <<x>> \in Seq(Nat)
  BY ThreeParts, ConcatProperties
<1>2. Append(o, x) = o \o <<x>> /\ Append((f \o b) \o o, x) = ((f \o b) \o o) \o <<x>>
  BY <1>1, AppendIsConcat
<1> QED  BY <1>1, <1>2, ConcatAssociative

LEMMA Associate ==
  ASSUME NEW s \in Seq(Nat), NEW t \in Seq(Nat), NEW u \in Seq(Nat)
  PROVE  (s \o t) \o u = s \o (t \o u)
BY ConcatAssociative, SMTT(30)

LEMMA HeadFirst ==
  ASSUME NEW s \in Seq(Nat), s # <<>>
  PROVE  /\ Head(s) \in Nat /\ <<Head(s)>> \in Seq(Nat) /\ Tail(s) \in Seq(Nat)
         /\ s = <<Head(s)>> \o Tail(s)
<1>1. Len(s) >= 1 /\ Len(s) \in Nat /\ Head(s) = s[1] /\ Tail(s) = SubSeq(s, 2, Len(s))
  BY TailIsSubSeq
<1>2. SubSeq(s, 1, Len(s)) = <<s[1]>> \o SubSeq(s, 1 + 1, Len(s)) /\ SubSeq(s, 1, Len(s)) = s
  BY <1>1, SubSeqRecursiveFirst, SubSeqFull
<1> QED  BY <1>1, <1>2, HeadTailProperties

LEMMA MoveToBuffer ==
  ASSUME NEW f \in Seq(Nat), NEW b \in Seq(Nat), NEW o \in Seq(Nat), o # <<>>
  PROVE  (f \o Append(b, Head(o))) \o Tail(o) = (f \o b) \o o
<1> DEFINE h == <<Head(o)>>
           r == Tail(o)
<1>1. Head(o) \in Nat /\ h \in Seq(Nat) /\ r \in Seq(Nat) /\ o = h \o r
  BY HeadFirst
<1>2. Append(b, Head(o)) = b \o h
  BY <1>1, AppendIsConcat
<1>3. f \o b \in Seq(Nat)
  BY ConcatProperties
<1> HIDE DEF h, r
<1>4. f \o (b \o h) = (f \o b) \o h
  BY <1>1, Associate, ZenonT(40)
<1>5. ((f \o b) \o h) \o r = (f \o b) \o (h \o r)
  BY <1>1, <1>3, Associate, ZenonT(40)
<1>6. (f \o Append(b, Head(o))) \o r = (f \o b) \o o
  BY <1>1, <1>2, <1>4, <1>5
<1> QED  BY <1>6 DEF r

(* Taking the first payload of the middle part away.                       *)
LEMMA DropFromBuffer ==
  ASSUME NEW f \in Seq(Nat), NEW b \in Seq(Nat), NEW o \in Seq(Nat), b # <<>>
  PROVE  (f \o Tail(b)) \o o = Fifo!RemoveAt((f \o b) \o o, Len(f) + 1)
<1> DEFINE q == (f \o b) \o o
           m == Len(f)
<1>1. f \o b \in Seq(Nat) /\ q \in Seq(Nat) /\ Len(q) = m + Len(b) + Len(o)
  BY ThreeParts, ConcatProperties
<1>2. /\ Tail(b) \in Seq(Nat) /\ b = <<Head(b)>> \o Tail(b) /\ Head(b) \in Nat
      /\ <<Head(b)>> \in Seq(Nat) /\ Len(b) \in Nat /\ Len(b) >= 1 /\ m \in Nat /\ Len(o) \in Nat
  BY HeadFirst, SeqFacts
<1>3. Tail(b) \o o \in Seq(Nat)
  BY <1>2, ConcatProperties
<1>4. q = f \o (<<Head(b)>> \o (Tail(b) \o o))
  <2>1. q = f \o (b \o o)
    BY Associate
  <2>2. b \o o = <<Head(b)>> \o (Tail(b) \o o)
    <3>1. (<<Head(b)>> \o Tail(b)) \o o = <<Head(b)>> \o (Tail(b) \o o)
      BY <1>2, Associate
    <3> QED  BY <1>2, <3>1
  <2> QED  BY <2>1, <2>2
<1>5. SubSeq(q, 1, m) = f
  <2>1. b \o o \in Seq(Nat) /\ q = f \o (b \o o)
    BY ConcatProperties, Associate
  <2>2. CASE f = <<>>
    BY <1>1, <1>2, <2>2, SubSeqEmpty
  <2>3. CASE f # <<>>
    <3>1. 1 \in 1..Len(f) /\ m \in 1..Len(f)
      BY <2>3
    <3> QED  BY <2>1, <3>1, SubSeqOfConcat1, SubSeqFull
  <2> QED  BY <2>2, <2>3
<1>6. SubSeq(q, m + 2, Len(q)) = Tail(b) \o o
  <2> DEFINE h == f \o <<Head(b)>>
             r == Tail(b) \o o
  <2>1. h \in Seq(Nat) /\ Len(h) = m + 1 /\ q = h \o r /\ r \in Seq(Nat)
    <3>1. Len(<<Head(b)>>) = 1
      OBVIOUS
    <3>2. h \in Seq(Nat) /\ Len(h) = m + 1
      BY <1>2, <3>1, ConcatProperties
    <3>3. f \o (<<Head(b)>> \o r) = h \o r
      BY <1>2, <1>3, Associate, ZenonT(40)
    <3> QED  BY <1>3, <1>4, <3>2, <3>3
  <2>2. Len(q) = m + 1 + Len(r) /\ Len(r) \in Nat
    BY <1>2, <2>1, ConcatProperties
  <2> HIDE DEF h, r
  <2>3. CASE r = <<>>
    <3>1. Len(q) = m + 1
      BY <1>2, <2>2, <2>3
    <3>2. SubSeq(q, m + 2, Len(q)) = <<>>
      BY <1>2, <3>1, SubSeqEmpty
    <3> QED  BY <2>3, <3>2 DEF r
  <2>4. CASE r # <<>>
    <3>1. Len(r) >= 1
      BY <2>1, <2>2, <2>4, SeqFacts
    <3>2. m + 2 \in Len(h) + 1 .. Len(h) + Len(r) /\ Len(q) \in Len(h) + 1 .. Len(h) + Len(r)
      BY <1>2, <2>1, <2>2, <3>1
    <3>3. SubSeq(h \o r, m + 2, Len(q)) = SubSeq(r, (m + 2) - Len(h), Len(q) - Len(h))
      BY <2>1, <3>2, SubSeqOfConcat2
    <3>4. (m + 2) - Len(h) = 1 /\ Len(q) - Len(h) = Len(r)
      BY <1>2, <2>1, <2>2
    <3>5. SubSeq(r, 1, Len(r)) = r
      BY <2>1, SubSeqFull
    <3> QED  BY <2>1, <3>3, <3>4, <3>5 DEF r
  <2> QED  BY <2>3, <2>4
<1>7. (m + 1) - 1 = m /\ (m + 1) + 1 = m + 2
  BY <1>2
<1>8. Fifo!RemoveAt(q, m + 1) = f \o (Tail(b) \o o)
  <2>1. Fifo!RemoveAt(q, m + 1) = SubSeq(q, 1, (m + 1) - 1) \o SubSeq(q, (m + 1) + 1, Len(q))
    BY DEF Fifo!RemoveAt
  <2> HIDE DEF q, m
  <2> QED  BY <1>5, <1>6, <1>7, <2>1
<1>9. (f \o Tail(b)) \o o = f \o (Tail(b) \o o)
  BY <1>2, Associate
<1> QED  BY <1>8, <1>9

(* Taking the first payload of the slice away, or all of it.               *)
LEMMA SettleHead ==
  ASSUME NEW f \in Seq(Nat), NEW b \in Seq(Nat), NEW o \in Seq(Nat), f # <<>>
  PROVE  LET q == (f \o b) \o o
         IN  /\ q # <<>> /\ Head(q) = Head(f)
             /\ Tail(q) = (Tail(f) \o b) \o o
             /\ Fifo!RemoveAt(q, 1) = (Tail(f) \o b) \o o
<1> DEFINE q == (f \o b) \o o
           r == b \o o
<1>1. r \in Seq(Nat) /\ q = f \o r /\ q \in Seq(Nat) /\ Len(q) = Len(f) + Len(b) + Len(o)
  BY ThreeParts, ConcatProperties, Associate, ZenonT(40)
<1>2. /\ Len(f) \in Nat /\ Len(f) >= 1 /\ Len(b) \in Nat /\ Len(o) \in Nat
      /\ Tail(f) \in Seq(Nat) /\ Head(f) = f[1]
  BY SeqFacts
<1>3. q # <<>> /\ Len(q) >= 1 /\ Len(q) \in Nat
  <2> HIDE DEF q
  <2> QED  BY <1>1, <1>2
<1>4. Head(q) = Head(f)
  <2>1. q[1] = f[1]
    BY <1>2, ThreeParts
  <2>2. Head(q) = q[1]
    BY <1>1, <1>3
  <2> QED  BY <1>2, <2>1, <2>2
<1>6. <<>> \in Seq(Nat) /\ Len(<<>>) = 0
  BY EmptySeq
<1>7. (<<>> \o Tail(f)) \o r = Fifo!RemoveAt((<<>> \o f) \o r, Len(<<>>) + 1)
  <2> HIDE DEF r
  <2> QED  BY <1>1, <1>6, DropFromBuffer
<1>8. <<>> \o f = f /\ <<>> \o Tail(f) = Tail(f)
  BY <1>2, ConcatEmptySeq
<1>9. Tail(f) \o r = Fifo!RemoveAt(q, 1)
  BY <1>1, <1>6, <1>7, <1>8
<1>10. Tail(f) \o r = (Tail(f) \o b) \o o
  BY <1>2, Associate, ZenonT(40)
<1>11. Tail(q) = Fifo!RemoveAt(q, 1)
  <2> HIDE DEF q
  <2>1. Tail(q) = SubSeq(q, 2, Len(q))
    BY <1>1, <1>3, TailIsSubSeq
  <2>2. Fifo!RemoveAt(q, 1) = SubSeq(q, 1, 0) \o SubSeq(q, 2, Len(q))
    BY DEF Fifo!RemoveAt
  <2>3. SubSeq(q, 1, 0) = <<>>
    BY SubSeqEmpty
  <2>4. Tail(q) \in Seq(Nat)
    BY <1>1, <1>3, HeadTailProperties
  <2>5. <<>> \o Tail(q) = Tail(q)
    BY <2>4, ConcatEmptySeq
  <2> QED  BY <2>1, <2>2, <2>3, <2>5
<1> QED  BY <1>3, <1>4, <1>9, <1>10, <1>11

LEMMA LoseSlice ==
  ASSUME NEW f \in Seq(Nat), NEW b \in Seq(Nat), NEW o \in Seq(Nat), f # <<>>
  PROVE  LET q == (f \o b) \o o
         IN  /\ Len(f) \in 1..Len(q)
             /\ (<<>> \o b) \o o = SubSeq(q, Len(f) + 1, Len(q))
<1> DEFINE q == (f \o b) \o o
           r == b \o o
<1>1. r \in Seq(Nat) /\ q = f \o r /\ q \in Seq(Nat) /\ Len(q) = Len(f) + Len(r)
  <2>1. r \in Seq(Nat) /\ q = f \o r
    BY ConcatProperties, Associate
  <2> HIDE DEF q, r
  <2> QED  BY <2>1, ConcatProperties
<1>2. Len(f) \in Nat /\ Len(f) >= 1 /\ Len(r) \in Nat
  BY <1>1, SeqFacts
<1>3. (<<>> \o b) \o o = r
  BY ConcatEmptySeq
<1>4. SubSeq(q, Len(f) + 1, Len(q)) = r
  <2> HIDE DEF q, r
  <2>1. CASE r = <<>>
    BY <1>1, <1>2, <2>1, SubSeqEmpty
  <2>2. CASE r # <<>>
    <3>1. Len(r) >= 1
      BY <1>1, <2>2, SeqFacts
    <3>2. Len(f) + 1 \in Len(f) + 1 .. Len(f) + Len(r) /\ Len(q) \in Len(f) + 1 .. Len(f) + Len(r)
      BY <1>1, <1>2, <3>1
    <3>3. SubSeq(f \o r, Len(f) + 1, Len(q)) = SubSeq(r, (Len(f) + 1) - Len(f), Len(q) - Len(f))
      BY <1>1, <3>2, SubSeqOfConcat2
    <3>4. (Len(f) + 1) - Len(f) = 1 /\ Len(q) - Len(f) = Len(r)
      BY <1>1, <1>2
    <3>5. SubSeq(r, 1, Len(r)) = r
      BY <1>1, SubSeqFull
    <3> QED  BY <1>1, <3>3, <3>4, <3>5
  <2> QED  BY <2>1, <2>2
<1>5. Len(f) \in 1..Len(q)
  <2> HIDE DEF q, r
  <2> QED  BY <1>1, <1>2
<1> QED  BY <1>3, <1>4, <1>5
-----------------------------------------------------------------------------
Recorded(k) == sent[k] + drops[k].buffer_full + drops[k].retry_exhausted

(* A step seen by the FIFO: at most the queue, and what is recorded, of    *)
(* one collector change.                                                   *)
LEMMA QueueOnly ==
  ASSUME NEW j \in Kinds, NEW q, Queue(j)' = q, \A k \in Kinds \ {j} : Queue(k)' = Queue(k)
  PROVE  [k \in Kinds |-> Queue(k)]' = [[k \in Kinds |-> Queue(k)] EXCEPT ![j] = q]
OBVIOUS

LEMMA RecordedOnly ==
  ASSUME NEW j \in Kinds, NEW n, Recorded(j)' = n, \A k \in Kinds \ {j} : Recorded(k)' = Recorded(k)
  PROVE  [k \in Kinds |-> sent[k] + drops[k].buffer_full + drops[k].retry_exhausted]' =
         [[k \in Kinds |-> sent[k] + drops[k].buffer_full + drops[k].retry_exhausted] EXCEPT ![j] = n]
BY DEF Recorded

LEMMA FifoStutter ==
  ASSUME \A k \in Kinds : Queue(k)' = Queue(k), emitted' = emitted, delivered' = delivered,
         sent' = sent, drops' = drops, cancelled' = cancelled
  PROVE  UNCHANGED Fifo!queueVars
BY DEF Fifo!queueVars

(* The collector's channel grows: the queue grows at its end.              *)
LEMMA CollectEmits ==
  ASSUME MainOK, NEW j \in Kinds, Collect(j)
  PROVE  Fifo!Emit(j)
<1>1. /\ emitted' = [emitted EXCEPT ![j] = @ + 1]
      /\ out' = [out EXCEPT ![j] = Append(out[j], emitted[j] + 1)]
      /\ UNCHANGED <<buf, items, cur, sent, drops, delivered, cancelled>>
  BY DEF Collect
<1>2. /\ Flushing(j) \in Seq(Nat) /\ buf[j] \in Seq(Nat) /\ out[j] \in Seq(Nat) /\ emitted[j] \in Nat
      /\ out \in [Kinds -> Seq(Nat)]
  BY CountTypes DEF MainOK, TypeOK
<1>3. \A k \in Kinds : Flushing(k)' = Flushing(k)
  BY <1>1 DEF Flushing
<1>4. out'[j] = Append(out[j], emitted[j] + 1) /\ \A k \in Kinds \ {j} : out'[k] = out[k]
  BY <1>1, <1>2
<1>5. Queue(j)' = Append(Queue(j), emitted[j] + 1)
  <2>1. Queue(j)' = (Flushing(j) \o buf[j]) \o Append(out[j], emitted[j] + 1)
    BY <1>1, <1>3, <1>4 DEF Queue
  <2>2. Queue(j) = (Flushing(j) \o buf[j]) \o out[j]
    BY DEF Queue
  <2>3. PICK x \in Nat : x = emitted[j] + 1
    BY <1>2
  <2>4. (Flushing(j) \o buf[j]) \o Append(out[j], x) = Append((Flushing(j) \o buf[j]) \o out[j], x)
    BY <1>2, EmitToBack, ZenonT(40)
  <2> QED  BY <2>1, <2>2, <2>3, <2>4
<1>6. \A k \in Kinds \ {j} : Queue(k)' = Queue(k)
  BY <1>1, <1>3, <1>4 DEF Queue
<1>7. [k \in Kinds |-> Queue(k)]' = [[k \in Kinds |-> Queue(k)] EXCEPT ![j] = Append(Queue(j), emitted[j] + 1)]
  BY <1>5, <1>6, QueueOnly
<1>8. [k \in Kinds |-> Queue(k)][j] = Queue(j)
  OBVIOUS
<1>9. UNCHANGED [k \in Kinds |-> sent[k] + drops[k].buffer_full + drops[k].retry_exhausted]
  BY <1>1
<1> QED  BY <1>1, <1>7, <1>8, <1>9 DEF Fifo!Emit

(* Moving a payload into the buffer is invisible, unless the oldest of the *)
(* buffer falls out.                                                       *)
LEMMA WireDrops ==
  ASSUME MainOK, NEW j \in Kinds, Wire(j)
  PROVE  Fifo!Drop(j) \/ UNCHANGED Fifo!queueVars
<1>1. /\ out[j] # <<>> /\ out' = [out EXCEPT ![j] = Tail(out[j])]
      /\ buf' = [buf EXCEPT ![j] = Push(buf[j], Head(out[j]))]
      /\ drops' = [drops EXCEPT ![j].buffer_full = IF Full(buf[j]) THEN @ + 1 ELSE @]
      /\ UNCHANGED <<emitted, items, cur, sent, delivered, cancelled>>
  BY DEF Wire
<1>2. /\ Flushing(j) \in Seq(Nat) /\ buf[j] \in Seq(Nat) /\ out[j] \in Seq(Nat)
      /\ out \in [Kinds -> Seq(Nat)] /\ buf \in [Kinds -> Seq(Nat)]
      /\ sent[j] \in Nat /\ drops[j].buffer_full \in Nat /\ drops[j].retry_exhausted \in Nat
      /\ drops \in [Kinds -> [buffer_full : Nat, retry_exhausted : Nat]]
  BY CountTypes DEF MainOK, TypeOK
<1>3. \A k \in Kinds : Flushing(k)' = Flushing(k)
  BY <1>1 DEF Flushing
<1>4. /\ out'[j] = Tail(out[j]) /\ buf'[j] = Push(buf[j], Head(out[j]))
      /\ \A k \in Kinds \ {j} : out'[k] = out[k] /\ buf'[k] = buf[k] /\ drops'[k] = drops[k]
  BY <1>1, <1>2
<1>5. \A k \in Kinds \ {j} : Queue(k)' = Queue(k) /\ Recorded(k)' = Recorded(k)
  BY <1>1, <1>3, <1>4 DEF Queue, Recorded
<1>6. CASE ~Full(buf[j])
  <2>1. buf'[j] = Append(buf[j], Head(out[j]))
    BY <1>4, <1>6 DEF Push
  <2>2. Queue(j)' = Queue(j)
    <3>1. Queue(j)' = (Flushing(j) \o Append(buf[j], Head(out[j]))) \o Tail(out[j])
      BY <1>3, <1>4, <2>1 DEF Queue
    <3>2. Queue(j) = (Flushing(j) \o buf[j]) \o out[j]
      BY DEF Queue
    <3> QED  BY <1>1, <1>2, <3>1, <3>2, MoveToBuffer
  <2>3. drops' = drops
    BY <1>1, <1>2, <1>6
  <2> QED  BY <1>1, <1>5, <2>2, <2>3, FifoStutter
<1>7. CASE Full(buf[j])
  <2>1. buf[j] # <<>>
    BY <1>2, <1>7, Constants DEF Full
  <2>2. Tail(buf[j]) \in Seq(Nat)
    BY <1>2, <2>1
  <2>3. buf'[j] = Append(Tail(buf[j]), Head(out[j]))
    BY <1>4, <1>7 DEF Push
  <2>4. Queue(j)' = (Flushing(j) \o Tail(buf[j])) \o out[j]
    <3>1. Queue(j)' = (Flushing(j) \o Append(Tail(buf[j]), Head(out[j]))) \o Tail(out[j])
      BY <1>3, <1>4, <2>3 DEF Queue
    <3> QED  BY <1>1, <1>2, <2>2, <3>1, MoveToBuffer, ZenonT(40)
  <2>5. Queue(j)' = Fifo!RemoveAt(Queue(j), Len(Flushing(j)) + 1)
    BY <1>2, <2>1, <2>4, DropFromBuffer DEF Queue
  <2>6. Len(Flushing(j)) + 1 \in DOMAIN Queue(j)
    <3>1. Queue(j) \in Seq(Nat) /\ Len(Queue(j)) = Len(Flushing(j)) + Len(buf[j]) + Len(out[j])
      BY <1>2, ThreeParts DEF Queue
    <3>2. Len(Flushing(j)) \in Nat /\ Len(buf[j]) \in Nat /\ Len(out[j]) \in Nat /\ Len(buf[j]) >= 1
      BY <1>2, <2>1, SeqFacts
    <3>3. PICK n \in Nat, m \in Nat : n = Len(Queue(j)) /\ m = Len(Flushing(j)) /\ m + 1 <= n
      <4>1. Len(Queue(j)) \in Nat
        BY <3>1, LenProperties
      <4> DEFINE m == Len(Flushing(j))
                 b == Len(buf[j])
                 o == Len(out[j])
                 n == Len(Queue(j))
      <4>2. m \in Nat /\ b \in Nat /\ o \in Nat /\ b >= 1 /\ n \in Nat /\ n = m + b + o
        BY <3>1, <3>2, <4>1
      <4> HIDE DEF m, b, o, n
      <4>3. m + 1 <= n
        BY <4>2
      <4> QED  BY <4>2, <4>3 DEF m, n
    <3>4. DOMAIN Queue(j) = 1..n
      BY <3>1, <3>3, LenProperties
    <3> QED  BY <3>3, <3>4
  <2>7. Recorded(j)' = Recorded(j) + 1
    <3>1. /\ drops'[j].buffer_full = drops[j].buffer_full + 1
          /\ drops'[j].retry_exhausted = drops[j].retry_exhausted
      BY <1>1, <1>2, <1>7
    <3>2. sent'[j] = sent[j]
      BY <1>1
    <3>3. Recorded(j)' = sent[j] + (drops[j].buffer_full + 1) + drops[j].retry_exhausted
      BY <3>1, <3>2 DEF Recorded
    <3>4. Recorded(j) = sent[j] + drops[j].buffer_full + drops[j].retry_exhausted
      BY DEF Recorded
    <3> DEFINE a == sent[j]
               b == drops[j].buffer_full
               c == drops[j].retry_exhausted
    <3>5. a \in Nat /\ b \in Nat /\ c \in Nat
      BY <1>2
    <3>6. a + (b + 1) + c = (a + b + c) + 1
      <4> HIDE DEF a, b, c
      <4> QED  BY <3>5
    <3> QED  BY <3>3, <3>4, <3>6
  <2>8. /\ [k \in Kinds |-> Queue(k)]' =
             [[k \in Kinds |-> Queue(k)] EXCEPT ![j] = Fifo!RemoveAt(Queue(j), Len(Flushing(j)) + 1)]
        /\ [k \in Kinds |-> sent[k] + drops[k].buffer_full + drops[k].retry_exhausted]' =
             [[k \in Kinds |-> sent[k] + drops[k].buffer_full + drops[k].retry_exhausted]
                EXCEPT ![j] = Recorded(j) + 1]
    BY <1>5, <2>5, <2>7, QueueOnly, RecordedOnly
  <2>9. /\ [k \in Kinds |-> Queue(k)][j] = Queue(j)
        /\ [k \in Kinds |-> sent[k] + drops[k].buffer_full + drops[k].retry_exhausted][j] = Recorded(j)
    BY DEF Recorded
  <2> QED  BY <1>1, <2>6, <2>8, <2>9 DEF Fifo!Drop
<1> QED  BY <1>6, <1>7

(* Draining a buffer into the slice of the flush is invisible.             *)
LEMMA DrainStutters ==
  ASSUME MainOK, NEW j \in Kinds, Drain(j), items = <<>>, out' = out, emitted' = emitted,
         delivered' = delivered, sent' = sent, drops' = drops, cancelled' = cancelled
  PROVE  UNCHANGED Fifo!queueVars
<1>1. cur' = j /\ items' = buf[j] /\ buf' = [buf EXCEPT ![j] = <<>>]
  BY DEF Drain
<1>2. buf \in [Kinds -> Seq(Nat)]
  BY DEF MainOK, TypeOK
<1>3. ASSUME NEW k \in Kinds PROVE Queue(k)' = Queue(k)
  <2>1. Flushing(k) = <<>> /\ buf[k] \in Seq(Nat)
    BY <1>2 DEF Flushing
  <2>2. CASE k = j
    <3>1. Flushing(k)' = buf[k] /\ buf'[k] = <<>>
      BY <1>1, <1>2, <2>2 DEF Flushing
    <3>2. buf[k] \o <<>> = <<>> \o buf[k]
      BY <2>1, ConcatEmptySeq
    <3> QED  BY <2>1, <3>1, <3>2 DEF Queue
  <2>3. CASE k # j
    <3>1. Flushing(k)' = <<>> /\ buf'[k] = buf[k]
      BY <1>1, <1>2, <2>3 DEF Flushing
    <3> QED  BY <2>1, <3>1 DEF Queue
  <2> QED  BY <2>2, <2>3
<1> QED  BY <1>3, FifoStutter

(* The head of the slice is settled: the queue loses its head.             *)
LEMMA NextItemSettles ==
  ASSUME MainOK, Sending, NextItem, cur' = cur, buf' = buf, out' = out
  PROVE  /\ Queue(cur) # <<>> /\ Head(Queue(cur)) = Head(items) /\ 1 \in DOMAIN Queue(cur)
         /\ Queue(cur)' = Tail(Queue(cur))
         /\ Queue(cur)' = Fifo!RemoveAt(Queue(cur), 1)
         /\ \A k \in Kinds \ {cur} : Queue(k)' = Queue(k)
<1>1. /\ items \in Seq(Nat) /\ items # <<>> /\ cur \in Kinds /\ items' = Tail(items)
      /\ buf[cur] \in Seq(Nat) /\ out[cur] \in Seq(Nat)
  BY DEF MainOK, ControlOK, TypeOK, NextItem
<1>2. Flushing(cur) = items /\ Flushing(cur)' = Tail(items)
  BY <1>1 DEF Flushing
<1>3. \A k \in Kinds \ {cur} : Flushing(k) = <<>> /\ Flushing(k)' = <<>>
  BY <1>1 DEF Flushing
<1>4. /\ Queue(cur) = (items \o buf[cur]) \o out[cur]
      /\ Queue(cur)' = (Tail(items) \o buf[cur]) \o out[cur]
  BY <1>2 DEF Queue
<1>5. /\ Queue(cur) # <<>> /\ Head(Queue(cur)) = Head(items)
      /\ Queue(cur)' = Tail(Queue(cur))
      /\ Queue(cur)' = Fifo!RemoveAt(Queue(cur), 1)
  <2>1. PICK f \in Seq(Nat), b \in Seq(Nat), o \in Seq(Nat) :
          f = items /\ b = buf[cur] /\ o = out[cur]
    BY <1>1
  <2> DEFINE q == (f \o b) \o o
             t == (Tail(f) \o b) \o o
  <2>2. q # <<>> /\ Head(q) = Head(f) /\ Tail(q) = t /\ Fifo!RemoveAt(q, 1) = t
    <3>1. f # <<>>
      BY <1>1, <2>1
    <3>2. q # <<>> /\ Head(q) = Head(f)
      BY <3>1, SettleHead
    <3>3. Tail(q) = t
      BY <3>1, SettleHead, ZenonT(40)
    <3>4. Fifo!RemoveAt(q, 1) = t
      BY <3>1, SettleHead, ZenonT(40)
    <3> QED  BY <3>2, <3>3, <3>4
  <2>3. Queue(cur) = q /\ Queue(cur)' = t /\ Head(f) = Head(items)
    BY <1>4, <2>1
  <2> HIDE DEF q, t
  <2> QED  BY <2>2, <2>3
<1>6. 1 \in DOMAIN Queue(cur)
  <2>1. Queue(cur) \in Seq(Nat)
    BY <1>1, <1>4, ThreeParts
  <2> QED  BY <1>5, <2>1
<1>7. \A k \in Kinds \ {cur} : Queue(k)' = Queue(k)
  BY <1>3 DEF Queue
<1> QED  BY <1>5, <1>6, <1>7

(* The step of the pipeline, seen as one of the FIFO.                      *)
LEMMA FifoStep == MainOK /\ [Next]_vars => [Fifo!QueueNext]_(Fifo!queueVars)
<1> SUFFICES ASSUME MainOK, [Next]_vars PROVE Fifo!QueueNext \/ UNCHANGED Fifo!queueVars
  OBVIOUS
<1>0. /\ TypeOK /\ ControlOK /\ cur \in Kinds /\ items \in Seq(Nat)
      /\ sent \in [Kinds -> Nat] /\ sent[cur] \in Nat
      /\ drops \in [Kinds -> [buffer_full : Nat, retry_exhausted : Nat]]
      /\ drops[cur].buffer_full \in Nat /\ drops[cur].retry_exhausted \in Nat
      /\ delivered \in [Kinds -> Seq(Nat)]
  BY CountTypes DEF MainOK, TypeOK
<1>s. ASSUME out' = out, buf' = buf, items' = items, cur' = cur
      PROVE  \A k \in Kinds : Queue(k)' = Queue(k)
  BY <1>s DEF Queue, Flushing
<1>e. /\ [k \in Kinds |-> Queue(k)][cur] = Queue(cur)
      /\ [k \in Kinds |-> sent[k] + drops[k].buffer_full + drops[k].retry_exhausted][cur] = Recorded(cur)
  BY <1>0 DEF Recorded
<1>1. ASSUME NEW j \in Kinds, Collect(j) PROVE Fifo!QueueNext
  BY <1>1, CollectEmits DEF Fifo!QueueNext
<1>2. ASSUME NEW j \in Kinds, StopCollector(j) \/ StopWire(j) PROVE UNCHANGED Fifo!queueVars
  <2>1. /\ out' = out /\ buf' = buf /\ items' = items /\ cur' = cur /\ emitted' = emitted
        /\ delivered' = delivered /\ sent' = sent /\ drops' = drops /\ cancelled' = cancelled
    BY <1>2 DEF StopCollector, StopWire
  <2> QED  BY <1>s, <2>1, FifoStutter
<1>3. ASSUME NEW j \in Kinds, Wire(j) PROVE Fifo!QueueNext \/ UNCHANGED Fifo!queueVars
  BY <1>3, WireDrops DEF Fifo!QueueNext
<1>4. ASSUME NEW j \in Kinds, FlushTick(j) PROVE UNCHANGED Fifo!queueVars
  <2>1. items = <<>>
    BY <1>0, <1>4 DEF FlushTick, ControlOK, Sending
  <2>2. /\ Drain(j) /\ out' = out /\ emitted' = emitted /\ delivered' = delivered /\ sent' = sent
        /\ drops' = drops /\ cancelled' = cancelled
    BY <1>4 DEF FlushTick
  <2> QED  BY <2>1, <2>2, DrainStutters
<1>5. CASE DrainFlush
  <2>1. items = <<>>
    BY <1>0, <1>5 DEF DrainFlush, ControlOK, Sending
  <2>2. phase \in Nat /\ phase > 0 /\ phase <= Len(DrainOrder)
    <3>1. phase \in 0..Len(DrainOrder) + 1
      BY <1>0 DEF TypeOK
    <3> QED  BY <1>0, <1>5, <3>1, Constants DEF DrainFlush, ControlOK
  <2>3. DrainOrder[phase] \in Kinds
    BY <2>2, Constants, ElementOfSeq
  <2>4. /\ Drain(DrainOrder[phase]) /\ out' = out /\ emitted' = emitted /\ delivered' = delivered
        /\ sent' = sent /\ drops' = drops /\ cancelled' = cancelled
    BY <1>5 DEF DrainFlush
  <2>5. PICK j \in Kinds : j = DrainOrder[phase]
    BY <2>3
  <2>6. Drain(j)
    BY <2>4, <2>5
  <2> QED  BY <2>1, <2>4, <2>6, DrainStutters
<1>6. CASE PostAcked
  <2>1. /\ Sending /\ NextItem /\ cur' = cur /\ buf' = buf /\ out' = out /\ emitted' = emitted
        /\ cancelled' = cancelled /\ drops' = drops /\ sent' = [sent EXCEPT ![cur] = @ + 1]
        /\ delivered' = [delivered EXCEPT ![cur] = Append(@, Head(items))]
    BY <1>6 DEF PostAcked, Sending, goroutines
  <2>2. /\ Queue(cur) # <<>> /\ Head(Queue(cur)) = Head(items) /\ Queue(cur)' = Tail(Queue(cur))
        /\ \A k \in Kinds \ {cur} : Queue(k)' = Queue(k)
    BY <2>1, NextItemSettles
  <2>3. /\ Recorded(cur)' = Recorded(cur) + 1
        /\ \A k \in Kinds \ {cur} : Recorded(k)' = Recorded(k)
    <3>1. sent'[cur] = sent[cur] + 1 /\ \A k \in Kinds \ {cur} : sent'[k] = sent[k]
      BY <1>0, <2>1
    <3>2. Recorded(cur)' = (sent[cur] + 1) + drops[cur].buffer_full + drops[cur].retry_exhausted
      BY <2>1, <3>1 DEF Recorded
    <3> DEFINE a == sent[cur]
               b == drops[cur].buffer_full
               c == drops[cur].retry_exhausted
    <3>3. a \in Nat /\ b \in Nat /\ c \in Nat /\ Recorded(cur) = a + b + c
      BY <1>0 DEF Recorded
    <3>4. (a + 1) + b + c = (a + b + c) + 1
      <4> HIDE DEF a, b, c
      <4> QED  BY <3>3
    <3>5. \A k \in Kinds \ {cur} : Recorded(k)' = Recorded(k)
      BY <2>1, <3>1 DEF Recorded
    <3> QED  BY <3>2, <3>3, <3>4, <3>5
  <2>4. PICK j \in Kinds : j = cur
    BY <1>0
  <2>5. /\ [k \in Kinds |-> Queue(k)]' = [[k \in Kinds |-> Queue(k)] EXCEPT ![j] = Tail(Queue(j))]
        /\ [k \in Kinds |-> sent[k] + drops[k].buffer_full + drops[k].retry_exhausted]' =
             [[k \in Kinds |-> sent[k] + drops[k].buffer_full + drops[k].retry_exhausted]
                EXCEPT ![j] = Recorded(j) + 1]
    <3>1. /\ Queue(j)' = Tail(Queue(j)) /\ Recorded(j)' = Recorded(j) + 1
          /\ \A k \in Kinds \ {j} : Queue(k)' = Queue(k) /\ Recorded(k)' = Recorded(k)
      BY <2>1, <2>2, <2>3, <2>4
    <3> QED  BY <3>1, QueueOnly, RecordedOnly
  <2>6. delivered' = [delivered EXCEPT ![j] = Append(@, Head(Queue(j)))]
    BY <2>1, <2>2, <2>4
  <2>7. Fifo!Deliver(j)
    BY <1>e, <2>1, <2>2, <2>4, <2>5, <2>6 DEF Fifo!Deliver
  <2> QED  BY <2>7 DEF Fifo!QueueNext
<1>7. CASE PostFails
  <2>1. /\ Sending /\ items' = items /\ cur' = cur /\ buf' = buf /\ out' = out /\ emitted' = emitted
        /\ cancelled' = cancelled /\ drops' = drops /\ sent' = sent
        /\ \/ delivered' = delivered
           \/ delivered' = [delivered EXCEPT ![cur] = Append(@, Head(items))]
    BY <1>7 DEF PostFails, Sending, goroutines
  <2>2. CASE delivered' = delivered
    BY <1>s, <2>1, <2>2, FifoStutter
  <2>3. CASE delivered' = [delivered EXCEPT ![cur] = Append(@, Head(items))]
    <3>1. Queue(cur) # <<>> /\ Head(Queue(cur)) = Head(items)
      <4>1. PICK f \in Seq(Nat), b \in Seq(Nat), o \in Seq(Nat) :
              f = items /\ b = buf[cur] /\ o = out[cur]
        BY <1>0 DEF TypeOK
      <4>2. f # <<>>
        BY <1>0, <2>1, <4>1 DEF ControlOK
      <4>3. (f \o b) \o o # <<>> /\ Head((f \o b) \o o) = Head(f)
        BY <4>2, SettleHead
      <4>4. Queue(cur) = (f \o b) \o o
        BY <4>1 DEF Queue, Flushing
      <4> QED  BY <4>1, <4>3, <4>4
    <3>2. \A k \in Kinds : Queue(k)' = Queue(k)
      BY <1>s, <2>1
    <3>3. [k \in Kinds |-> Queue(k)]' = [k \in Kinds |-> Queue(k)]
      BY <3>2
    <3>4. UNCHANGED [k \in Kinds |-> sent[k] + drops[k].buffer_full + drops[k].retry_exhausted]
      BY <2>1
    <3>5. PICK j \in Kinds : j = cur
      BY <1>0
    <3>6. Fifo!DeliverUnknowingly(j)
      BY <1>e, <2>1, <2>3, <3>1, <3>3, <3>4, <3>5 DEF Fifo!DeliverUnknowingly
    <3> QED  BY <3>6 DEF Fifo!QueueNext
  <2> QED  BY <2>1, <2>2, <2>3
<1>8. CASE Exhaust
  <2>1. /\ Sending /\ NextItem /\ cur' = cur /\ buf' = buf /\ out' = out /\ emitted' = emitted
        /\ cancelled' = cancelled /\ sent' = sent /\ delivered' = delivered
        /\ drops' = [drops EXCEPT ![cur].retry_exhausted = @ + 1]
    BY <1>8 DEF Exhaust, Sending, goroutines
  <2>2. /\ 1 \in DOMAIN Queue(cur) /\ Queue(cur)' = Fifo!RemoveAt(Queue(cur), 1)
        /\ \A k \in Kinds \ {cur} : Queue(k)' = Queue(k)
    BY <2>1, NextItemSettles
  <2>3. /\ Recorded(cur)' = Recorded(cur) + 1
        /\ \A k \in Kinds \ {cur} : Recorded(k)' = Recorded(k)
    <3>1. /\ drops'[cur].retry_exhausted = drops[cur].retry_exhausted + 1
          /\ drops'[cur].buffer_full = drops[cur].buffer_full
          /\ \A k \in Kinds \ {cur} : drops'[k] = drops[k]
      BY <1>0, <2>1
    <3>2. Recorded(cur)' = sent[cur] + drops[cur].buffer_full + (drops[cur].retry_exhausted + 1)
      BY <2>1, <3>1 DEF Recorded
    <3> DEFINE a == sent[cur]
               b == drops[cur].buffer_full
               c == drops[cur].retry_exhausted
    <3>3. a \in Nat /\ b \in Nat /\ c \in Nat /\ Recorded(cur) = a + b + c
      BY <1>0 DEF Recorded
    <3>4. a + b + (c + 1) = (a + b + c) + 1
      <4> HIDE DEF a, b, c
      <4> QED  BY <3>3
    <3>5. \A k \in Kinds \ {cur} : Recorded(k)' = Recorded(k)
      BY <2>1, <3>1 DEF Recorded
    <3> QED  BY <3>2, <3>3, <3>4, <3>5
  <2>4. PICK j \in Kinds : j = cur
    BY <1>0
  <2>5. /\ [k \in Kinds |-> Queue(k)]' = [[k \in Kinds |-> Queue(k)] EXCEPT ![j] = Fifo!RemoveAt(Queue(j), 1)]
        /\ [k \in Kinds |-> sent[k] + drops[k].buffer_full + drops[k].retry_exhausted]' =
             [[k \in Kinds |-> sent[k] + drops[k].buffer_full + drops[k].retry_exhausted]
                EXCEPT ![j] = Recorded(j) + 1]
    <3>1. /\ Queue(j)' = Fifo!RemoveAt(Queue(j), 1) /\ Recorded(j)' = Recorded(j) + 1
          /\ \A k \in Kinds \ {j} : Queue(k)' = Queue(k) /\ Recorded(k)' = Recorded(k)
      BY <2>1, <2>2, <2>3, <2>4
    <3> QED  BY <3>1, QueueOnly, RecordedOnly
  <2>6. Fifo!Drop(j)
    BY <1>e, <2>1, <2>2, <2>4, <2>5 DEF Fifo!Drop
  <2> QED  BY <2>6 DEF Fifo!QueueNext
<1>9. CASE Abandon
  <2>1. /\ Sending /\ items' = <<>> /\ cur' = cur /\ buf' = buf /\ out' = out /\ emitted' = emitted
        /\ cancelled' = cancelled /\ sent' = sent /\ delivered' = delivered /\ drops' = drops
    BY <1>9 DEF Abandon, Sending, goroutines
  <2>2. cancelled
    BY <1>0, <1>9 DEF Abandon, CtxDone, ControlOK, TypeOK
  <2>3. PICK j \in Kinds : j = cur
    BY <1>0
  <2>4. PICK f \in Seq(Nat), b \in Seq(Nat), o \in Seq(Nat) :
          f = items /\ b = buf[j] /\ o = out[j] /\ f # <<>>
    BY <1>0, <2>1 DEF TypeOK, ControlOK
  <2>5. /\ Len(f) \in 1..Len((f \o b) \o o)
        /\ (<<>> \o b) \o o = SubSeq((f \o b) \o o, Len(f) + 1, Len((f \o b) \o o))
    <3>1. f # <<>>
      BY <2>4
    <3>2. Len(f) \in 1..Len((f \o b) \o o)
      BY <3>1, LoseSlice
    <3>3. (<<>> \o b) \o o = SubSeq((f \o b) \o o, Len(f) + 1, Len((f \o b) \o o))
      BY <3>1, LoseSlice, Zenon
    <3> QED  BY <3>2, <3>3, Zenon
  <2>6. Queue(j) = (f \o b) \o o /\ Queue(j)' = (<<>> \o b) \o o
    BY <2>1, <2>3, <2>4 DEF Queue, Flushing
  <2>7. \A k \in Kinds \ {j} : Queue(k)' = Queue(k)
    BY <2>1, <2>3 DEF Queue, Flushing
  <2>8. PICK n \in 1..Len(Queue(j)) : Queue(j)' = SubSeq(Queue(j), n + 1, Len(Queue(j)))
    <3>1. PICK q : q = (f \o b) \o o
      OBVIOUS
    <3>2. PICK m \in 1..Len(q) : (<<>> \o b) \o o = SubSeq(q, m + 1, Len(q))
      BY <2>5, <3>1
    <3>3. Queue(j) = q /\ Queue(j)' = SubSeq(q, m + 1, Len(q))
      BY <2>6, <3>1, <3>2
    <3> QED  BY <3>3
  <2>9. [k \in Kinds |-> Queue(k)]' =
          [[k \in Kinds |-> Queue(k)] EXCEPT ![j] = SubSeq(Queue(j), n + 1, Len(Queue(j)))]
    BY <2>7, <2>8, QueueOnly
  <2>10. UNCHANGED [k \in Kinds |-> sent[k] + drops[k].buffer_full + drops[k].retry_exhausted]
    BY <2>1
  <2>11. Fifo!Lose(j)
    BY <1>e, <2>1, <2>2, <2>3, <2>9, <2>10 DEF Fifo!Lose
  <2> QED  BY <2>11 DEF Fifo!QueueNext
<1>10. CASE BeginDrain \/ Return \/ Post \/ Retry \/ DrainTimeout \/ UNCHANGED vars
  <2>1. /\ out' = out /\ buf' = buf /\ items' = items /\ cur' = cur /\ emitted' = emitted
        /\ delivered' = delivered /\ sent' = sent /\ drops' = drops /\ cancelled' = cancelled
    BY <1>10 DEF BeginDrain, Return, Post, Retry, DrainTimeout, goroutines, vars
  <2> QED  BY <1>s, <2>1, FifoStutter
<1>11. CASE Cancel
  <2>1. /\ out' = out /\ buf' = buf /\ items' = items /\ cur' = cur /\ emitted' = emitted
        /\ delivered' = delivered /\ sent' = sent /\ drops' = drops /\ cancelled' = TRUE
    BY <1>11 DEF Cancel, goroutines
  <2>2. \A k \in Kinds : Queue(k)' = Queue(k)
    BY <1>s, <2>1
  <2>3. Fifo!Stop
    BY <2>1, <2>2 DEF Fifo!Stop
  <2> QED  BY <2>3 DEF Fifo!QueueNext
<1> QED
  BY <1>1, <1>2, <1>3, <1>4, <1>5, <1>6, <1>7, <1>8, <1>9, <1>10, <1>11 DEF Next, MainLoop

(* Channels, buffers, the one main loop, its retries and the shutdown      *)
(* drain together behave, for every collector, as one lossy FIFO: payloads *)
(* leave at the head, delivered or given up; on overflow one leaves that   *)
(* was not being sent; everything that leaves is recorded, unless the      *)
(* sentinel is stopping.                                                   *)
THEOREM PipelineIsFifo == Spec => ImplementsFifo
<1>1. Init => Fifo!QueueInit
  <2> SUFFICES ASSUME Init PROVE Fifo!QueueInit
    OBVIOUS
  <2>1. ASSUME NEW k \in Kinds PROVE Queue(k) = <<>>
    <3>1. Flushing(k) = <<>> /\ buf[k] = <<>> /\ out[k] = <<>>
      BY DEF Init, Flushing
    <3>2. <<>> \o <<>> = <<>>
      BY EmptySeq, ConcatEmptySeq
    <3> QED  BY <3>1, <3>2 DEF Queue
  <2>2. ASSUME NEW k \in Kinds PROVE sent[k] + drops[k].buffer_full + drops[k].retry_exhausted = 0
    BY DEF Init
  <2>3. emitted = [k \in Kinds |-> 0] /\ delivered = [k \in Kinds |-> <<>>] /\ cancelled = FALSE
    BY DEF Init
  <2> QED  BY <2>1, <2>2, <2>3 DEF Fifo!QueueInit
<1> QED  BY <1>1, FifoStep, MainCorrect, PTL DEF Spec, ImplementsFifo, Fifo!QueueSpec
-----------------------------------------------------------------------------
(* d was delivered and q waits, in the order of emission; e is the last    *)
(* number given out.                                                       *)
Ordered(d, q, e) ==
  /\ \A i, j \in DOMAIN d : i < j => d[i] <= d[j]
  /\ \A i \in DOMAIN d, j \in DOMAIN q : d[i] <= q[j]
  /\ \A i, j \in DOMAIN q : i < j => q[i] <= q[j]
  /\ \A i \in DOMAIN q : q[i] <= e
  /\ \A i \in DOMAIN d : d[i] <= e

LEMMA OrderedAppend ==
  ASSUME NEW d \in Seq(Nat), NEW q \in Seq(Nat), NEW e \in Nat, Ordered(d, q, e)
  PROVE  Ordered(d, Append(q, e + 1), e + 1)
<1> DEFINE r == Append(q, e + 1)
<1>1. /\ DOMAIN q = 1..Len(q) /\ Len(q) \in Nat /\ DOMAIN d = 1..Len(d) /\ Len(d) \in Nat
      /\ \A i \in 1..Len(q) : q[i] \in Nat
      /\ \A i \in 1..Len(d) : d[i] \in Nat
  OBVIOUS
<1>2. /\ DOMAIN r = 1..(Len(q) + 1)
      /\ \A i \in 1..Len(q) : r[i] = q[i]
      /\ r[Len(q) + 1] = e + 1
  BY AppendProperties
<1> HIDE DEF r
<1>3. \A i \in DOMAIN r : i \in 1..Len(q) \/ i = Len(q) + 1
  BY <1>1, <1>2
<1>o. /\ \A i, j \in 1..Len(d) : i < j => d[i] <= d[j]
      /\ \A i \in 1..Len(d), j \in 1..Len(q) : d[i] <= q[j]
      /\ \A i, j \in 1..Len(q) : i < j => q[i] <= q[j]
      /\ \A i \in 1..Len(q) : q[i] <= e
      /\ \A i \in 1..Len(d) : d[i] <= e
  BY <1>1 DEF Ordered
<1>a. \A i \in DOMAIN r : r[i] \in Nat /\ r[i] <= e + 1
  BY <1>1, <1>2, <1>3, <1>o, SMTT(30)
<1>b. \A i \in DOMAIN d, j \in DOMAIN r : d[i] <= r[j]
  <2> SUFFICES ASSUME NEW i \in 1..Len(d), NEW j \in DOMAIN r PROVE d[i] <= r[j]
    BY <1>1
  <2>1. CASE j \in 1..Len(q)
    BY <1>2, <1>o, <2>1
  <2>2. CASE j = Len(q) + 1
    <3>1. r[j] = e + 1 /\ d[i] <= e /\ d[i] \in Nat
      BY <1>1, <1>2, <1>o, <2>2
    <3> QED  BY <3>1
  <2> QED  BY <1>3, <2>1, <2>2
<1>c. \A i, j \in DOMAIN r : i < j => r[i] <= r[j]
  <2> SUFFICES ASSUME NEW i \in DOMAIN r, NEW j \in DOMAIN r, i < j PROVE r[i] <= r[j]
    OBVIOUS
  <2>1. CASE j \in 1..Len(q)
    <3>1. i \in 1..Len(q)
      BY <1>1, <1>2, <2>1
    <3> QED  BY <1>2, <1>o, <2>1, <3>1
  <2>2. CASE j = Len(q) + 1
    BY <1>2, <1>a, <2>2
  <2> QED  BY <1>3, <2>1, <2>2
<1>d. \A i \in DOMAIN d : d[i] <= e + 1
  BY <1>1, <1>o
<1>4. Ordered(d, r, e + 1)
  BY <1>1, <1>a, <1>b, <1>c, <1>d, <1>o DEF Ordered
<1> QED  BY <1>4 DEF r

LEMMA OrderedDeliver ==
  ASSUME NEW d \in Seq(Nat), NEW q \in Seq(Nat), NEW e \in Nat, Ordered(d, q, e), q # <<>>
  PROVE  Ordered(Append(d, Head(q)), q, e)
<1> DEFINE c == Append(d, Head(q))
<1>1. /\ DOMAIN q = 1..Len(q) /\ Len(q) \in Nat /\ DOMAIN d = 1..Len(d) /\ Len(d) \in Nat
      /\ \A i \in 1..Len(q) : q[i] \in Nat
      /\ \A i \in 1..Len(d) : d[i] \in Nat
      /\ 1 \in 1..Len(q) /\ Head(q) = q[1]
  OBVIOUS
<1>2. /\ DOMAIN c = 1..(Len(d) + 1)
      /\ \A i \in 1..Len(d) : c[i] = d[i]
      /\ c[Len(d) + 1] = q[1]
  BY <1>1, AppendProperties
<1> HIDE DEF c
<1>3. \A i \in DOMAIN c : i \in 1..Len(d) \/ i = Len(d) + 1
  BY <1>1, <1>2
<1>4. \A j \in DOMAIN q : q[1] <= q[j]
  BY <1>1, SMTT(30) DEF Ordered
<1>o. /\ \A i, j \in 1..Len(d) : i < j => d[i] <= d[j]
      /\ \A i \in 1..Len(d), j \in 1..Len(q) : d[i] <= q[j]
      /\ \A i \in 1..Len(q) : q[i] <= e
      /\ \A i \in 1..Len(d) : d[i] <= e
  BY <1>1 DEF Ordered
<1>a. \A i \in DOMAIN c, j \in DOMAIN q : c[i] <= q[j]
  BY <1>1, <1>2, <1>3, <1>4, <1>o
<1>b. \A i \in DOMAIN c : c[i] <= e
  BY <1>1, <1>2, <1>3, <1>o
<1>c. \A i, j \in DOMAIN c : i < j => c[i] <= c[j]
  <2> SUFFICES ASSUME NEW i \in DOMAIN c, NEW j \in DOMAIN c, i < j PROVE c[i] <= c[j]
    OBVIOUS
  <2>1. i \in 1..Len(d)
    BY <1>1, <1>2
  <2>2. CASE j \in 1..Len(d)
    BY <1>2, <1>o, <2>1, <2>2
  <2>3. CASE j = Len(d) + 1
    BY <1>1, <1>2, <1>o, <2>1, <2>3
  <2> QED  BY <1>3, <2>2, <2>3
<1>5. Ordered(c, q, e)
  BY <1>a, <1>b, <1>c DEF Ordered
<1> QED  BY <1>5 DEF c

(* What is left of the queue keeps its order.                              *)
LEMMA OrderedRest ==
  ASSUME NEW d \in Seq(Nat), NEW q \in Seq(Nat), NEW e \in Nat, Ordered(d, q, e),
         NEW r, NEW at \in [DOMAIN r -> DOMAIN q],
         \A i \in DOMAIN r : r[i] = q[at[i]],
         \A i, j \in DOMAIN r : i < j => at[i] < at[j]
  PROVE  Ordered(d, r, e)
BY DEF Ordered

LEMMA SubSeqFacts ==
  ASSUME NEW q \in Seq(Nat), NEW m \in Nat, Len(q) = m, NEW a \in 1..(m + 1), NEW b \in (a - 1)..m
  PROVE  /\ SubSeq(q, a, b) \in Seq(Nat) /\ Len(SubSeq(q, a, b)) = b - a + 1
         /\ \A i \in 1..(b - a + 1) : SubSeq(q, a, b)[i] = q[a + i - 1]
<1>1. \A i \in a..b : q[i] \in Nat
  OBVIOUS
<1>2. a \in Int /\ b \in Int /\ (a <= b \/ b - a + 1 = 0)
  OBVIOUS
<1>3. PICK t : t = SubSeq(q, a, b)
  OBVIOUS
<1>4. /\ t \in Seq(Nat) /\ Len(t) = IF a <= b THEN b - a + 1 ELSE 0
      /\ \A i \in 1..(b - a + 1) : t[i] = q[a + i - 1]
  <2>1. SubSeq(q, a, b) \in Seq(Nat)
    BY <1>1, <1>2, SubSeqProperties, Zenon
  <2>2. Len(SubSeq(q, a, b)) = IF a <= b THEN b - a + 1 ELSE 0
    BY <1>1, <1>2, SubSeqProperties, Zenon
  <2>3. \A i \in 1..(b - a + 1) : SubSeq(q, a, b)[i] = q[a + i - 1]
    BY <1>1, <1>2, SubSeqProperties, SMTT(30)
  <2> QED  BY <1>3, <2>1, <2>2, <2>3, Zenon
<1>5. Len(t) = b - a + 1
  BY <1>2, <1>4
<1> QED  BY <1>3, <1>4, <1>5

LEMMA RemoveAtIndex ==
  ASSUME NEW q \in Seq(Nat), NEW m \in Nat, Len(q) = m, NEW n \in 1..m
  PROVE  /\ DOMAIN Fifo!RemoveAt(q, n) = 1..(m - 1)
         /\ \A i \in 1..(m - 1) : Fifo!RemoveAt(q, n)[i] = IF i < n THEN q[i] ELSE q[i + 1]
<1>1. PICK h : h = SubSeq(q, 1, n - 1)
  OBVIOUS
<1>2. PICK t : t = SubSeq(q, n + 1, m)
  OBVIOUS
<1>3. PICK r : r = h \o t
  OBVIOUS
<1>4. Fifo!RemoveAt(q, n) = r
  BY <1>1, <1>2, <1>3 DEF Fifo!RemoveAt
<1>5. h \in Seq(Nat) /\ Len(h) = n - 1 /\ \A i \in 1..(n - 1) : h[i] = q[i]
  <2>1. 1 \in 1..(m + 1) /\ n - 1 \in (1 - 1)..m /\ (n - 1) - 1 + 1 = n - 1
    OBVIOUS
  <2>2. \A i \in 1..(n - 1) : 1 + i - 1 = i
    OBVIOUS
  <2> QED  BY <1>1, <2>1, <2>2, SubSeqFacts
<1>6. t \in Seq(Nat) /\ Len(t) = m - n /\ \A i \in 1..(m - n) : t[i] = q[n + i]
  <2>1. n + 1 \in 1..(m + 1) /\ m \in ((n + 1) - 1)..m /\ m - (n + 1) + 1 = m - n
    OBVIOUS
  <2>2. \A i \in 1..(m - n) : (n + 1) + i - 1 = n + i
    OBVIOUS
  <2>3. /\ t \in Seq(Nat) /\ Len(t) = m - (n + 1) + 1
        /\ \A i \in 1..(m - (n + 1) + 1) : t[i] = q[(n + 1) + i - 1]
    BY <1>2, <2>1, SubSeqFacts
  <2> QED  BY <2>1, <2>2, <2>3
<1>7. /\ r \in Seq(Nat) /\ Len(r) = (n - 1) + (m - n)
      /\ \A i \in 1..((n - 1) + (m - n)) : r[i] = IF i <= n - 1 THEN h[i] ELSE t[i - (n - 1)]
  <2>1. /\ r \in Seq(Nat) /\ Len(r) = Len(h) + Len(t)
        /\ \A i \in 1..(Len(h) + Len(t)) : r[i] = IF i <= Len(h) THEN h[i] ELSE t[i - Len(h)]
    BY <1>3, <1>5, <1>6, ConcatProperties
  <2> QED  BY <1>5, <1>6, <2>1
<1>8. (n - 1) + (m - n) = m - 1
  OBVIOUS
<1>9. DOMAIN r = 1..(m - 1)
  BY <1>7, <1>8
<1>10. ASSUME NEW i \in 1..(m - 1) PROVE r[i] = IF i < n THEN q[i] ELSE q[i + 1]
  <2>1. CASE i < n
    <3>1. i <= n - 1 /\ i \in 1..(n - 1)
      BY <2>1
    <3> QED  BY <1>5, <1>7, <1>8, <2>1, <3>1
  <2>2. CASE ~(i < n)
    <3>1. ~(i <= n - 1) /\ i - (n - 1) \in 1..(m - n) /\ n + (i - (n - 1)) = i + 1
      BY <2>2
    <3>2. r[i] = t[i - (n - 1)]
      BY <1>7, <1>8, <3>1
    <3>3. t[i - (n - 1)] = q[n + (i - (n - 1))]
      BY <1>6, <3>1
    <3> QED  BY <2>2, <3>1, <3>2, <3>3
  <2> QED  BY <2>1, <2>2
<1> QED  BY <1>4, <1>9, <1>10

LEMMA OrderedRemove ==
  ASSUME NEW d \in Seq(Nat), NEW q \in Seq(Nat), NEW e \in Nat, Ordered(d, q, e), NEW n \in DOMAIN q
  PROVE  Ordered(d, Fifo!RemoveAt(q, n), e)
<1>1. PICK m \in Nat : m = Len(q) /\ DOMAIN q = 1..m /\ n \in 1..m
  OBVIOUS
<1>2. PICK r : r = Fifo!RemoveAt(q, n)
  OBVIOUS
<1>3. DOMAIN r = 1..(m - 1) /\ \A i \in 1..(m - 1) : r[i] = IF i < n THEN q[i] ELSE q[i + 1]
  <2>1. Len(q) = m /\ n \in 1..m
    BY <1>1
  <2>2. DOMAIN Fifo!RemoveAt(q, n) = 1..(m - 1)
    BY <2>1, RemoveAtIndex
  <2>3. \A i \in 1..(m - 1) : Fifo!RemoveAt(q, n)[i] = IF i < n THEN q[i] ELSE q[i + 1]
    BY <2>1, RemoveAtIndex
  <2> QED  BY <1>2, <2>2, <2>3
<1> DEFINE at == [i \in 1..(m - 1) |-> IF i < n THEN i ELSE i + 1]
<1>4. at \in [DOMAIN r -> DOMAIN q]
  BY <1>1, <1>3
<1>5. \A i \in DOMAIN r : r[i] = q[at[i]]
  <2> SUFFICES ASSUME NEW i \in 1..(m - 1) PROVE r[i] = q[at[i]]
    BY <1>3
  <2>1. at[i] = IF i < n THEN i ELSE i + 1
    OBVIOUS
  <2> HIDE DEF at
  <2> QED  BY <1>3, <2>1
<1>6. \A i, j \in DOMAIN r : i < j => at[i] < at[j]
  BY <1>1, <1>3, SMTT(30)
<1> HIDE DEF at
<1>7. Ordered(d, r, e)
  BY <1>4, <1>5, <1>6, OrderedRest
<1> QED  BY <1>2, <1>7

LEMMA OrderedSuffix ==
  ASSUME NEW d \in Seq(Nat), NEW q \in Seq(Nat), NEW e \in Nat, Ordered(d, q, e), NEW n \in 1..Len(q)
  PROVE  Ordered(d, SubSeq(q, n + 1, Len(q)), e)
<1> DEFINE t == SubSeq(q, n + 1, Len(q))
           at == [i \in DOMAIN t |-> n + i]
<1>1. Len(q) \in Nat /\ DOMAIN q = 1..Len(q)
  OBVIOUS
<1>2. DOMAIN t = 1..(Len(q) - n) /\ \A i \in 1..(Len(q) - n) : t[i] = q[n + i]
  OBVIOUS
<1> HIDE DEF t
<1>3. /\ at \in [DOMAIN t -> DOMAIN q] /\ \A i \in DOMAIN t : t[i] = q[at[i]]
      /\ \A i, j \in DOMAIN t : i < j => at[i] < at[j]
  BY <1>1, <1>2, SMTT(30)
<1> HIDE DEF at
<1>4. Ordered(d, t, e)
  BY <1>3, OrderedRest
<1> QED  BY <1>4 DEF t

OrderInv == \A k \in Kinds : Ordered(delivered[k], Queue(k), emitted[k])

(* Order is kept by the FIFO, whatever implements it.                      *)
LEMMA OrderStep == TypeOK /\ OrderInv /\ [Fifo!QueueNext]_(Fifo!queueVars) => OrderInv'
<1> SUFFICES ASSUME TypeOK, OrderInv, [Fifo!QueueNext]_(Fifo!queueVars), NEW k \in Kinds
             PROVE  Ordered(delivered[k], Queue(k), emitted[k])'
  BY DEF OrderInv
<1>1. PICK d \in Seq(Nat), q \in Seq(Nat), e \in Nat :
        d = delivered[k] /\ q = Queue(k) /\ e = emitted[k] /\ Ordered(d, q, e)
  <2>1. /\ delivered[k] \in Seq(Nat) /\ emitted[k] \in Nat
        /\ Flushing(k) \in Seq(Nat) /\ buf[k] \in Seq(Nat) /\ out[k] \in Seq(Nat)
    BY CountTypes DEF TypeOK
  <2>2. Queue(k) \in Seq(Nat)
    BY <2>1, ThreeParts DEF Queue
  <2> QED  BY <2>1, <2>2 DEF OrderInv
<1>2. delivered \in [Kinds -> Seq(Nat)] /\ emitted \in [Kinds -> Nat]
  BY DEF TypeOK
<1> DEFINE all == [j \in Kinds |-> Queue(j)]
<1>q. all[k] = q /\ all'[k] = Queue(k)' /\ DOMAIN all = Kinds
  BY <1>1
<1>k. ASSUME NEW dd, NEW qq, NEW ee, delivered'[k] = dd, all'[k] = qq, emitted'[k] = ee, Ordered(dd, qq, ee)
      PROVE  Ordered(delivered[k], Queue(k), emitted[k])'
  BY <1>k, <1>q
<1>3. ASSUME NEW j \in Kinds, Fifo!Emit(j) PROVE Ordered(delivered[k], Queue(k), emitted[k])'
  <2>1. /\ emitted' = [emitted EXCEPT ![j] = @ + 1] /\ delivered' = delivered
        /\ all' = [all EXCEPT ![j] = Append(@, emitted[j] + 1)]
    BY <1>3 DEF Fifo!Emit
  <2> HIDE DEF all
  <2>2. CASE j = k
    <3>1. emitted'[k] = e + 1 /\ delivered'[k] = d /\ all'[k] = Append(q, e + 1)
      BY <1>1, <1>2, <1>q, <2>1, <2>2
    <3> QED  BY <1>1, <1>k, <3>1, OrderedAppend
  <2>3. CASE j # k
    <3>1. emitted'[k] = e /\ delivered'[k] = d /\ all'[k] = q
      BY <1>1, <1>2, <1>q, <2>1, <2>3
    <3> QED  BY <1>1, <1>k, <3>1
  <2> QED  BY <2>2, <2>3
<1>4. ASSUME NEW j \in Kinds, Fifo!Deliver(j) PROVE Ordered(delivered[k], Queue(k), emitted[k])'
  <2>1. /\ emitted' = emitted /\ all[j] # <<>>
        /\ delivered' = [delivered EXCEPT ![j] = Append(@, Head(all[j]))]
        /\ all' = [all EXCEPT ![j] = Tail(@)]
    BY <1>4 DEF Fifo!Deliver
  <2> HIDE DEF all
  <2>2. CASE j = k
    <3>1. emitted'[k] = e /\ delivered'[k] = Append(d, Head(q)) /\ all'[k] = Tail(q) /\ q # <<>>
      BY <1>1, <1>2, <1>q, <2>1, <2>2
    <3>2. Append(d, Head(q)) \in Seq(Nat) /\ Ordered(Append(d, Head(q)), q, e)
      <4>1. Head(q) \in Nat
        BY <3>1, SeqFacts
      <4> QED  BY <1>1, <3>1, <4>1, OrderedDeliver, AppendProperties
    <3>3. 1 \in 1..Len(q) /\ Tail(q) = SubSeq(q, 1 + 1, Len(q))
      BY <3>1, TailIsSubSeq
    <3>4. Ordered(Append(d, Head(q)), Tail(q), e)
      BY <3>2, <3>3, OrderedSuffix
    <3> QED  BY <1>k, <3>1, <3>4
  <2>3. CASE j # k
    <3>1. emitted'[k] = e /\ delivered'[k] = d /\ all'[k] = q
      BY <1>1, <1>2, <1>q, <2>1, <2>3
    <3> QED  BY <1>1, <1>k, <3>1
  <2> QED  BY <2>2, <2>3
<1>5. ASSUME NEW j \in Kinds, Fifo!DeliverUnknowingly(j) PROVE Ordered(delivered[k], Queue(k), emitted[k])'
  <2>1. /\ emitted' = emitted /\ all[j] # <<>> /\ all' = all
        /\ delivered' = [delivered EXCEPT ![j] = Append(@, Head(all[j]))]
    BY <1>5 DEF Fifo!DeliverUnknowingly
  <2> HIDE DEF all
  <2>2. CASE j = k
    <3>1. emitted'[k] = e /\ delivered'[k] = Append(d, Head(q)) /\ all'[k] = q /\ q # <<>>
      BY <1>1, <1>2, <1>q, <2>1, <2>2
    <3>2. Ordered(Append(d, Head(q)), q, e)
      BY <1>1, <3>1, OrderedDeliver
    <3> QED  BY <1>k, <3>1, <3>2
  <2>3. CASE j # k
    <3>1. emitted'[k] = e /\ delivered'[k] = d /\ all'[k] = q
      BY <1>1, <1>2, <1>q, <2>1, <2>3
    <3> QED  BY <1>1, <1>k, <3>1
  <2> QED  BY <2>2, <2>3
<1>6. ASSUME NEW j \in Kinds, Fifo!Drop(j) PROVE Ordered(delivered[k], Queue(k), emitted[k])'
  <2>1. PICK n \in DOMAIN all[j] : all' = [all EXCEPT ![j] = Fifo!RemoveAt(@, n)]
    BY <1>6 DEF Fifo!Drop
  <2>2. emitted' = emitted /\ delivered' = delivered
    BY <1>6 DEF Fifo!Drop
  <2> HIDE DEF all
  <2>3. CASE j = k
    <3>1. emitted'[k] = e /\ delivered'[k] = d /\ all'[k] = Fifo!RemoveAt(q, n) /\ n \in DOMAIN q
      BY <1>1, <1>q, <2>1, <2>2, <2>3
    <3>2. Ordered(d, Fifo!RemoveAt(q, n), e)
      BY <1>1, <3>1, OrderedRemove
    <3> QED  BY <1>k, <3>1, <3>2
  <2>4. CASE j # k
    <3>1. emitted'[k] = e /\ delivered'[k] = d /\ all'[k] = q
      BY <1>1, <1>q, <2>1, <2>2, <2>4
    <3> QED  BY <1>1, <1>k, <3>1
  <2> QED  BY <2>3, <2>4
<1>7. ASSUME NEW j \in Kinds, Fifo!Lose(j) PROVE Ordered(delivered[k], Queue(k), emitted[k])'
  <2>1. PICK n \in 1..Len(all[j]) : all' = [all EXCEPT ![j] = SubSeq(@, n + 1, Len(@))]
    BY <1>7 DEF Fifo!Lose
  <2>2. emitted' = emitted /\ delivered' = delivered
    BY <1>7 DEF Fifo!Lose
  <2> HIDE DEF all
  <2>3. CASE j = k
    <3>1. /\ emitted'[k] = e /\ delivered'[k] = d /\ all'[k] = SubSeq(q, n + 1, Len(q))
          /\ n \in 1..Len(q)
      BY <1>1, <1>q, <2>1, <2>2, <2>3
    <3>2. Ordered(d, SubSeq(q, n + 1, Len(q)), e)
      BY <1>1, <3>1, OrderedSuffix
    <3> QED  BY <1>k, <3>1, <3>2
  <2>4. CASE j # k
    <3>1. emitted'[k] = e /\ delivered'[k] = d /\ all'[k] = q
      BY <1>1, <1>q, <2>1, <2>2, <2>4
    <3> QED  BY <1>1, <1>k, <3>1
  <2> QED  BY <2>3, <2>4
<1>8. CASE Fifo!Stop \/ UNCHANGED Fifo!queueVars
  <2>1. emitted' = emitted /\ delivered' = delivered /\ all' = all
    BY <1>8 DEF Fifo!Stop, Fifo!queueVars
  <2> HIDE DEF all
  <2>2. emitted'[k] = e /\ delivered'[k] = d /\ all'[k] = q
    BY <1>1, <1>q, <2>1
  <2> QED  BY <1>1, <1>k, <2>2
<1> QED  BY <1>3, <1>4, <1>5, <1>6, <1>7, <1>8 DEF Fifo!QueueNext

(* A collector's payloads reach the watchtower in the order it emitted     *)
(* them, repetitions of the one being retried aside, and what is still     *)
(* waiting is never older than what was delivered, whatever overflowed,    *)
(* failed, was retried, given up or drained at shutdown in between.        *)
THEOREM DeliveryInOrder == Spec => []InOrder
<1>1. Init => OrderInv
  <2> SUFFICES ASSUME Init, NEW k \in Kinds PROVE Ordered(delivered[k], Queue(k), emitted[k])
    BY DEF OrderInv
  <2>1. delivered[k] = <<>>
    BY DEF Init
  <2>2. Queue(k) = <<>>
    <3>1. Flushing(k) = <<>> /\ buf[k] = <<>> /\ out[k] = <<>>
      BY DEF Init, Flushing
    <3>2. <<>> \o <<>> = <<>>
      BY EmptySeq, ConcatEmptySeq
    <3> QED  BY <3>1, <3>2 DEF Queue
  <2>3. DOMAIN delivered[k] = {} /\ DOMAIN Queue(k) = {}
    BY <2>1, <2>2
  <2> QED  BY <2>3 DEF Ordered
<1>2. OrderInv => InOrder
  BY DEF OrderInv, InOrder, Ordered
<1>3. MainOK => TypeOK
  BY DEF MainOK
<1> QED  BY <1>1, <1>2, <1>3, FifoStep, OrderStep, MainCorrect, PTL DEF Spec
=============================================================================
