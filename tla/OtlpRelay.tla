----------------------------- MODULE OtlpRelay -----------------------------
(***************************************************************************)
(* The sentinel's OTLP path (internal/sentinel/otlp/relay.go and the OTLP  *)
(* goroutines of app/run.go): an HTTP server whose handlers put gnoland's  *)
(* metric exports on a bounded channel without blocking, and a goroutine   *)
(* that sends them on, one at a time, with retries.  Unlike the buffered   *)
(* collectors it drops the newest payload when full and is not drained at  *)
(* shutdown.  The statistics of the type are read by two more goroutines:  *)
(* the main loop, which logs them, and the self collector, which sends     *)
(* them to the watchtower.                                                 *)
(***************************************************************************)
EXTENDS Sequences, FiniteSets, Stats

CONSTANTS
  Exports,     \* metric exports gnoland posts; each is handled once
  ChanCap,     \* otlpChannelSize
  MaxAttempts  \* maxSendAttempts

ASSUME OtlpAssumption ==
  /\ IsFiniteSet(Exports)
  /\ ChanCap \in Nat \ {0}
  /\ MaxAttempts \in Nat \ {0}

VARIABLES
  handler,    \* where the handler of each export is
  server,     \* the relay's http.Server
  chan,       \* otlpOut
  sender,     \* where the sender goroutine is
  item,       \* the payload it is sending, as a sequence of at most one
  attempt,    \* failed attempts for it
  cancelled,  \* ctx is done
  returned,   \* Run has returned
  acked,      \* history: how many sends the watchtower acknowledged
  aborted,    \* history: how many sends the cancellation cut short
  st,         \* the Stats entry of this type
  self,       \* where the self collector is
  report,     \* the self_stats payload it is sending
  shown,      \* history: the self_stats payload that went out last
  logged,     \* history: the sum of all the stats lines logged
  taken       \* history: the sum of what self's snapshots reset

relay    == <<handler, server, chan, sender, item, attempt, cancelled, returned, acked, aborted>>
readers  == <<self, report, shown, logged, taken>>
vars     == <<relay, st, readers>>
-----------------------------------------------------------------------------
Init ==
  /\ handler = [e \in Exports |-> "new"]
  /\ server = "serving"
  /\ chan = <<>>
  /\ sender = "select"
  /\ item = <<>>
  /\ attempt = 0
  /\ cancelled = FALSE
  /\ returned = FALSE
  /\ acked = 0
  /\ aborted = 0
  /\ st = NewEntry
  /\ self = "snapshot"      \* it emits once on startup
  /\ report = Zero
  /\ shown = Zero
  /\ logged = Zero
  /\ taken = Zero

(* The server accepts a connection and starts handleMetrics.               *)
Accept(e) ==
  /\ server = "serving"
  /\ handler[e] = "new"
  /\ handler' = [handler EXCEPT ![e] = "handling"]
  /\ UNCHANGED <<server, chan, sender, item, attempt, cancelled, returned, acked, aborted, st, readers>>

(* The body is unreadable or no ExportMetricsServiceRequest: 400.          *)
HandleBad(e) ==
  /\ handler[e] = "handling"
  /\ handler' = [handler EXCEPT ![e] = "bad_request"]
  /\ UNCHANGED <<server, chan, sender, item, attempt, cancelled, returned, acked, aborted, st, readers>>

(* Mutant: the drop is not counted.                                        *)
HandleMetricsUncounted(e) ==
  /\ handler[e] = "handling"
  /\ handler' = [handler EXCEPT ![e] = "ok"]
  /\ chan' = IF Len(chan) < ChanCap THEN Append(chan, e) ELSE chan
  /\ UNCHANGED <<server, sender, item, attempt, cancelled, returned, acked, aborted, st, readers>>

(* The non-blocking send: queued, or dropped and counted; 200 either way.  *)
HandleMetrics(e) ==
  /\ handler[e] = "handling"
  /\ handler' = [handler EXCEPT ![e] = "ok"]
  /\ IF Len(chan) < ChanCap
     THEN chan' = Append(chan, e) /\ UNCHANGED st
     ELSE st' = RecordDrop(st, "buffer_full") /\ UNCHANGED chan
  /\ UNCHANGED <<server, sender, item, attempt, cancelled, returned, acked, aborted, readers>>

(* Serve returns as soon as Shutdown is called, and Relay.Run with it; the *)
(* goroutine that waits for the handlers in Shutdown is not waited for.    *)
ShutdownServer ==
  /\ server = "serving"
  /\ cancelled
  /\ server' = "closed"
  /\ UNCHANGED <<handler, chan, sender, item, attempt, cancelled, returned, acked, aborted, st, readers>>

(* Listening or serving fails: Relay.Run ends early, which is only logged, *)
(* and takes no more exports.                                              *)
ServeFails ==
  /\ server = "serving"
  /\ server' = "closed"
  /\ UNCHANGED <<handler, chan, sender, item, attempt, cancelled, returned, acked, aborted, st, readers>>
-----------------------------------------------------------------------------
(* The sender's select; both cases may be ready.                           *)
Receive ==
  /\ sender = "select"
  /\ chan # <<>>
  /\ item' = <<Head(chan)>>
  /\ chan' = Tail(chan)
  /\ attempt' = 0
  /\ sender' = "send"
  /\ UNCHANGED <<handler, server, cancelled, returned, acked, aborted, st, readers>>

(* Mutant: the goroutine ranges over a channel nobody closes.              *)
StopSenderNever == FALSE /\ UNCHANGED vars

StopSender ==
  /\ sender = "select"
  /\ cancelled
  /\ sender' = "stopped"
  /\ UNCHANGED <<handler, server, chan, item, attempt, cancelled, returned, acked, aborted, st, readers>>

(* An attempt; with ctx done it fails at once.                             *)
Post ==
  /\ sender = "send"
  /\ sender' = IF cancelled THEN "failed" ELSE "posting"
  /\ attempt' = IF cancelled THEN attempt + 1 ELSE attempt
  /\ UNCHANGED <<handler, server, chan, item, cancelled, returned, acked, aborted, st, readers>>

PostAcked ==
  /\ sender = "posting"
  /\ acked' = acked + 1
  /\ st' = Record(st)
  /\ item' = <<>>
  /\ sender' = "select"
  /\ UNCHANGED <<handler, server, chan, attempt, cancelled, returned, aborted, readers>>

(* An error, or an answer that is lost.                                    *)
PostFails ==
  /\ sender = "posting"
  /\ attempt' = attempt + 1
  /\ sender' = "failed"
  /\ UNCHANGED <<handler, server, chan, item, cancelled, returned, acked, aborted, st, readers>>

Retry ==
  /\ sender = "failed"
  /\ attempt < MaxAttempts
  /\ sender' = "send"
  /\ UNCHANGED <<handler, server, chan, item, attempt, cancelled, returned, acked, aborted, st, readers>>

(* SendRawWithRetry returned an error with ctx live: a counted drop.       *)
Exhaust ==
  /\ sender = "failed"
  /\ attempt >= MaxAttempts
  /\ ~cancelled
  /\ st' = RecordDrop(st, "retry_exhausted")
  /\ item' = <<>>
  /\ sender' = "select"
  /\ UNCHANGED <<handler, server, chan, attempt, cancelled, returned, acked, aborted, readers>>

(* It returned an error with ctx done: the condition of the if is false    *)
(* and the code falls through to st.Record.                                *)
RecordAborted ==
  /\ sender = "failed"
  /\ cancelled
  /\ aborted' = aborted + 1
  /\ st' = Record(st)
  /\ item' = <<>>
  /\ sender' = "select"
  /\ UNCHANGED <<handler, server, chan, attempt, cancelled, returned, acked, readers>>
-----------------------------------------------------------------------------
(* logStats, on a tick of the main loop's statsTicker.                     *)
LogStats ==
  /\ ~returned
  /\ logged' = Plus(logged, st.last)
  /\ st' = Snapshot(st)
  /\ UNCHANGED <<relay, self, report, shown, taken>>

(* self.emit takes its snapshot, on startup and on every tick; a type that *)
(* was never recorded has no entry, and nothing is sent.                   *)
SelfSnapshot ==
  /\ self \in {"snapshot", "select"}
  /\ taken' = Plus(taken, st.last)
  /\ report' = st.total
  /\ st' = Snapshot(st)
  /\ self' = IF st.total = Zero THEN "select" ELSE "send"
  /\ UNCHANGED <<relay, shown, logged>>

(* The payload goes to the self collector's channel.                       *)
SelfSend ==
  /\ self = "send"
  /\ shown' = report
  /\ self' = "select"
  /\ UNCHANGED <<relay, st, report, logged, taken>>

(* ctx.Done wins the select of emit, then of Run, or of Run alone.         *)
SelfStop ==
  /\ self \in {"select", "send"}
  /\ cancelled
  /\ self' = "stopped"
  /\ UNCHANGED <<relay, st, report, shown, logged, taken>>
-----------------------------------------------------------------------------
Cancel ==
  /\ ~cancelled
  /\ cancelled' = TRUE
  /\ UNCHANGED <<handler, server, chan, sender, item, attempt, returned, acked, aborted, st, readers>>

(* wg.Wait: the relay, the sender and the self collector have ended.       *)
Return ==
  /\ ~returned
  /\ cancelled
  /\ server = "closed"
  /\ sender = "stopped"
  /\ self = "stopped"
  /\ returned' = TRUE
  /\ UNCHANGED <<handler, server, chan, sender, item, attempt, cancelled, acked, aborted, st, readers>>

Sender == Receive \/ StopSender \/ Post \/ PostAcked \/ PostFails \/ Retry \/ Exhaust \/ RecordAborted

Self == SelfSnapshot \/ SelfSend \/ SelfStop

Next ==
  \/ \E e \in Exports : Accept(e) \/ HandleBad(e) \/ HandleMetrics(e)
  \/ ShutdownServer
  \/ ServeFails
  \/ Sender
  \/ LogStats
  \/ Self
  \/ Cancel
  \/ Return

(* The goroutines run; an attempt ends within the client timeout; a        *)
(* handler that was started ends.                                          *)
Fairness ==
  /\ WF_vars(Sender) /\ WF_vars(StopSender) /\ WF_vars(Self) /\ WF_vars(SelfStop)
  /\ WF_vars(ShutdownServer) /\ WF_vars(Return)
  /\ \A e \in Exports : WF_vars(HandleBad(e) \/ HandleMetrics(e))

Spec == Init /\ [][Next]_vars
FairSpec == Spec /\ Fairness
-----------------------------------------------------------------------------
TypeOK ==
  /\ handler \in [Exports -> {"new", "handling", "ok", "bad_request"}]
  /\ server \in {"serving", "closed"}
  /\ chan \in Seq(Exports)
  /\ sender \in {"select", "send", "posting", "failed", "stopped"}
  /\ item \in Seq(Exports) /\ Len(item) <= 1
  /\ attempt \in 0..MaxAttempts
  /\ cancelled \in BOOLEAN
  /\ returned \in BOOLEAN
  /\ acked \in Nat /\ aborted \in Nat
  /\ st \in Entries
  /\ self \in {"snapshot", "select", "send", "stopped"}
  /\ {report, shown, logged, taken} \subseteq Counters

Accepted == {e \in Exports : handler[e] = "ok"}
Dropped(c) == c.drops.buffer_full + c.drops.retry_exhausted

(* The payloads that are done with: acknowledged, cut short or dropped.    *)
Settled == acked + aborted + Dropped(st.total)

(* gnoland is answered 200 and never exports again, so every accepted      *)
(* payload is on the channel, being sent, acknowledged, counted once as    *)
(* dropped, or was being sent when ctx was cancelled, whichever handlers   *)
(* raced for the last slot.  The sent counter has every acknowledged       *)
(* payload once, and nothing else but, perhaps, those a cancellation cut   *)
(* short (whether it should have them is RecordedIsSent's question).       *)
AcceptedAccounted ==
  /\ Cardinality(Accepted) = Len(chan) + Len(item) + Settled
  /\ acked <= st.total.sent /\ st.total.sent <= acked + aborted
  /\ aborted > 0 => cancelled

(* What stats.go says of Record: it adds a sent payload.  No run checks    *)
(* this and it does not hold: RecordAborted counts one that was not sent.  *)
RecordedIsSent == st.total.sent <= acked

(* Snapshot has two readers, and whoever comes first resets what the other *)
(* would have seen.  Nothing is counted twice or lost between them: what   *)
(* was logged, what self's snapshots reset and what is pending add up to   *)
(* the totals; and the watchtower is never shown more than happened.       *)
SnapshotsAddUp ==
  /\ Plus(Plus(logged, taken), st.last) = st.total
  /\ AtMost(shown, report) /\ AtMost(report, st.total)

(* Run returns after a cancellation, whatever is on the channel.           *)
Returns == cancelled ~> returned
=============================================================================
