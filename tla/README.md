# A TLA+ model of gno-watchtower

gno-watchtower watches gnoland validators. A **sentinel** runs beside every
validator, collects (RPC answers, logs, host resources, metadata, OTLP metrics)
and posts payloads to a central **watchtower**, which authenticates them, limits
their rate, and forwards them to VictoriaMetrics and Loki. A **beacon** may sit in
between: it proxies sentinels over a Noise transport and adds what a sentry node
reports.

This directory holds TLA+ modules translated from the Go source, TLC
configurations, and TLAPS proofs. `PROJECT.json` maps every definition to the
lines it models. All paths below are relative to `src/`.

## 1. Inventory

| component | state | operations | what makes it correct |
|---|---|---|---|
| watchtower `auth` | token map, failure record per IP, last sweep | ban check + sweep, lookup, recordFailure, recordSuccess, Reload | bans earned and effective; requests served under one loaded table |
| watchtower reload loop (`cmd/watchtower`) | signal channel of one, configuration file | SIGHUP, load, apply | no signalled edit is lost; a bad file changes nothing |
| watchtower `ratelimit` | bucket per validator | allow | burst + refill bounds the admitted requests |
| watchtower `handlers` | none of their own | permission check, read, forward, record, answer | only permitted payloads stored; a 200 means stored |
| watchtower `forwarder` | none of its own | extraction of metric samples, Loki push | the stored series say what the payloads say, at the time they were collected; whole sets; pushes Loki takes |
| watchtower `stats`, `metrics` | counters | Record, Snapshot | counters move with the answers |
| sentinel `app`, `sender.Buffer` | channel and drop-oldest buffer per collector, the slice being flushed | collect, wire, flush, drain, return | payloads accounted for, in order, at least once; Run returns |
| sentinel `sender` | attempt, backoff, Retry-After wait | post, retry | waits kept and capped; retry returns |
| sentinel `otlp` | channel, HTTP handlers, sender goroutine | handleMetrics, send, shutdown | what is answered 200 is queued, sent, or counted once as dropped |
| sentinel `rpc`, `delta` | hashes, last height, last refresh times | one call after the other, emit | what was emitted last is what was answered last; blocks in order, refreshes kept |
| sentinel `logs` | line channel, batch per level, byte count | tail, reconnect, accumulate, flush | lines in order, none waits forever |
| sentinel `metadata` | file watch, hash, the values read so far | watch, tick, forced tick, read key by key, emit | every reported write noticed; the watchtower ends up with the configuration |
| sentinel `resources` | hashes | poll host and container | as `rpc`: changes go out, usable values |
| sentinel `stats`, `self` | totals and counts since the last snapshot, per type | Record, RecordDrop, Snapshot by two readers | every count is seen once |
| `beacon` server | Serve's loop, handlers in flight | accept, read, transform, post, shutdown | transparent; ends when cancelled |
| `beacon` augmenter | `lastAugmentAt` | check, fetch, inject | what the sentinel sent survives any failure; the forced augmentation is not used up for nothing |
| `pkg/noise` listener | results channel, handshakes, closed flag, stopCh | accept, handshake, publish, close | only authorized peers; Close wakes Accept |

How they interact. A collector goroutine sends on its channel; a `wireBuffered`
goroutine moves payloads into the collector's `Buffer`; the single main loop of
`app.Run` drains one buffer at a time and posts with retries. OTLP has its own
channel and sender goroutine. The watchtower runs each request in a goroutine,
which takes `Authenticator.mu` twice and `tokensMu` once, the limiter's lock once,
then the statistics' lock. A reload goroutine swaps the token map. The sentinel
takes a 200 as the end of its responsibility for a payload. With a beacon in between,
the sentinel's connection is a Noise connection to the beacon's listener; each
request becomes one POST to the watchtower, and the beacon passes the answer back.

What is hard: requests that overlap a ban, its expiry, the sweep or a reload;
SIGHUPs that coalesce; answers that are lost after a payload was stored;
overflow while a flush is retrying; cancellation at every select; the delta filter
over calls that fail, and over payloads that are lost after their hash was stored; a
flush that is interrupted half way; a file that changes while it is read key by key;
posts that arrive late, twice or out of order at a store that keeps time; two
critical sections with fetches between them; closing a listener with handshakes
running. `PROJECT.json` lists these under `hazards`, each at its line with the
properties that catch it.

## 2. Modules

| module | models | composed of |
|---|---|---|
| `Auth` | `internal/watchtower/auth/auth.go` | |
| `ConfigReload` | the SIGHUP goroutine of `cmd/watchtower/main.go`, `config.Load` | |
| `Watchtower` | handlers, rate limiter, forward outcomes, stats, metrics | extends `Auth` |
| `PayloadQueue` | abstract: a lossy FIFO that delivers at least once | |
| `Pipeline` | `internal/sentinel/app/run.go`, `sender/buffer.go` | implements `PayloadQueue` |
| `Retry` | `retry` and `post` of `sender/sender.go`, with time | |
| `Stats` | `stats/stats.go`: the counters of one type | |
| `OtlpRelay` | `otlp/relay.go`, the OTLP goroutines of `app/run.go`, both readers of the statistics (`app/run.go`, `self/collector.go`) | uses `Stats` |
| `RpcCollector` | `rpc/collector.go`, `rpc/client.go`, `delta/delta.go` | |
| `LogCollector` | `logs/collector.go`, `logs/docker.go`, `logs/source.go` | |
| `MetadataCollector` | `metadata/collector.go` | |
| `Extract` | the extractors of `forwarder/rpc.go`, `forwarder/metrics.go` and the Loki push of `forwarder/forwarder.go`, as operators | |
| `Forwarder` | sentinels (`rpc`, `resources`, `delta`), lossy posts, `ForwardRPC`, `ForwardMetrics`, `ForwardLogs`, what a dashboard sees | extends `Extract` |
| `NoiseListener` | `pkg/noise/listen.go` | |
| `Beacon` | `beacon/server/server.go`, `beacon/augment/augment.go`, `beacon/app/run.go` | extends `NoiseListener` |
| `WatchtowerProofs` | the proofs of `Auth`, `Watchtower` and `ConfigReload` | extends all three |
| `SenderProofs` | the proofs of `OtlpRelay` and `Retry` | extends both |
| `PipelineProofs`, `RpcCollectorProofs`, `LogCollectorProofs`, `MetadataCollectorProofs`, `BeaconProofs`, `ForwarderProofs` | the proofs of a module | extend the module named |
| `MCWatchtower`, `MCPipeline`, `MCRetry`, `MCForwarder`, `MCMetadataCollector`, `MCBeacon` | constants for TLC | extend the module named |

Correspondence.

* **Auth.** One action per critical section, with the local code up to the next:
  `PassBanCheck`/`RejectBanned` (isBanned with maybeSweep), `LookupToken`,
  `RecordFailure`, `RecordSuccess`; `Reload` swaps the table. `pc[r]` is where
  request `r`'s goroutine is. `ips` is the map of records; a missing record is
  `NoRecord`, which behaves like the zeroed one recordFailure creates. `loaded` and
  `seen` are history: the table in force, and the tables in force since a
  request's ban check.
* **ConfigReload.** `hup` is the channel of capacity one; `Sighup` is the
  non-blocking send of os/signal. `LoadSucceeds` and `Apply` are separate steps:
  the file may be edited in between.
* **Watchtower** continues a request at `pc = "next"`. `RateLimit`, `Forbid`,
  `ReadBody`, the forward actions, `RecordStats` and `RecordReceived` follow the
  order of `handlePayload`. `Forward` has three outcomes, one of which stores the
  payload and loses the answer.
* **Pipeline.** `out[k]`, `buf[k]` and `items` are the channel, the buffer and the
  slice `Drain` returned. `Push` and the `RecordDrop` that follows it are one step:
  nothing else observes the moment between them. `main` is the main loop's place,
  `phase` tells the shutdown drain from the ordinary flushes, `expired` is
  drainCtx. Sends and drops are counted per collector: the code records a log
  payload that overflows under the type "log" (`run.go:146`) and one that is sent or given
  up under "logs" (`:323`, `:326`), which the model does not tell apart. `flush`,
  `flushLogs` and `flushMetrics` are one text, three times. The error of `json.Marshal` in a flush is left out: payloads are
  structs of raw JSON that was decoded before.
* **Retry** times what `Pipeline` leaves untimed. Time jumps to the next event.
* **Stats, OtlpRelay.** An operator of `Stats` is the critical section of the method
  of its name. Handlers race for the channel; the fall-through of `run.go:172` is the
  action `RecordAborted`. `acked` and `aborted` are history: the exports the watchtower
  acknowledged, and those whose send the cancellation aborted. `ServeFails` is a server
  that does not listen or stops serving, which is only logged. The stats ticker and the self collector take snapshots at any
  time; what each has read is added up, beside the totals.
* **RpcCollector.** One action per call; the node's height moves between any two,
  and any call may fail. The contents of net_info, dump_consensus_state and
  validators are chosen when the call is answered. A status that does not decode counts
  as height 0 (`parseHeight`) and goes through the filter like any other. An emission that
  the cancellation interrupts is dropped and the loop goes back to its select (`Abandon`,
  noted in the history `abandoned`). A tick of the clock is long
  against a collect. `genesisFailed`, which picks a log level, is left out.
* **LogCollector.** `tail` and `pos` are the Tail goroutine's place and the
  scanner's; `todo` the levels a flush has still to send, in any order (Go's map
  order). A line carries its level, the connection that read it and its place in the
  log, and counts one byte. `emitted` is recorded until a cancellation, so
  that re-sent levels do not make the state grow without bound.
* **MetadataCollector.** A configuration is a partial function from keys to typed
  values; `Sprintf` keeps the text and loses the type. `ReadKey` opens the file as it
  is at that step, or runs a command; either may fail, and then the key is left out
  (`missed`, and once the hash is stored `gaps`, are history). A closed channel of the
  watcher ends Run; an error on it is logged and changes nothing. `Write` is reported by the watch;
  `Replace` (a rename over the file) takes the watch away. Both tickers may fire at any
  select. `view` is what the watchtower last got: `Send` loses a payload behind the
  channel now and then.
* **Extract.** One operator per `append...` function, with its early returns. A raw JSON
  value that does not decode is `[ok |-> FALSE]`; a number that is no int64 is `NotInt`;
  unsigned arithmetic is modulo `Word`. Samples are a set, because an import has no
  order. Labels that always come together are one label. `toLokiPush` is the set of
  orders the unstable `slices.SortFunc` may leave.
* **Forwarder.** A poll passes its sample through the delta filter (`Filtered` are the
  keys it holds back); `rpc_reachable`, blocks and genesis pass it by. The validators,
  which are filtered or refreshed past the filter, are part of an answer when they go out:
  `RpcCollector` says when that is. `up` is history: the polls that found
  a node caught up, whatever the filter then did with the status. A
  payload stays in `flight` until its sentinel learns that it was stored or gives up,
  and may be forwarded in between any number of times, in any order. `vm` is a set of
  samples: VictoriaMetrics does not care when they arrive.
* **NoiseListener, Beacon.** `conn[c]` is where connection `c` is between TCP accept and
  Serve; Close is its three steps in `closing`, the flag, stopCh and the socket. A handler's
  `stage` is cut at the two critical sections of the augmenter and at the post. The
  parallel fetches are one step that returns any subset: they share nothing and are all
  awaited. `exited` freezes the model: the process is gone with its handlers.

Definitions whose comment begins with "Mutant" are wrong on purpose: each is a
plausible bug of the definition after it, used to show that a property can fail.

## 3. Runs

`tlc -config <cfg> <module>` in this directory.

| run | module | checks |
|---|---|---|
| `MCBanAndLimit` | `MCWatchtower` | `BanJustified`, `FailuresBounded`, `GuessesBounded`, `RecordsFreshAtCleanup`, `RateBound`, `ForgetsOnlyStaleOrAccepted` |
| `MCWatchtower` | `MCWatchtower` | `AuthTypeOK`, `ServedUnderLoadedConfig`, `StoredAsPermitted`, `AckedIsStored`, `CountsMatchAnswers` |
| `MCConfigReload` | `ConfigReload` | `ReloadNotLost`, `EditTakesEffect` |
| `MCPipeline` | `MCPipeline` | `TypeOK`, `Accounted`, `InOrder`, `ImplementsFifo`, `Returns`, `Settles` |
| `MCRetry` | `MCRetry` | `WaitsBeforeRetry`, `HoldsLoopBounded`, `RetryReturns` |
| `MCOtlpRelay` | `OtlpRelay` | `AcceptedAccounted`, `SnapshotsAddUp`, `Returns` |
| `MCRpcCollector` | `RpcCollector` | `ViewCurrent`, `BlocksInOrder`, `ValidatorsStayFresh` |
| `MCLogCollector` | `LogCollector` | `LinesInOrder`, `LinesEmitted`, `RunReturns` |
| `MCMetadataCollector` | `MCMetadataCollector` | `FilterKnowsFile`, `ViewConverges` |
| `MCForwarder` | `MCForwarder` | `OnlineAsPolled`, `SetNeverPartial`, `WorkingSetBounded`, `PushOrdered` |
| `MCBeacon` | `MCBeacon` | `Transparent`, `AugmentsWhenDue`, `BeaconReturns` |
| `MCShutdown` | `MCPipeline` | violation of `ShutdownSendsBuffered` |

What the newer runs show:

* `MCMetadataCollector`: with the watch in place no reported write is missed, although
  a read is not atomic and a forced emission does not store its hash; what the filter may
  lack are the keys whose read failed in the last unforced collection. Whatever is torn,
  missed, lost or replaced without an event, the force ticker repairs.
* `MCForwarder`: samples carry the payload's own time, so a post that comes late or
  twice changes nothing it should not. A dashboard shows a validator online only by a poll
  within its lookback that found it caught up. The converse is weaker: such a poll may be
  missing because its payload did not arrive, or because the sentinel had found the same
  before and its filter held the status back. A validator set is stored whole
  or not at all; the working set does not wrap; every push is in order and in
  Loki's window.
* `MCBeacon`: nothing that fails between the listener and the watchtower loses, alters
  or doubles a request, except the end of the process, which the sentinel does not take
  for a success; a request is left without sentry data only within ForceInterval of a real
  augmentation; a cancelled beacon ends.
* `MCOtlpRelay`: every export answered 200 is on the channel, being sent, acknowledged,
  counted as dropped, or was aborted by the cancellation; what is recorded as sent is at
  least what was acknowledged, and exceeds it by at most the aborted send. What the two
  readers of Snapshot see adds up to the totals.
* `MCRpcCollector`: what was emitted last of a filtered endpoint is what it answered last,
  with two exceptions that the property names: a validator set that returns to the hash
  the filter holds after a refresh, which stores no hash, emitted another one; and
  anything after a payload was given up at the cancellation.

Bounds, and why they are enough.

* `MCBanAndLimit`: five requests of one address, at most two of them between ban
  check and record at a time, threshold 2, duration 1, four ticks. That is a ban, the
  extension of a ban by a request in flight, its expiry and a second round. A token
  bucket of one makes overlapping requests compete. Requests are symmetric.
* `MCWatchtower`: two requests, two tables that move a token to another validator,
  change permissions and the log level; threshold 1; rpc payloads with and without samples, logs that are malformed or
  below the level, and auth_check: the handlers of metrics and OTLP share this path. A third
  table or request adds no new pair of interleaved critical sections.
* `MCConfigReload`: three tables and an invalid file; edits and signals are
  unbounded, the state space is finite.
* `MCPipeline`: two collectors, one with three payloads and one with a single payload,
  channel 1, buffers of 2, two attempts that are acknowledged or left unanswered (and
  refused once the context is done): slices of two, overflow while the loop retries the
  other collector's payload, later flushes, and one collector waiting behind the other.
  Overflow of a buffer whose own slice is being sent needs a fourth payload, which is
  out of reach together with liveness; `Accounted`, `InOrder` and `ImplementsFifo` are
  proved for any number.
* `MCRetry`: the code's own constants; Retry-After 0, 1, over the cap and negative;
  POSTs that take no time or the whole client timeout.
* `MCOtlpRelay`: three exports for a channel of one: one sent, one queued, one
  dropped. The readers snapshot at any time, any number of times.
* `MCRpcCollector`: heights 0 to 2, so the node can fall back and grow again, and a
  status without a height; two validator sets, so that one can come back; all intervals 1 with one tick, so each refresh comes due once.
  net_info and dump_consensus_state have one content each: status exercises the
  changes that the filter must let through, with the same code.
* `MCLogCollector`: two lines read by up to two connections, batch size 2, every
  kind of line, a lookback shorter than the clock's range.
* `MCMetadataCollector`: two keys, so that a read can be torn; two changes, so that a
  value can change and change back; seven contents, among them an empty and a cut-off one
  and values of two types with one text; one failed read, of the file or by a command, and
  one lost payload, each at any place.
* `MCForwarder`: two payloads, of one validator or of two, and two ticks. The properties
  relate at most two payloads. The answers and samples cover each early return of the
  extractors; Lookback, PastSkew and FutureSkew (2, 2, 1) have both sides within reach;
  Word is 8, less than a sum of two network counters.
* `MCBeacon`: two connections, for the two critical sections of the augmenter; a results
  channel of one, so that it can be full at Close; one authorized key of two; one sentry
  key, which is fetched or not; a clock that reaches the forced interval. Fetches that
  fail in part are in the theorems only.

Only `MCConfigReload` checks for deadlock. The other systems stop by design: requests
end, `Run` and `retry` return, or the bounds are used up.

### Fairness

* `ConfigReload`: WF of the goroutine; file read and swap return.
* `Pipeline`: weak fairness of the main loop, of each buffer's tick, of ctx.Done in
  the select and of the goroutines. The main loop blocks only in its select and in
  wg.Wait; an attempt ends within the HTTP client's 30 s and a backoff within 30 s;
  tickers keep firing. Weak fairness of a tick is less than Go's random choice among
  ready cases gives, and it is enough here because each flush ends and a collector's
  payloads are bounded. Nothing makes a collector emit or ctx be cancelled.
* `OtlpRelay`: the same, for its goroutines; started handlers end.
* `Retry`: WF of its steps: timers fire, the client has a timeout.
* `MetadataCollector`: WF of the loop's own steps, SF of the force ticker: it keeps
  firing, and Go's select picks among ready cases at random.
* `Beacon`: WF of Shutdown, of the steps of Close, of Serve's loop and of app.Run's
  return. Nothing is assumed of peers, handshakes, sentries or the watchtower.
* `LogCollector`: WF of the flush (the consumer of `out`, `wireBuffered`, never
  blocks), SF of each case of the loop's select. The source owes nothing.

### Finding

`MCShutdown` (`app/run.go:297`). A flush that is under way when ctx is cancelled has
already taken its slice from the buffer. Its send fails, the flush returns, and the
drain that follows finds the buffer without those payloads. They are neither sent nor
counted, although the watchtower accepts everything and the drain has time.
`run_test.go:215` says "After shutdown, all buffered items must have been sent."

Two further claims of the repository are definitions of the modules that no run lists,
because they do not hold. TLC refutes each when it is put into the INVARIANTS of the run
named; the property of that run says what holds instead.

* `RecordedIsSent` (`MCOtlpRelay`). `stats.go:70`: "Record adds a sent payload". An OTLP
  send that fails because ctx is done falls through `run.go:172` to `st.Record`, where
  `flush` (`:297`) returns without recording. Trace: an export is queued and received, ctx
  is cancelled, the post fails, the export is recorded as sent. `AcceptedAccounted` allows
  for the aborted send and no more.
* `MissingIsOffline` (`MCForwarder`). `forwarder/rpc.go:136`: "missing" == "not online",
  and `docs/data-collected.md:82` the same. A node whose status does not change, as on a
  halted chain, is held back by the delta filter: its presence ages out, or never shows when
  the first payload was lost, although every poll finds it up and arrives. Trace: a poll
  finds the node caught up and its payload is lost, the next poll finds the same and its
  payload, without the status, is stored. `OnlineAsPolled` names this case.

Observations met while modelling, without a run of their own:

* `run.go:24` sizes buffers for "a few minutes of watchtower downtime"; a payload
  under retry is dropped after about 15 s of refused connections, however much
  room its buffer has.
* `run.go:72` says no in-flight request outlives Run; `srv.Shutdown` of the OTLP
  relay runs in a goroutine nobody waits for.
* `ratelimit.go:13` bounds the limiter map by the registered validators; a reload
  that removes one leaves its bucket.
* `rpc/collector.go:198` says rpc_reachable 0 means every call failed; only the three
  polled calls count, and the node may come up before the later ones.
* The refreshes of `rpc/collector.go:164-169` and `metadata/collector.go:168` emit a value
  without storing its hash; when the value changes back to the one last stored it is held
  back, and the watchtower keeps the other one, until the next refresh. `ViewCurrent` names
  this case of the validators; of status, net_info and dump_consensus_state, which are not
  refreshed, it allows no such exception.
* `rpc/collector.go:209`: a payload the cancellation interrupts is dropped after its hashes
  were stored; a poll that the select still starts afterwards holds those values back.
* `run.go:146` names the log type "log" for overflow, `run.go:323` "logs" for the rest: the
  two do not add up under one name.
* `logs/docker.go:97-102`: after an oversized line Tail returns; with `resume_lookback`
  0 the reconnection starts at the end of the log and the lines behind it are lost. With
  a lookback (60 s by default) they are read, but not before the oversized line has
  left the window; until then every reconnection sends the lines before it again.
* `stats.go:16` means the per-snapshot counters for the log line ("this minute we sent");
  the self collector's Snapshot resets them too, so the line shows a part.
* `rpc/collector.go:153`: lastHeight advances before /block is fetched; when the call
  fails, that block is not fetched again.
* `forwarder/forwarder.go` sorts a push with `slices.SortFunc`, which is not stable:
  lines of equal times may change places.
* `beacon/server/server.go:111` promises a graceful shutdown with a deadline, and
  `beacon/app/run.go:2` that Run waits for it. Serve returns as soon as Shutdown begins,
  nobody waits for Shutdown, and requests in flight are cut off.
* `beacon/augment/augment.go:174`: lastAugmentAt is set before the payload is posted.
  When the post fails, the sentinel's retry is not augmented again by force.
* `noise/listen.go:91`: any error of raw.Accept ends the loop, but http.Server.Serve
  retries after a temporary one (too many open files) and then waits for good.
* `noise/listen.go:145`: "In-flight handshakes observe the close via stopCh and drop their
  results"; the select may also queue the connection, which nobody closes then.

## 4. Proofs

`tlapm <module>`. Proved for every value of the constants that satisfies the
module's `ASSUME`s (which TLC evaluates in the runs). Each theorem is of the
component's specification; the property is the one its run checks (`ReloadTypeOK` and
`LogCollector`'s `TypeOK` are in no run's list: proofs only).

| module | theorem | states |
|---|---|---|
| `WatchtowerProofs` | `AuthTypeCorrect` | `[]AuthTypeOK` |
| | `ServedCorrectly` | `[]ServedUnderLoadedConfig` |
| | `BansAreJustified` | `[]BanJustified` |
| | `FailuresStayBounded` | `[]FailuresBounded` |
| | `GuessesStayBounded` | `[]GuessesBounded` |
| | `SweepBoundsMap` | `[]RecordsFreshAtCleanup` |
| | `ForgettingIsEarned` | `ForgetsOnlyStaleOrAccepted` (action property) |
| | `ImplementsAuth` | `Spec => AuthSpec`: the request path implements the middleware |
| | `StoringIsPermitted` | `[]StoredAsPermitted` |
| | `AcknowledgedIsStored` | `[]AckedIsStored` |
| | `RateStaysBounded` | `[]RateBound` |
| | `BooksAreExact` | `[]CountsMatchAnswers` |
| | `ReloadTypeCorrect`, `ReloadsAreNotLost` | `[]ReloadTypeOK`, `[]ReloadNotLost` |
| `PipelineProofs` | `PipelineTypeCorrect`, `PayloadsAccounted` | `[]TypeOK`, `[]Accounted` |
| | `PipelineIsFifo` | `ImplementsFifo` (refinement of `PayloadQueue`) |
| | `DeliveryInOrder` | `[]InOrder` |
| `SenderProofs` | `RetriesWait`, `RetryTimeBounded` | `[]WaitsBeforeRetry`, `[]HoldsLoopBounded` |
| | `AcceptedIsAccounted`, `SnapshotsNeverLose` | `[]AcceptedAccounted`, `[]SnapshotsAddUp` |
| `RpcCollectorProofs` | `ViewIsCurrent` | `[]ViewCurrent` |
| | `BlocksEmittedInOrder`, `ValidatorsAreFresh` | `BlocksInOrder`, `ValidatorsStayFresh` (action properties) |
| `LogCollectorProofs` | `LogTypeCorrect`, `LinesStayInOrder` | `[]TypeOK`, `[]LinesInOrder` |
| `MetadataCollectorProofs` | `NoWriteMissed` | `[]FilterKnowsFile` |
| `ForwarderProofs` | `PresenceAsPolled` | `[]OnlineAsPolled` |
| | `SetIsNeverPartial` | `[]SetNeverPartial` |
| | `WorkingSetIsBounded` | `[]WorkingSetBounded` |
| | `PushIsOrdered` | `[]PushOrdered` |
| `BeaconProofs` | `BeaconIsTransparent`, `AugmentationIsDue` | `[]Transparent`, `[]AugmentsWhenDue` |

Assumptions: a positive ban threshold and duration, rate and burst; tables in which no
two validators share a token (both enforced by `config.validate`); finite sets of
requests and exports; positive capacities, batch sizes, attempt limits and refresh
intervals; an initial backoff within the cap, and attempts that take at most some longest time (the
HTTP client has a timeout); request bodies whose `data` is an object, null or absent
(what the augmenter tells apart); configuration keys as a sequence of different strings; a status in
rpc payloads only; uint64
docker counters and log times that are integers.

The inductive invariants, and why they are needed.

Watchtower:

* `SeenInv`: for every request in flight the table now in force is among those in
  force since its ban check. `ServedUnderLoadedConfig` alone says nothing of a
  request before its lookup; the lookup needs this.
* `RecordInv`, per address: a record counts at most the requests answered 401; it is
  below the threshold without a ban and at it with one; a ban expires a duration
  after the last failure; and with a ban, the failures plus the requests of that
  address in flight stay under the bound. The last part is why `FailuresBounded` is
  inductive: a request in flight may still add a failure, and a banned address gets
  no new one.
* `FreshInv` adds that the last cleanup is not in the future.
* `GuessInv`: an address that never succeeded has had at most an allowance
  (threshold - 1 + requests in flight) per ban period that has passed, plus what its
  record counts. A record is forgotten only when a period has passed since its last
  failure, so the two terms trade places and `GuessesBounded` follows.
* `HandlerInv`: a request past the permission check may post what it carries, an
  accepted one is stored or needs no storing, and every stored payload carries the name
  and permission of its request. A reload changes none of this, because the middleware
  put name and permissions into the request: `ImplementsAuth` carries
  `ServedCorrectly` over, and the two together give `StoredAsPermitted`.
* `LimitInv`: requests admitted plus tokens left are at most the burst plus the refill
  up to the bucket's last use. The bound on admitted requests alone is not inductive,
  because the tokens left decide how many may follow.
* `CountInv`: the property and the types of the counters. It is inductive over
  `HandlerInv` alone: a request past the limiter keeps its name for good, so no reload
  moves it from one count to another. What takes work is that each step changes one
  counter and the one set of requests it counts.
* `SignalPending`: a signalled edit is queued, about to be read, about to be applied,
  or in force; it also fixes where the goroutine is, which `ReloadNotLost` does not.

Sentinel:

* `ControlOK` (with `TypeOK`, `MainOK`): the main loop holds a slice exactly while it
  sends, has an attempt left while it posts, and drains only after a cancellation.
  `AccountInv` counts a collector's payloads by place; a flush that returns keeps the
  sum only because of `ControlOK`.
* `PipelineIsFifo` maps the flushed slice, the buffer and the channel, in this order, to
  the abstract queue, and shows of each action which queue step or stutter it is.
  `OrderInv` (delivered before queued, both in order of emission) is then proved over the
  steps of `PayloadQueue`, without a look at the pipeline.
* `WaitInv`: a backoff that is due is still to come, and a Retry-After that replaces it
  is over. `BudgetInv`: `i` attempts take at most `i` rounds of an attempt and a capped
  wait, less one wait where it is still due; Retry-After and backoff never both count.
* `AccountInv` of the relay: the sender holds an export exactly while it sends; an aborted
  send is counted beside the acknowledged ones, and exists only after a cancellation.
  `SumInv`: what was logged, what the self collector took and what is pending add up to
  the totals, counter by counter; a Snapshot moves a term from one side to the other.
* `ViewInv`: between the calls of a collect the filter's hash is the last answer, and the
  payload under way, or else the last one emitted, shows it; of the validators, which the
  refresh puts into a payload without the filter, the payload or the hash is the last
  answer. After an abandoned payload nothing is claimed. `BlockInv`: `lastHeight`
  bounds the emitted blocks, strictly so from its advance until the block is emitted.
  `FreshInv`: the time that decides on a refresh is when a payload last took the
  validators, by either of the two ways they enter one.
* `ReadInv`: every line received was read by an earlier connection, or by this one at or
  before the scanner's position; that a reconnection goes back in the log does not hurt,
  because its lines carry a later connection. `ChainInv`: emitted, waiting and queued
  lines make up those received; a line moves from one of the three to the next, and a
  flush that started owns the batch until each level is sent. The lines of one level on
  the channel are a recursive function (`LinesOf`). That this function exists and is
  unique, and what it does to an appended or a removed line, is proved by induction on
  the length: `SetInduction`, stated with a set of numbers instead of a predicate, which
  follows from the least element of a set of natural numbers (`LeastNatural`).
* `FilterInv`: while no event waits the file does not change, so a read holds what it has
  come to of it, less the keys it missed, and ends in the filter; a forced read, which does not store its hash, begins only
  when the filter has the file, or with an event that a later select takes.

Forwarder and beacon:

* `PathInv`: a payload is known by its kind, validator and time, and the database is the
  union of the samples of the payloads it took. Repeated and late posts drop out of the
  argument here; what is left are lemmas on which samples each extractor can yield.
  `PushOK` is proved of `toLokiPush` once, for any clock and batch.
* `UpInv`: a caught-up status that the filter knows was found by an earlier poll; each poll
  that found one made a payload that carries it, or was not the first to. The second part
  needs the first at the step where the filter holds a status back.
* `TransparentInv`: what a handler is about to forward is all the sentinel sent, and of
  the rest only what was fetched; a handler posts and answers in its last step only; no
  unauthorized peer has a handler. `AugmentInv`: `lastAugmentAt` is the start or the time
  of a real augmentation.

The bound on requests in flight, `MaxInFlight`, is a constant and the code has no such
limit: the theorems say how far a given amount of concurrency can stretch the
threshold. The other bounds (`MaxTime`, `MaxItems`, `MaxHeight`, `MaxPayloads`,
`MaxWrites`, ...) appear in guards and type invariants only and may be any natural number.

Only model-checked:

* liveness (`EditTakesEffect`, `Returns`, `Settles`, `RetryReturns`, `LinesEmitted`,
  `RunReturns`, `ViewConverges`, `BeaconReturns`): the prover does not handle fairness
  and ENABLED;
* what folds compute, such as the number `TotalPower` yields: `SetNeverPartial` is proved
  for the sum of the stored members, whatever it is, and TLC evaluates it in `MCForwarder`.

## 5. Plan

Done, in order of importance: the watchtower's request path and bans, its reloads; the
sentinel's pipeline with its abstract specification, the retries, the OTLP path with
the statistics; the RPC, log and metadata collectors; the forwarder's conversions from
poll to dashboard; the beacon with its listener; proofs of both refinements and of every
safety property of the passing runs, invariants and action properties alike. What is
left to TLC is liveness.

Left to model: the framing and locks of a Noise connection (`pkg/noise/conn.go`);
`RpcCollector` composed with `Pipeline` (how many ticks a dropped payload leaves the
watchtower with an old value; `MetadataCollector` shows the pattern with a loss behind
the channel); the rewriting of OTLP exports (`otlp/filter.go`, `ForwardOTLP`).

## 6. Not modelled

The doctors, configuration files and their generation, the command lines, the health
server and the shared packages keep no state that outlives a call. TLS, HTTP framing,
Noise cryptography, x/time/rate, gopsutil, fsnotify, the Docker and journald clients,
VictoriaMetrics and Loki are external: what the code relies on is an outcome of an
action. The framing of a Noise connection (`conn.go`) and `Dial` are taken for a
reliable stream. The journald source differs from the Docker one without a lookback
only in how it reads. The rewriting of an OTLP export, on either side, is one outcome.
Payload contents are reduced to what the properties tell apart.
