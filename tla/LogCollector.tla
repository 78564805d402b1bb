---------------------------- MODULE LogCollector ----------------------------
(***************************************************************************)
(* The sentinel's log collector (internal/sentinel/logs/collector.go) over *)
(* the Docker source (docker.go): a goroutine tails the container and      *)
(* reconnects, a channel carries its lines, and the collection loop        *)
(* groups them by level and flushes a batch when it is large or old.       *)
(*                                                                         *)
(* A line of the container's log has a kind: blank, oversized (over the    *)
(* scanner's ceiling), a level, or anything else.  A LogLine has a level,  *)
(* and the connection that read it and its place in the log stand for its  *)
(* text.  Every line counts one byte.                                      *)
(***************************************************************************)
EXTENDS Integers, FiniteSets, Sequences

CONSTANTS
  Kinds,         \* kinds of line gnoland writes
  MinLevel,      \* minLevel, a rank
  BatchSize,     \* batchSize
  ChanCap,       \* lineBufferSize
  Lookback,      \* resumeLookback, in ticks
  MaxLines,      \* bound: lines written
  MaxConnects,   \* bound: calls of Tail
  MaxStreamEnds, \* bound: times the stream ends under Tail
  MaxTime        \* bound: last tick of the clock

ASSUME LogAssumption ==
  /\ Kinds \subseteq {"blank", "oversized", "raw", "debug", "info", "warn", "error"}
  /\ MinLevel \in 0..3
  /\ BatchSize \in Nat \ {0}
  /\ ChanCap \in Nat \ {0}
  /\ {Lookback, MaxLines, MaxConnects, MaxStreamEnds, MaxTime} \subseteq Nat

VARIABLES
  log,          \* the container's log: kind and time of every line
  now,          \* the clock
  cancelled,    \* ctx is done
  tail,         \* the Tail goroutine: "backoff", "scan" or "ended"
  pos,          \* the last line the scanner has passed
  connects,     \* calls of Tail so far
  streamEnds,   \* times the stream has ended
  lineCh,       \* lineCh
  pc,           \* the loop: "select", "flush", "last_flush" or "stopped"
  accumulated,  \* accumulated
  totalBytes,   \* totalBytes
  todo,         \* levels the flush under way has still to send
  received,     \* history: lines put on lineCh at MinLevel or above, by level
  emitted       \* history: lines emitted before a cancellation, by level

tailVars == <<tail, pos, connects, streamEnds, received>>
loopVars == <<pc, accumulated, totalBytes, todo, emitted>>
vars == <<log, now, cancelled, lineCh, tailVars, loopVars>>
-----------------------------------------------------------------------------
Levels == {"debug", "info", "warn", "error"}
NoLines == [l \in Levels |-> <<>>]

LevelRank(l) == CASE l = "debug" -> 0 [] l = "info" -> 1 [] l = "warn" -> 2 [] l = "error" -> 3

(* ParseLevel over EnsureJSON: what carries no level of ours becomes info. *)
ParseLevel(kind) == IF kind \in Levels THEN kind ELSE "info"

Init ==
  /\ log = <<>>
  /\ now = 0
  /\ cancelled = FALSE
  /\ tail = "backoff"
  /\ pos = 0
  /\ connects = 0
  /\ streamEnds = 0
  /\ lineCh = <<>>
  /\ pc = "select"
  /\ accumulated = NoLines
  /\ totalBytes = 0
  /\ todo = {}
  /\ received = NoLines
  /\ emitted = NoLines
-----------------------------------------------------------------------------
(* gnoland writes a line.                                                  *)
Write(kind) ==
  /\ Len(log) < MaxLines
  /\ log' = Append(log, [kind |-> kind, at |-> now])
  /\ UNCHANGED <<now, cancelled, lineCh, tailVars, loopVars>>

Tick ==
  /\ now < MaxTime
  /\ now' = now + 1
  /\ UNCHANGED <<log, cancelled, lineCh, tailVars, loopVars>>

Cancel ==
  /\ ~cancelled
  /\ cancelled' = TRUE
  /\ UNCHANGED <<log, now, lineCh, tailVars, loopVars>>
-----------------------------------------------------------------------------
(* buildLogsOptions: Since now - lookback, or Tail "0".                    *)
ResumePoint ==
  IF Lookback > 0
  THEN Cardinality({n \in DOMAIN log : log[n].at < now - Lookback})
  ELSE Len(log)

(* Tail connects: at the start, or when the reconnect backoff is over.     *)
Connect ==
  /\ tail = "backoff"
  /\ ~cancelled
  /\ connects < MaxConnects
  /\ tail' = "scan"
  /\ connects' = connects + 1
  /\ pos' = ResumePoint
  /\ UNCHANGED <<log, now, cancelled, streamEnds, received, lineCh, loopVars>>

(* The scanner's next line; a blank one is passed over, any other waits    *)
(* for room on the channel.                                                *)
Scan ==
  /\ tail = "scan"
  /\ pos < Len(log)
  /\ LET kind == log[pos + 1].kind
         l    == ParseLevel(kind)
         line == [conn |-> connects, n |-> pos + 1, level |-> l]
     IN  /\ kind # "oversized"
         /\ IF kind = "blank"
            THEN UNCHANGED <<lineCh, received>>
            ELSE /\ Len(lineCh) < ChanCap
                 /\ lineCh' = Append(lineCh, line)
                 /\ received' = IF LevelRank(l) >= MinLevel
                                THEN [received EXCEPT ![l] = Append(@, line)]
                                ELSE received
  /\ pos' = pos + 1
  /\ UNCHANGED <<log, now, cancelled, tail, connects, streamEnds, loopVars>>

(* ErrTooLong ends the scan: Tail returns nil and the backoff begins.      *)
TooLong ==
  /\ tail = "scan"
  /\ pos < Len(log)
  /\ log[pos + 1].kind = "oversized"
  /\ tail' = "backoff"
  /\ UNCHANGED <<log, now, cancelled, pos, connects, streamEnds, received, lineCh, loopVars>>

(* The stream ends (the container restarts) or fails.                      *)
StreamEnds ==
  /\ tail = "scan"
  /\ streamEnds < MaxStreamEnds
  /\ streamEnds' = streamEnds + 1
  /\ tail' = "backoff"
  /\ UNCHANGED <<log, now, cancelled, pos, connects, received, lineCh, loopVars>>

(* ctx.Done wins a select of Tail or of the backoff.                       *)
EndTail ==
  /\ tail # "ended"
  /\ cancelled
  /\ tail' = "ended"
  /\ UNCHANGED <<log, now, cancelled, pos, connects, streamEnds, received, lineCh, loopVars>>

TailGoroutine == Connect \/ Scan \/ TooLong \/ StreamEnds \/ EndTail
-----------------------------------------------------------------------------
(* flush starts: the levels that hold lines.                               *)
BeginFlush(next, acc) ==
  /\ pc' = next
  /\ todo' = {l \in Levels : acc[l] # <<>>}

Large(bytes) == bytes >= BatchSize

(* A line from the channel: filtered, or accumulated and maybe flushed.    *)
TakeLine ==
  /\ pc = "select"
  /\ lineCh # <<>>
  /\ lineCh' = Tail(lineCh)
  /\ LET l   == Head(lineCh).level
         acc == [accumulated EXCEPT ![l] = Append(@, Head(lineCh))]
     IN  IF LevelRank(l) < MinLevel
         THEN UNCHANGED <<pc, accumulated, totalBytes, todo>>
         ELSE /\ accumulated' = acc
              /\ totalBytes' = totalBytes + 1
              /\ IF Large(totalBytes + 1) THEN BeginFlush("flush", acc) ELSE UNCHANGED <<pc, todo>>
  /\ UNCHANGED <<log, now, cancelled, tailVars, emitted>>

(* Mutant: the ticker only flushes a full batch.                           *)
BatchTimeoutIfLarge ==
  /\ pc = "select"
  /\ Large(totalBytes)
  /\ BeginFlush("flush", accumulated)
  /\ UNCHANGED <<log, now, cancelled, lineCh, tailVars, accumulated, totalBytes, emitted>>

(* The ticker fires (a flush of nothing changes nothing).                  *)
BatchTimeout ==
  /\ pc = "select"
  /\ totalBytes > 0
  /\ BeginFlush("flush", accumulated)
  /\ UNCHANGED <<log, now, cancelled, lineCh, tailVars, accumulated, totalBytes, emitted>>

(* Mutant: the loop leaves only when its batch is empty.                   *)
DoneWhenEmpty ==
  /\ pc = "select"
  /\ cancelled
  /\ totalBytes = 0
  /\ BeginFlush("last_flush", accumulated)
  /\ UNCHANGED <<log, now, cancelled, lineCh, tailVars, accumulated, totalBytes, emitted>>

(* ctx.Done: one more flush, then Run returns.                             *)
Done ==
  /\ pc = "select"
  /\ cancelled
  /\ BeginFlush("last_flush", accumulated)
  /\ UNCHANGED <<log, now, cancelled, lineCh, tailVars, accumulated, totalBytes, emitted>>

AfterFlush == IF pc = "flush" THEN "select" ELSE "stopped"

(* The payload of a level goes to out.                                     *)
SendLevel(l) ==
  /\ pc \in {"flush", "last_flush"}
  /\ l \in todo
  /\ todo' = todo \ {l}
  /\ emitted' = IF cancelled THEN emitted ELSE [emitted EXCEPT ![l] = @ \o accumulated[l]]
  /\ UNCHANGED <<log, now, cancelled, lineCh, tailVars, pc, accumulated, totalBytes>>

(* Mutant: the batch is kept after it was sent.                            *)
FlushedKeepsBatch ==
  /\ pc \in {"flush", "last_flush"}
  /\ todo = {}
  /\ pc' = AfterFlush
  /\ totalBytes' = 0
  /\ UNCHANGED <<log, now, cancelled, lineCh, tailVars, accumulated, todo, emitted>>

(* Every level is sent: the batch starts over.                             *)
Flushed ==
  /\ pc \in {"flush", "last_flush"}
  /\ todo = {}
  /\ pc' = AfterFlush
  /\ accumulated' = NoLines
  /\ totalBytes' = 0
  /\ UNCHANGED <<log, now, cancelled, lineCh, tailVars, todo, emitted>>

(* ctx.Done wins the send's select: flush returns and resets nothing.      *)
FlushInterrupted ==
  /\ pc \in {"flush", "last_flush"}
  /\ todo # {}
  /\ cancelled
  /\ pc' = AfterFlush
  /\ todo' = {}
  /\ UNCHANGED <<log, now, cancelled, lineCh, tailVars, accumulated, totalBytes, emitted>>

Flush == (\E l \in Levels : SendLevel(l)) \/ Flushed \/ FlushInterrupted

Run == TakeLine \/ BatchTimeout \/ Done \/ Flush

Next ==
  \/ \E kind \in Kinds : Write(kind)
  \/ Tick
  \/ Cancel
  \/ TailGoroutine
  \/ Run

Spec == Init /\ [][Next]_vars

(* The loop runs, the consumer of out takes payloads, and Go's select      *)
(* does not pass over a ready case forever.                                *)
FairSpec ==
  /\ Spec
  /\ WF_vars(Flush)
  /\ SF_vars(TakeLine) /\ SF_vars(BatchTimeout) /\ SF_vars(Done)
-----------------------------------------------------------------------------
Line == [conn : 1..MaxConnects, n : 1..MaxLines, level : Levels]
ByLevel == [Levels -> Seq(Line)]

(* Types, with the batch limit: totalBytes is the size of the batch, and   *)
(* before a cancellation the loop never waits on one that is large enough. *)
TypeOK ==
  /\ log \in Seq([kind : Kinds, at : 0..MaxTime]) /\ Len(log) <= MaxLines
  /\ now \in 0..MaxTime
  /\ cancelled \in BOOLEAN
  /\ tail \in {"backoff", "scan", "ended"}
  /\ pos \in 0..Len(log)
  /\ connects \in 0..MaxConnects
  /\ streamEnds \in 0..MaxStreamEnds
  /\ lineCh \in Seq(Line) /\ Len(lineCh) <= ChanCap
  /\ pc \in {"select", "flush", "last_flush", "stopped"}
  /\ accumulated \in ByLevel
  /\ totalBytes = Len(accumulated["debug"]) + Len(accumulated["info"])
                    + Len(accumulated["warn"]) + Len(accumulated["error"])
  /\ pc = "select" /\ ~cancelled => totalBytes < BatchSize
  /\ todo \subseteq Levels
  /\ received \in ByLevel
  /\ emitted \in ByLevel

(* The lines of a level in a sequence of lines, in their order.            *)
LinesOf(s, l) ==
  LET f[j \in 0..Len(s)] ==
        IF j = 0 THEN <<>>
        ELSE IF s[j].level = l THEN Append(f[j - 1], s[j]) ELSE f[j - 1]
  IN  f[Len(s)]

Before(x, y) == x.conn < y.conn \/ (x.conn = y.conn /\ x.n < y.n)

(* Until a cancellation no line Tail delivered is lost, sent twice or out  *)
(* of order: of each level, the lines emitted, those waiting in the batch  *)
(* and those on the channel are, in this order, the lines received, and    *)
(* these come in the order of the log, each once per connection.           *)
LinesInOrder ==
  ~cancelled =>
    \A l \in Levels :
      LET waiting == IF pc = "select" \/ l \in todo THEN accumulated[l] ELSE <<>>
          queued  == IF LevelRank(l) >= MinLevel THEN LinesOf(lineCh, l) ELSE <<>>
      IN  /\ emitted[l] \o waiting \o queued = received[l]
          /\ \A a, b \in DOMAIN received[l] : a < b => Before(received[l][a], received[l][b])

(* A line does not wait forever for its batch to fill: until a             *)
(* cancellation, the lines emitted catch up with those received again and  *)
(* again.                                                                  *)
LinesEmitted == []<>(cancelled \/ emitted = received)

(* Run returns after a cancellation, though its flushes may be interrupted *)
(* and start again.                                                        *)
RunReturns == cancelled ~> pc = "stopped"
=============================================================================
