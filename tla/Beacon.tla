------------------------------- MODULE Beacon -------------------------------
(***************************************************************************)
(* The beacon (internal/beacon): an HTTP server on the Noise listener that *)
(* forwards each request of a sentinel to the watchtower, after the        *)
(* augmenter has added what the sentry node says to /rpc payloads.         *)
(* Requests run concurrently and share lastAugmentAt.  app.Run ends with   *)
(* Serve, and the process with it, requests in flight included.            *)
(*                                                                         *)
(* A connection carries one request, named after it.  The data of a        *)
(* payload is a map, of which the keys matter, null, or none when the      *)
(* payload does not decode or has no data.                                 *)
(***************************************************************************)
EXTENDS NoiseListener

CONSTANTS
  Bodies,          \* requests: records [path, data, keys]
  SentryKeys,      \* what the augmenter is configured to fetch
  ForceInterval,   \* forceInterval, in ticks
  MaxTime          \* bound: last tick of the clock

ASSUME BeaconAssumption ==
  /\ ForceInterval \in Nat \ {0}
  /\ MaxTime \in Nat
  /\ \A b \in Bodies : b.data \in {"map", "null", "none"}

VARIABLES
  now,             \* the clock
  cancelled,       \* ctx is done
  serve,           \* http.Server.Serve: accept or returned
  shutdown,        \* the shutdown goroutine has called srv.Shutdown
  exited,          \* app.Run has returned, and main with it
  body,            \* what each request carries
  stage,           \* where its handler is
  got,             \* what its fetches returned
  out,             \* the keys of the data it forwards
  answer,          \* the sentinel's answer
  lastAugmentAt,   \* Augmenter.lastAugmentAt
  skippedAt,       \* history: when a request was found not to need sentry data
  augmentedAt,     \* history: when sentry data was added
  upstream         \* history: what the watchtower took, by request

requestVars == <<body, stage, got, out, answer, lastAugmentAt, skippedAt, augmentedAt, upstream>>
processVars == <<cancelled, serve, shutdown, exited>>
vars == <<listenVars, processVars, requestVars, now>>
-----------------------------------------------------------------------------
Init ==
  /\ ListenInit
  /\ now = 0
  /\ cancelled = FALSE
  /\ serve = "accept"
  /\ shutdown = FALSE
  /\ exited = FALSE
  /\ body \in [Conns -> Bodies]
  /\ stage = [c \in Conns |-> "none"]
  /\ got = [c \in Conns |-> {}]
  /\ out = [c \in Conns |-> {}]
  /\ answer = [c \in Conns |-> "none"]
  /\ lastAugmentAt = 0                    \* New sets it to the current time
  /\ skippedAt = [c \in Conns |-> {}]
  /\ augmentedAt = {}
  /\ upstream = [c \in Conns |-> <<>>]

Tick ==
  /\ now < MaxTime
  /\ now' = now + 1
  /\ UNCHANGED <<listenVars, processVars, requestVars>>

Cancel ==
  /\ ~cancelled
  /\ cancelled' = TRUE
  /\ UNCHANGED <<listenVars, serve, shutdown, exited, requestVars, now>>

Listener == ListenerStep /\ UNCHANGED <<processVars, requestVars, now>>
-----------------------------------------------------------------------------
(* srv.Shutdown tells Serve and closes the listener.  It then waits for    *)
(* the handlers, but nothing waits for it.                                 *)
Shutdown ==
  /\ cancelled
  /\ ~shutdown
  /\ shutdown' = TRUE
  /\ UNCHANGED <<listenVars, cancelled, serve, exited, requestVars, now>>

(* Close, by Shutdown or, once, by Serve when it returns.                  *)
CloseListener ==
  /\ shutdown \/ serve = "returned"
  /\ CloseStep
  /\ UNCHANGED <<processVars, requestVars, now>>

(* Serve's loop: a connection gets a goroutine of its own.                 *)
ServeConn(c) ==
  /\ serve = "accept"
  /\ AcceptConn(c)
  /\ stage' = [stage EXCEPT ![c] = "read"]
  /\ UNCHANGED <<processVars, body, got, out, answer, lastAugmentAt, skippedAt, augmentedAt, upstream, now>>

(* An error ends Serve, except a temporary one, after which it accepts     *)
(* again, although the listener's loop has ended.                          *)
ServeError ==
  /\ serve = "accept"
  /\ AcceptError
  /\ serve' \in IF shutdown THEN {"returned"} ELSE {"accept", "returned"}
  /\ UNCHANGED <<cancelled, shutdown, exited, requestVars, now>>

ServeClosed ==
  /\ serve = "accept"
  /\ AcceptClosed
  /\ serve' = "returned"
  /\ UNCHANGED <<cancelled, shutdown, exited, requestVars, now>>

(* app.Run: ctx is done and the server goroutine has ended.                *)
Exit ==
  /\ cancelled
  /\ serve = "returned"
  /\ exited' = TRUE
  /\ UNCHANGED <<listenVars, cancelled, serve, shutdown, requestVars, now>>
-----------------------------------------------------------------------------
Goes(c, from, to) ==
  /\ stage[c] = from
  /\ stage' = [stage EXCEPT ![c] = to]

(* The whole body is read before anything is done, or the answer is 400.   *)
Read(c) ==
  /\ \/ Goes(c, "read", "check") /\ UNCHANGED answer
     \/ Goes(c, "read", "done") /\ answer' = [answer EXCEPT ![c] = "bad_request"]
  /\ UNCHANGED <<listenVars, processVars, body, got, out, lastAugmentAt, skippedAt, augmentedAt, upstream, now>>

(* The body goes on as it came.                                            *)
PassThrough(c, from) ==
  /\ Goes(c, from, "post")
  /\ out' = [out EXCEPT ![c] = body[c].keys]

Augmentable(c) == body[c].path = "/rpc" /\ body[c].data # "none"
HasNetInfo(c) == "net_info" \in body[c].keys
Stale == now - lastAugmentAt >= ForceInterval

(* Transform up to the fetches: net_info, or no augmentation for too long, *)
(* calls for them.                                                         *)
Check(c) ==
  /\ \/ /\ Augmentable(c) /\ (HasNetInfo(c) \/ Stale)
        /\ Goes(c, "check", "fetch")
        /\ UNCHANGED <<out, skippedAt>>
     \/ /\ Augmentable(c) /\ ~HasNetInfo(c) /\ ~Stale
        /\ PassThrough(c, "check")
        /\ skippedAt' = [skippedAt EXCEPT ![c] = {now}]
     \/ /\ ~Augmentable(c)
        /\ PassThrough(c, "check")
        /\ UNCHANGED skippedAt
  /\ UNCHANGED <<listenVars, processVars, body, got, answer, lastAugmentAt, augmentedAt, upstream, now>>

(* The parallel fetches end: each answers or fails, within the deadline.   *)
Fetch(c) ==
  /\ Goes(c, "fetch", "inject")
  /\ \E keys \in SUBSET SentryKeys : got' = [got EXCEPT ![c] = keys]
  /\ UNCHANGED <<listenVars, processVars, body, out, answer, lastAugmentAt, skippedAt, augmentedAt, upstream, now>>

Inject(c) ==
  /\ got[c] # {} /\ body[c].data # "null"
  /\ Goes(c, "inject", "post")
  /\ out' = [out EXCEPT ![c] = body[c].keys \cup got[c]]
  /\ lastAugmentAt' = now
  /\ augmentedAt' = augmentedAt \cup {now}
  /\ UNCHANGED <<listenVars, processVars, body, got, answer, skippedAt, upstream, now>>

(* Mutant: the panic is not recovered.                                     *)
InjectPanics(c) ==
  /\ got[c] = {} \/ body[c].data = "null"
  /\ IF got[c] = {}
     THEN PassThrough(c, "inject")
     ELSE Goes(c, "inject", "done") /\ UNCHANGED out
  /\ UNCHANGED <<listenVars, processVars, body, got, answer, lastAugmentAt, skippedAt, augmentedAt, upstream, now>>

(* Mutant: the time is noted before the fetches' results are looked at.    *)
InjectNothingNoted(c) ==
  /\ got[c] = {} \/ body[c].data = "null"
  /\ PassThrough(c, "inject")
  /\ lastAugmentAt' = now
  /\ UNCHANGED <<listenVars, processVars, body, got, answer, skippedAt, augmentedAt, upstream, now>>

(* Every fetch failed, or the assignment to the nil map of a null data     *)
(* panics and safeTransform recovers.                                      *)
InjectNothing(c) ==
  /\ got[c] = {} \/ body[c].data = "null"
  /\ PassThrough(c, "inject")
  /\ UNCHANGED <<listenVars, processVars, body, got, answer, lastAugmentAt, skippedAt, augmentedAt, upstream, now>>

Answered(c, a) == Goes(c, "post", "done") /\ answer' = [answer EXCEPT ![c] = a]
Taken(c) == upstream' = [upstream EXCEPT ![c] = Append(@, out[c])]

(* The watchtower's answer is passed on; 502 stands for none, which leaves *)
(* open whether it took the payload.  A request that cannot be built gets  *)
(* 500: refused too, and nothing is sent.                                  *)
Post(c) ==
  /\ \/ Answered(c, "ok") /\ Taken(c)
     \/ Answered(c, "refused") /\ UNCHANGED upstream
     \/ Answered(c, "bad_gateway") /\ (Taken(c) \/ UNCHANGED upstream)
  /\ UNCHANGED <<listenVars, processVars, body, got, out, lastAugmentAt, skippedAt, augmentedAt, now>>

Handle(c) == Read(c) \/ Check(c) \/ Fetch(c) \/ Inject(c) \/ InjectNothing(c) \/ Post(c)

Serving == ServeError \/ ServeClosed \/ \E c \in Conns : ServeConn(c)

Next ==
  /\ ~exited
  /\ \/ Tick \/ Cancel \/ Listener \/ Shutdown \/ CloseListener \/ Serving \/ Exit
     \/ \E c \in Conns : Handle(c)

Spec == Init /\ [][Next]_vars

(* The shutdown goroutine, Serve's loop and app.Run block only where they  *)
(* are disabled; nothing is asked of peers, sentries or the watchtower.    *)
FairSpec ==
  Spec /\ WF_vars(Shutdown) /\ WF_vars(CloseListener) /\ WF_vars(Serving) /\ WF_vars(Exit)
-----------------------------------------------------------------------------
TypeOK ==
  /\ conn \in [Conns -> {"none", "handshake", "ready", "queued", "accepted", "closed"}]
  /\ Len(results) <= ResultsCap
  /\ closing \in 0..3
  /\ stage \in [Conns -> {"none", "read", "check", "fetch", "inject", "post", "done"}]
  /\ lastAugmentAt \in 0..now

(* The beacon is transparent.  Whatever goes wrong in the augmentation, a  *)
(* request whose body was read is forwarded, once, with all the sentinel   *)
(* sent and besides it only what was fetched for this request; the answer  *)
(* ok means the watchtower has it; and nothing of a peer that is not       *)
(* authorized gets there.                                                  *)
Transparent ==
  \A c \in Conns :
    /\ stage[c] = "done" => answer[c] # "none"
    /\ answer[c] = "ok" => Len(upstream[c]) = 1
    /\ upstream[c] # <<>> =>
         /\ AuthorizedKeys # {} => peer[c] \in AuthorizedKeys
         /\ Len(upstream[c]) = 1
         /\ LET kept == upstream[c][1]
            IN  /\ body[c].keys \subseteq kept
                /\ kept \ body[c].keys \subseteq got[c]
                /\ kept # body[c].keys => body[c].data = "map"

(* A request goes on without sentry data only if sentry data was really    *)
(* added to some request within the last ForceInterval, or the beacon is   *)
(* that young: concurrent requests, fetches that all fail and panics never *)
(* use up the forced augmentation.                                         *)
AugmentsWhenDue ==
  \A c \in Conns : \A t \in skippedAt[c] :
    \E a \in augmentedAt \cup {0} : a <= t /\ t - a < ForceInterval

(* A cancelled beacon ends, with handshakes, a full channel, surfaced      *)
(* errors or requests outstanding.                                         *)
BeaconReturns == cancelled ~> exited
=============================================================================
