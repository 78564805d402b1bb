--------------------------- MODULE NoiseListener ---------------------------
(***************************************************************************)
(* The beacon's listener (pkg/noise/listen.go): one goroutine accepts TCP  *)
(* connections, one per connection runs the Noise handshake and publishes  *)
(* the connection on a buffered channel, and Accept takes from it until    *)
(* Close closes stopCh.  A handshake is one step here: its messages touch  *)
(* no shared state, and it ends, the deadline sees to that.                *)
(***************************************************************************)
EXTENDS Naturals, Sequences

CONSTANTS
  Conns,            \* inbound connections
  PeerKeys,         \* static keys a peer may have
  AuthorizedKeys,   \* cfg.AuthorizedKeys: empty accepts every peer
  ResultsCap        \* acceptResultBuffer

ASSUME ListenerAssumption ==
  /\ AuthorizedKeys \subseteq PeerKeys
  /\ ResultsCap \in Nat \ {0}
  /\ "error" \notin Conns

VARIABLES
  peer,      \* the static key of each connection's peer
  conn,      \* none, handshake, ready, queued, accepted or closed
  results,   \* l.results
  loop,      \* the accept loop: accept, failed or ended
  closing    \* steps Close has taken

listenVars == <<peer, conn, results, loop, closing>>
-----------------------------------------------------------------------------
(* Close sets the flag, closes stopCh, then the TCP listener.              *)
ClosedFlag == closing >= 1
Stopped    == closing >= 2
RawClosed  == closing = 3

ListenInit ==
  /\ peer \in [Conns -> PeerKeys]
  /\ conn = [c \in Conns |-> "none"]
  /\ results = <<>>
  /\ loop = "accept"
  /\ closing = 0

Moves(c, from, to) ==
  /\ conn[c] = from
  /\ conn' = [conn EXCEPT ![c] = to]

authorizePeer(c) == AuthorizedKeys = {} \/ peer[c] \in AuthorizedKeys
-----------------------------------------------------------------------------
(* raw.Accept returns a connection, whose handshake gets a goroutine.      *)
AcceptTCP(c) ==
  /\ loop = "accept"
  /\ ~RawClosed
  /\ Moves(c, "none", "handshake")
  /\ UNCHANGED <<peer, results, loop, closing>>

(* raw.Accept fails, always after Close and otherwise at any time.         *)
AcceptTCPFails ==
  /\ loop = "accept"
  /\ loop' = IF ClosedFlag THEN "ended" ELSE "failed"
  /\ UNCHANGED <<peer, conn, results, closing>>

(* The error goes to the next Accept, unless Close comes first.            *)
SurfaceError ==
  /\ loop = "failed"
  /\ \/ /\ Len(results) < ResultsCap
        /\ results' = Append(results, "error")
     \/ Stopped /\ UNCHANGED results
  /\ loop' = "ended"
  /\ UNCHANGED <<peer, conn, closing>>

Handshake(c) ==
  /\ authorizePeer(c)
  /\ Moves(c, "handshake", "ready")
  /\ UNCHANGED <<peer, results, loop, closing>>

(* A peer that stalls past the deadline, breaks the protocol or has the    *)
(* wrong key.                                                              *)
Reject(c) ==
  /\ Moves(c, "handshake", "closed")
  /\ UNCHANGED <<peer, results, loop, closing>>

(* The select of handshake: publish, or close; either when both are ready. *)
Publish(c) ==
  /\ Len(results) < ResultsCap
  /\ Moves(c, "ready", "queued")
  /\ results' = Append(results, c)
  /\ UNCHANGED <<peer, loop, closing>>

Drop(c) ==
  /\ Stopped
  /\ Moves(c, "ready", "closed")
  /\ UNCHANGED <<peer, results, loop, closing>>

ListenerStep ==
  \/ AcceptTCPFails \/ SurfaceError
  \/ \E c \in Conns : AcceptTCP(c) \/ Handshake(c) \/ Reject(c) \/ Publish(c) \/ Drop(c)
-----------------------------------------------------------------------------
(* Accept: a connection, an error the loop surfaced, or net.ErrClosed;     *)
(* either when both are ready.                                             *)
AcceptConn(c) ==
  /\ results # <<>> /\ Head(results) = c
  /\ results' = Tail(results)
  /\ Moves(c, "queued", "accepted")
  /\ UNCHANGED <<peer, loop, closing>>

AcceptError ==
  /\ results # <<>> /\ Head(results) = "error"
  /\ results' = Tail(results)
  /\ UNCHANGED <<peer, conn, loop, closing>>

(* Mutant: a closed listener is noticed through the loop's error only.     *)
AcceptNeverClosed == FALSE /\ UNCHANGED listenVars

AcceptClosed == Stopped /\ UNCHANGED listenVars

CloseStep ==
  /\ closing < 3
  /\ closing' = closing + 1
  /\ UNCHANGED <<peer, conn, results, loop>>
=============================================================================
