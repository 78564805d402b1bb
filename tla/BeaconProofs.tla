---------------------------- MODULE BeaconProofs ----------------------------
(***************************************************************************)
(* Proofs about the beacon (module Beacon with NoiseListener), for any     *)
(* connections, keys and payloads, any capacity of the results channel and *)
(* any forced interval.                                                    *)
(***************************************************************************)
EXTENDS Beacon, TLAPS

ConnStates == {"none", "handshake", "ready", "queued", "accepted", "closed"}
Steps == {"none", "read", "check", "fetch", "inject", "post", "done"}

(* The listener lets a connection past the handshake only if its peer is   *)
(* authorized, and only an accepted connection has a handler.              *)
ConnOK(c) ==
  /\ conn[c] \in {"ready", "queued", "accepted"} => authorizePeer(c)
  /\ stage[c] # "none" => conn[c] = "accepted"

(* What a handler is about to forward, or has forwarded: all the sentinel  *)
(* sent, and of the rest only what was fetched, for a payload that can     *)
(* hold it.                                                                *)
OutOK(c) ==
  /\ body[c].keys \subseteq out[c]
  /\ out[c] \ body[c].keys \subseteq got[c]
  /\ out[c] # body[c].keys => body[c].data = "map"

(* A handler answers, and posts, in its last step and nowhere else.        *)
RequestOK(c) ==
  /\ stage[c] \in {"fetch", "inject"} => Augmentable(c)
  /\ stage[c] = "post" => OutOK(c)
  /\ stage[c] # "done" => upstream[c] = <<>> /\ answer[c] = "none"
  /\ stage[c] = "done" =>
       /\ answer[c] \in {"ok", "refused", "bad_gateway", "bad_request"}
       /\ upstream[c] = <<>> \/ (upstream[c] = <<out[c]>> /\ OutOK(c))
       /\ answer[c] = "ok" => upstream[c] = <<out[c]>>

Keys == SentryKeys \cup UNION {b.keys : b \in Bodies}
Answers == {"none", "ok", "refused", "bad_gateway", "bad_request"}

HandlerTypes ==
  /\ conn \in [Conns -> ConnStates]
  /\ body \in [Conns -> Bodies]
  /\ stage \in [Conns -> Steps]
  /\ got \in [Conns -> SUBSET SentryKeys]
  /\ out \in [Conns -> SUBSET Keys]
  /\ answer \in [Conns -> Answers]
  /\ upstream \in [Conns -> Seq(SUBSET Keys)]

TransparentInv ==
  /\ HandlerTypes
  /\ \A c \in Conns : ConnOK(c) /\ RequestOK(c)

(* Steps that change neither a request nor where its connection is.        *)
LEMMA TransparentKept ==
  ASSUME TransparentInv, UNCHANGED <<peer, conn, body, stage, got, out, answer, upstream>>
  PROVE  TransparentInv'
BY DEF TransparentInv, HandlerTypes, ConnOK, RequestOK, OutOK, Augmentable, authorizePeer

(* The listener: connections move, and no handler runs on those it moves.  *)
LEMMA TransparentListener ==
  ASSUME TransparentInv, Listener
  PROVE  TransparentInv'
<1> USE DEF TransparentInv, HandlerTypes, ConnStates, ConnOK
<1>1. UNCHANGED <<peer, body, stage, got, out, answer, upstream>>
  BY DEF Listener, ListenerStep, requestVars, AcceptTCPFails, SurfaceError, AcceptTCP, Handshake, Reject, Publish, Drop
<1>2. \A c \in Conns : RequestOK(c)'
  BY <1>1 DEF RequestOK, OutOK, Augmentable
<1>3. CASE AcceptTCPFails \/ SurfaceError
  <2>1. conn' = conn
    BY <1>3 DEF AcceptTCPFails, SurfaceError
  <2> QED  BY <1>1, <2>1, TransparentKept
<1>4. ASSUME NEW c \in Conns, AcceptTCP(c) \/ Handshake(c) \/ Reject(c) \/ Publish(c) \/ Drop(c)
      PROVE  conn' \in [Conns -> ConnStates] /\ \A d \in Conns : ConnOK(d)'
  BY <1>1, <1>4 DEF AcceptTCP, Handshake, Reject, Publish, Drop, Moves, authorizePeer
<1> QED  BY <1>1, <1>2, <1>3, <1>4 DEF Listener, ListenerStep

LEMMA TransparentServe ==
  ASSUME TransparentInv, NEW c \in Conns, ServeConn(c)
  PROVE  TransparentInv'
<1> USE DEF TransparentInv, HandlerTypes
<1>1. /\ UNCHANGED <<peer, body, got, out, answer, upstream>>
      /\ conn[c] = "queued" /\ conn' = [conn EXCEPT ![c] = "accepted"]
      /\ stage' = [stage EXCEPT ![c] = "read"]
  BY DEF ServeConn, AcceptConn, Moves
<1>2. stage[c] = "none"
  BY <1>1 DEF ConnOK
<1>3. conn' \in [Conns -> ConnStates] /\ stage' \in [Conns -> Steps]
  BY <1>1 DEF ConnStates, Steps
<1>4. ASSUME NEW d \in Conns PROVE ConnOK(d)'
  BY <1>1 DEF ConnOK, authorizePeer
<1>5. ASSUME NEW d \in Conns PROVE RequestOK(d)'
  BY <1>1, <1>2 DEF RequestOK, OutOK, Augmentable
<1> QED  BY <1>1, <1>3, <1>4, <1>5

(* A handler's steps, one request at a time.                               *)
LEMMA TransparentHandle ==
  ASSUME TransparentInv, NEW c \in Conns, Handle(c)
  PROVE  TransparentInv'
<1> USE DEF TransparentInv, HandlerTypes, Steps, Goes, ConnOK
<1>0. UNCHANGED <<peer, conn, body>>
  BY DEF Handle, Read, Check, Fetch, Inject, InjectNothing, Post, listenVars
<1>1. body[c].keys \subseteq Keys
  BY DEF Keys
<1>a. \A d \in Conns : authorizePeer(d)' <=> authorizePeer(d)
  BY <1>0 DEF authorizePeer
<1>b. \A d \in Conns : Augmentable(d)' <=> Augmentable(d)
  BY <1>0 DEF Augmentable
<1>2. CASE Read(c)
  <2>1. /\ UNCHANGED <<got, out, upstream>>
        /\ stage[c] = "read"
        /\ \/ stage' = [stage EXCEPT ![c] = "check"] /\ answer' = answer
           \/ stage' = [stage EXCEPT ![c] = "done"] /\ answer' = [answer EXCEPT ![c] = "bad_request"]
    BY <1>2 DEF Read
  <2>2. HandlerTypes'
    BY <1>0, <2>1 DEF Answers
  <2>3. ASSUME NEW d \in Conns PROVE ConnOK(d)'
    BY <1>0, <1>a, <2>1
  <2>4. ASSUME NEW d \in Conns PROVE RequestOK(d)'
    BY <1>0, <1>b, <2>1 DEF RequestOK, OutOK
  <2> QED  BY <2>2, <2>3, <2>4
<1>3. CASE Check(c)
  <2>1. /\ UNCHANGED <<got, answer, upstream>>
        /\ stage[c] = "check"
        /\ \/ Augmentable(c) /\ stage' = [stage EXCEPT ![c] = "fetch"] /\ out' = out
           \/ stage' = [stage EXCEPT ![c] = "post"] /\ out' = [out EXCEPT ![c] = body[c].keys]
    BY <1>3 DEF Check, PassThrough
  <2>2. HandlerTypes'
    BY <1>0, <1>1, <2>1
  <2>3. ASSUME NEW d \in Conns PROVE ConnOK(d)'
    BY <1>0, <1>a, <2>1
  <2>4. ASSUME NEW d \in Conns PROVE RequestOK(d)'
    BY <1>0, <1>b, <2>1 DEF RequestOK, OutOK
  <2> QED  BY <2>2, <2>3, <2>4
<1>4. CASE Fetch(c)
  BY <1>0, <1>a, <1>b, <1>4 DEF Fetch, RequestOK, OutOK
<1>5. CASE Inject(c)
  <2>1. body[c].data = "map"
    BY <1>5, BeaconAssumption DEF Inject, RequestOK, Augmentable
  <2> QED  BY <1>0, <1>1, <1>a, <1>b, <1>5, <2>1 DEF Inject, RequestOK, OutOK, Keys
<1>6. CASE InjectNothing(c)
  BY <1>0, <1>1, <1>a, <1>b, <1>6 DEF InjectNothing, PassThrough, RequestOK, OutOK
<1>7. CASE Post(c)
  <2>1. upstream[c] = <<>> /\ OutOK(c) /\ stage[c] = "post"
    BY <1>7 DEF Post, Answered, RequestOK
  <2>2. /\ upstream' = upstream \/ upstream' = [upstream EXCEPT ![c] = <<out[c]>>]
        /\ UNCHANGED <<got, out>>
        /\ stage' = [stage EXCEPT ![c] = "done"]
        /\ \E a \in {"ok", "refused", "bad_gateway"} :
             /\ answer' = [answer EXCEPT ![c] = a]
             /\ a = "ok" => upstream' = [upstream EXCEPT ![c] = <<out[c]>>]
    <3>1. Append(upstream[c], out[c]) = <<out[c]>>
      BY <2>1
    <3>2. Taken(c) => upstream' = [upstream EXCEPT ![c] = <<out[c]>>]
      BY <3>1 DEF Taken
    <3>3. /\ UNCHANGED <<got, out>>
          /\ stage' = [stage EXCEPT ![c] = "done"]
          /\ \/ answer' = [answer EXCEPT ![c] = "ok"] /\ Taken(c)
             \/ answer' = [answer EXCEPT ![c] = "refused"] /\ upstream' = upstream
             \/ answer' = [answer EXCEPT ![c] = "bad_gateway"] /\ (Taken(c) \/ upstream' = upstream)
      BY <1>7 DEF Post, Answered
    <3> QED  BY <3>2, <3>3
  <2>3. <<out[c]>> \in Seq(SUBSET Keys)
    OBVIOUS
  <2>4. HandlerTypes'
    BY <1>0, <2>2, <2>3, ZenonT(40) DEF Answers
  <2>5. ASSUME NEW d \in Conns PROVE ConnOK(d)'
    BY <1>0, <1>a, <2>1, <2>2
  <2>6. ASSUME NEW d \in Conns PROVE RequestOK(d)'
    BY <1>0, <1>b, <2>1, <2>2 DEF RequestOK, OutOK
  <2> QED  BY <2>4, <2>5, <2>6
<1> QED  BY <1>2, <1>3, <1>4, <1>5, <1>6, <1>7 DEF Handle

LEMMA TransparentStep == TransparentInv /\ [Next]_vars => TransparentInv'
<1> SUFFICES ASSUME TransparentInv, [Next]_vars PROVE TransparentInv'
  OBVIOUS
<1>1. ASSUME Tick \/ Cancel \/ Shutdown \/ CloseListener \/ ServeError \/ ServeClosed \/ Exit
      PROVE  TransparentInv'
  <2>1. UNCHANGED <<peer, conn, body, stage, got, out, answer, upstream>>
    BY <1>1 DEF Tick, Cancel, Shutdown, CloseListener, CloseStep, ServeError, ServeClosed, AcceptError,
                AcceptClosed, Exit, listenVars, requestVars
  <2> QED  BY <2>1, TransparentKept
<1>2. CASE UNCHANGED vars
  <2>1. UNCHANGED <<peer, conn, body, stage, got, out, answer, upstream>>
    BY <1>2 DEF vars, listenVars, requestVars
  <2> QED  BY <2>1, TransparentKept
<1> QED  BY <1>1, <1>2, TransparentListener, TransparentServe, TransparentHandle DEF Next, Serving

(* Whatever fails in the listener, the fetches, the injection or the post, *)
(* the beacon forwards what a sentinel sent whole and at most once, adds   *)
(* nothing it did not fetch for that request, and says ok only for what    *)
(* the watchtower took.                                                    *)
THEOREM BeaconIsTransparent == Spec => []Transparent
<1>1. Init => TransparentInv
  BY DEF Init, ListenInit, TransparentInv, HandlerTypes, ConnStates, Steps, Answers, ConnOK, RequestOK
<1>2. TransparentInv => Transparent
  <2> SUFFICES ASSUME TransparentInv, NEW c \in Conns
               PROVE  /\ stage[c] = "done" => answer[c] # "none"
                      /\ answer[c] = "ok" => Len(upstream[c]) = 1
                      /\ upstream[c] # <<>> =>
                           /\ AuthorizedKeys # {} => peer[c] \in AuthorizedKeys
                           /\ Len(upstream[c]) = 1
                           /\ OutOK(c) /\ upstream[c][1] = out[c]
    BY DEF Transparent, OutOK
  <2>1. \A k : Len(<<k>>) = 1 /\ <<k>>[1] = k
    OBVIOUS
  <2> QED  BY <2>1 DEF TransparentInv, ConnOK, RequestOK, authorizePeer
<1> QED  BY <1>1, <1>2, TransparentStep, PTL DEF Spec
-----------------------------------------------------------------------------
(* The time noted for the last augmentation is that of a real one, or of   *)
(* the start; the staleness check compares with nothing else.              *)
AugmentInv ==
  /\ now \in Nat
  /\ lastAugmentAt \in 0..now
  /\ lastAugmentAt \in augmentedAt \cup {0}
  /\ DOMAIN skippedAt = Conns
  /\ AugmentsWhenDue

LEMMA AugmentStep == AugmentInv /\ [Next]_vars => AugmentInv'
<1> SUFFICES ASSUME AugmentInv, [Next]_vars PROVE AugmentInv'
  OBVIOUS
<1> USE BeaconAssumption
<1>1. ASSUME NEW c \in Conns, Check(c) PROVE AugmentInv'
  <2>1. UNCHANGED <<now, lastAugmentAt, augmentedAt>>
    BY <1>1 DEF Check
  <2>2. \/ skippedAt' = skippedAt
        \/ ~Stale /\ skippedAt' = [skippedAt EXCEPT ![c] = {now}]
    BY <1>1 DEF Check
  <2>3. ASSUME NEW d \in Conns, NEW t \in skippedAt'[d]
        PROVE  \E a \in augmentedAt' \cup {0} : a <= t /\ t - a < ForceInterval
    <3>1. CASE t \in skippedAt[d]
      BY <2>1, <3>1 DEF AugmentInv, AugmentsWhenDue
    <3>2. CASE t \notin skippedAt[d]
      <4>1. t = now /\ ~Stale
        BY <2>2, <2>3, <3>2 DEF AugmentInv
      <4>2. lastAugmentAt <= t /\ t - lastAugmentAt < ForceInterval
        BY <4>1 DEF AugmentInv, Stale
      <4> QED  BY <2>1, <4>2 DEF AugmentInv
    <3> QED  BY <3>1, <3>2
  <2>4. DOMAIN skippedAt' = Conns
    BY <2>2 DEF AugmentInv
  <2> QED  BY <2>1, <2>3, <2>4 DEF AugmentInv, AugmentsWhenDue
<1>2. ASSUME NEW c \in Conns, Inject(c) PROVE AugmentInv'
  BY <1>2 DEF Inject, AugmentInv, AugmentsWhenDue
<1>3. CASE Tick
  BY <1>3 DEF Tick, requestVars, AugmentInv, AugmentsWhenDue
<1>4. ASSUME UNCHANGED <<now, lastAugmentAt, augmentedAt, skippedAt>> PROVE AugmentInv'
  BY <1>4 DEF AugmentInv, AugmentsWhenDue
<1>5. ASSUME NEW c \in Conns, Read(c) \/ Fetch(c) \/ InjectNothing(c) \/ Post(c) \/ ServeConn(c)
      PROVE  AugmentInv'
  BY <1>4, <1>5 DEF Read, Fetch, InjectNothing, Post, ServeConn
<1>6. ASSUME Cancel \/ Listener \/ Shutdown \/ CloseListener \/ ServeError \/ ServeClosed \/ Exit
             \/ UNCHANGED vars
      PROVE  AugmentInv'
  BY <1>4, <1>6 DEF Cancel, Listener, Shutdown, CloseListener, ServeError, ServeClosed, Exit, vars, requestVars
<1> QED  BY <1>1, <1>2, <1>3, <1>5, <1>6 DEF Next, Serving, Handle

(* A payload goes on without sentry data only within ForceInterval of an   *)
(* augmentation that took place, or of the start: lastAugmentAt is noted   *)
(* only after something was injected, however requests overlap between the *)
(* augmenter's two critical sections.                                      *)
THEOREM AugmentationIsDue == Spec => []AugmentsWhenDue
<1>1. Init => AugmentInv
  BY DEF Init, AugmentInv, AugmentsWhenDue
<1>2. AugmentInv => AugmentsWhenDue
  BY DEF AugmentInv
<1> QED  BY <1>1, <1>2, AugmentStep, PTL DEF Spec
=============================================================================
