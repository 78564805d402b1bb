------------------------- MODULE RpcCollectorProofs -------------------------
(***************************************************************************)
(* Proofs about the RPC collector's loop and its delta filter, for any     *)
(* intervals, contents, validator sets and lengths of the chain and of the *)
(* run.                                                                    *)
(***************************************************************************)
EXTENDS RpcCollector, TLAPS

(* A collect holds an endpoint's content in its payload before it emits.   *)
Pending(k) == IF payload[k] # None THEN payload[k] ELSE view[k]

RpcTypes ==
  /\ height \in 0..MaxHeight
  /\ current \in 0..MaxHeight
  /\ payload \in Content
  /\ hashes \in Content
  /\ answered \in [Filtered -> Nat \cup {None}]
  /\ view \in [Filtered -> Nat \cup {None}]

(* What the filter has let through is what is about to be shown; of the    *)
(* validators, what the refresh let past the filter may be.                *)
Shows(k) ==
  /\ k # "validators" => hashes[k] = answered[k]
  /\ Pending(k) = answered[k] \/ (k = "validators" /\ answered[k] = hashes[k])

(* ViewCurrent says nothing of a collect under way.  In one, the payload   *)
(* will show the last answer, until a payload is abandoned.                *)
ViewInv ==
  /\ RpcTypes
  /\ pc = "idle" => payload = Nothing
  /\ ~abandoned => \A k \in Filtered : Shows(k)

LEMMA KeyFacts ==
  /\ Filtered \subseteq Keys /\ "validators" \in Filtered
  /\ {"block", "genesis", "num_unconfirmed_txs"} \subseteq Keys \ Filtered
  /\ None \notin Nat /\ Nothing \in Content /\ \A k \in Keys : Nothing[k] = None
BY DEF Filtered, Keys, None, Nothing, Content

(* What an answer to a filtered call does.                                 *)
LEMMA FilterStep ==
  ASSUME ViewInv, NEW k \in Filtered, NEW c \in Nat, pc' # "idle",
         UNCHANGED <<height, view, abandoned>>, current' \in 0..MaxHeight,
         answered' = [answered EXCEPT ![k] = c],
         IF Changed(k, c) THEN Put(k, c) /\ StoreHash(k, c) ELSE UNCHANGED <<payload, hashes>>
  PROVE  ViewInv'
<1>1. k \in Keys /\ c # None
  BY KeyFacts
<1>2. CASE Changed(k, c)
  <2>1. payload' = [payload EXCEPT ![k] = c] /\ hashes' = [hashes EXCEPT ![k] = c]
    BY <1>2 DEF Put, StoreHash
  <2>2. RpcTypes'
    BY <1>1, <2>1 DEF ViewInv, RpcTypes, Content
  <2>3. ASSUME NEW j \in Filtered, Shows(j) PROVE Shows(j)'
    <3>1. CASE j = k
      BY <1>1, <2>1, <3>1, KeyFacts DEF ViewInv, RpcTypes, Content, Pending, Shows
    <3>2. CASE j # k
      BY <2>1, <2>3, <3>2, KeyFacts DEF ViewInv, RpcTypes, Content, Pending, Shows
    <3> QED  BY <3>1, <3>2
  <2> QED  BY <2>2, <2>3 DEF ViewInv
<1>3. CASE ~Changed(k, c)
  <2>1. UNCHANGED <<payload, hashes>> /\ hashes[k] = c
    BY <1>3 DEF Changed
  <2>2. RpcTypes'
    BY <2>1 DEF ViewInv, RpcTypes
  <2>3. ASSUME NEW j \in Filtered, Shows(j) PROVE Shows(j)'
    <3>1. CASE j = k
      BY <2>1, <2>3, <3>1 DEF ViewInv, RpcTypes, Pending, Shows
    <3>2. CASE j # k
      BY <2>1, <2>3, <3>2 DEF ViewInv, RpcTypes, Pending, Shows
    <3> QED  BY <3>1, <3>2
  <2> QED  BY <2>2, <2>3 DEF ViewInv
<1> QED  BY <1>2, <1>3

(* What the refresh, which stores no hash, does.                           *)
LEMMA BypassStep ==
  ASSUME ViewInv, NEW c \in Nat, pc' # "idle", UNCHANGED <<height, view, abandoned, current, hashes>>,
         answered' = [answered EXCEPT !["validators"] = c], Put("validators", c)
  PROVE  ViewInv'
<1> DEFINE v == "validators"
<1>1. v \in Keys /\ v \in Filtered /\ c # None
  BY KeyFacts
<1>2. payload' = [payload EXCEPT ![v] = c]
  BY DEF Put
<1>3. RpcTypes'
  BY <1>1, <1>2 DEF ViewInv, RpcTypes, Content
<1>4. ASSUME NEW j \in Filtered, Shows(j) PROVE Shows(j)'
  <2>1. CASE j = v
    BY <1>1, <1>2, <2>1 DEF ViewInv, RpcTypes, Content, Pending, Shows
  <2>2. CASE j # v
    BY <1>2, <1>4, <2>2, KeyFacts DEF ViewInv, RpcTypes, Content, Pending, Shows
  <2> QED  BY <2>1, <2>2
<1> QED  BY <1>3, <1>4 DEF ViewInv

(* What a step that leaves the filtered keys alone does.                   *)
LEMMA OtherStep ==
  ASSUME ViewInv, UNCHANGED <<view, answered, abandoned>>, height' \in 0..MaxHeight,
         current' \in 0..MaxHeight, payload' \in Content, hashes' \in Content,
         \A k \in Filtered : payload'[k] = payload[k] /\ hashes'[k] = hashes[k],
         pc' = "idle" => payload' = Nothing
  PROVE  ViewInv'
BY DEF ViewInv, RpcTypes, Pending, Shows

LEMMA PutOther ==
  ASSUME ViewInv, NEW k \in Keys \ Filtered, NEW c \in Nat, Put(k, c)
  PROVE  payload' \in Content /\ \A j \in Filtered : payload'[j] = payload[j]
BY DEF ViewInv, RpcTypes, Content, Put

LEMMA ViewStep == ViewInv /\ [Next]_vars => ViewInv'
<1> SUFFICES ASSUME ViewInv, [Next]_vars PROVE ViewInv'
  OBVIOUS
<1>1. ASSUME NEW k \in {"status", "net_info"}, NEW c \in Nat, k = "status" => c \in {height, Garbled},
             NEW next \in {"net_info", "num_unconfirmed_txs"}, Poll(k, c, next)
      PROVE  ViewInv'
  <2>1. pc' = next /\ UNCHANGED <<height, view, abandoned>> /\ k \in Filtered
    BY <1>1 DEF Poll, Goto, Filtered
  <2>2. current' \in 0..MaxHeight
    BY <1>1, RpcAssumption DEF Poll, parseHeight, ViewInv, RpcTypes
  <2>3. CASE Fails(k) /\ UNCHANGED <<reachable, current, payload, hashes>>
    BY <2>1, <2>3, OtherStep DEF Fails, ViewInv, RpcTypes
  <2>4. CASE Answers(k, c) /\ IF Changed(k, c) THEN Put(k, c) /\ StoreHash(k, c)
                                               ELSE UNCHANGED <<payload, hashes>>
    BY <2>1, <2>2, <2>4, FilterStep DEF Answers
  <2> QED  BY <1>1, <2>3, <2>4 DEF Poll
<1>2. CASE Poll("num_unconfirmed_txs", 0, "dump_consensus_state")
  <2>1. /\ UNCHANGED <<view, abandoned, height, current, hashes>> /\ pc' = "dump_consensus_state"
        /\ answered' = answered
    BY <1>2, KeyFacts DEF Poll, Goto, Answers, Fails
  <2>2. payload' \in Content /\ \A j \in Filtered : payload'[j] = payload[j]
    BY <1>2, KeyFacts, PutOther DEF Poll, ViewInv, RpcTypes
  <2> QED  BY <2>1, <2>2, OtherStep DEF ViewInv, RpcTypes
<1>3. CASE Dump
  <2> DEFINE k == "dump_consensus_state"
  <2>1. pc' = "new_block" /\ UNCHANGED <<height, view, abandoned, current>> /\ k \in Filtered
    BY <1>3 DEF Dump, Goto, Filtered
  <2>2. CASE UNCHANGED <<payload, hashes, answered>>
    BY <2>1, <2>2, OtherStep DEF ViewInv, RpcTypes
  <2>3. CASE \E c \in Contents : Answers(k, c) /\ IF Changed(k, c) THEN Put(k, c) /\ StoreHash(k, c)
                                                                  ELSE UNCHANGED <<payload, hashes>>
    <3>1. PICK c \in Contents : Answers(k, c) /\ IF Changed(k, c) THEN Put(k, c) /\ StoreHash(k, c)
                                                                 ELSE UNCHANGED <<payload, hashes>>
      BY <2>3
    <3>2. c \in Nat /\ answered' = [answered EXCEPT ![k] = c]
      BY <2>1, <3>1, RpcAssumption DEF Answers
    <3> QED  BY <2>1, <3>1, <3>2, FilterStep DEF ViewInv, RpcTypes
  <2> QED  BY <1>3, <2>2, <2>3 DEF Dump, Fails
<1>4. CASE NewBlock
  <2> DEFINE k == "validators"
  <2>1. pc' \in {"refresh", "block"} /\ UNCHANGED <<height, view, abandoned, current>> /\ k \in Filtered
    BY <1>4, KeyFacts DEF NewBlock, Goto
  <2>2. CASE UNCHANGED <<payload, hashes, answered>>
    BY <2>1, <2>2, OtherStep DEF ViewInv, RpcTypes
  <2>3. CASE \E c \in ValidatorSets : Answers(k, c) /\ IF Changed(k, c) THEN Put(k, c) /\ StoreHash(k, c)
                                                                       ELSE UNCHANGED <<payload, hashes>>
    <3>1. PICK c \in ValidatorSets : Answers(k, c) /\ IF Changed(k, c) THEN Put(k, c) /\ StoreHash(k, c)
                                                                      ELSE UNCHANGED <<payload, hashes>>
      BY <2>3
    <3>2. c \in Nat /\ answered' = [answered EXCEPT ![k] = c]
      BY <2>1, <3>1, RpcAssumption DEF Answers
    <3> QED  BY <2>1, <3>1, <3>2, FilterStep DEF ViewInv, RpcTypes
  <2> QED  BY <1>4, <2>2, <2>3 DEF NewBlock, Fails, ValidatorsAt
<1>5. CASE Block
  <2>1. UNCHANGED <<view, abandoned, height, current, hashes>> /\ pc' = "refresh" /\ answered' = answered
    BY <1>5, KeyFacts DEF Block, Goto, Answers, Fails
  <2>2. UNCHANGED payload \/ Put("block", current)
    BY <1>5 DEF Block
  <2>3. payload' \in Content /\ \A j \in Filtered : payload'[j] = payload[j]
    <3>1. current \in Nat
      BY RpcAssumption DEF ViewInv, RpcTypes
    <3> QED  BY <2>2, <3>1, KeyFacts, PutOther DEF ViewInv, RpcTypes
  <2> QED  BY <2>1, <2>3, OtherStep DEF ViewInv, RpcTypes
<1>6. CASE RefreshValidators
  <2>1. UNCHANGED <<view, abandoned, height, current, hashes>> /\ pc' = "genesis"
    BY <1>6 DEF RefreshValidators, Goto
  <2>2. CASE UNCHANGED <<payload, answered>>
    BY <2>1, <2>2, OtherStep DEF ViewInv, RpcTypes
  <2>3. CASE \E c \in ValidatorSets : Refetch("validators", c)
    <3>1. PICK c \in ValidatorSets : Answers("validators", c) /\ Put("validators", c)
      BY <2>3 DEF Refetch
    <3>2. c \in Nat /\ answered' = [answered EXCEPT !["validators"] = c]
      BY <3>1, KeyFacts, RpcAssumption DEF Answers
    <3> QED  BY <2>1, <3>1, <3>2, BypassStep
  <2> QED  BY <1>6, <2>2, <2>3 DEF RefreshValidators, ValidatorsAt, Fails
<1>7. CASE Genesis
  <2>1. UNCHANGED <<view, abandoned, height, current, hashes>> /\ pc' = "emit" /\ answered' = answered
    BY <1>7, KeyFacts DEF Genesis, Refetch, Goto, Answers, Fails
  <2>2. UNCHANGED payload \/ Put("genesis", 0)
    BY <1>7 DEF Genesis, Refetch
  <2>3. payload' \in Content /\ \A j \in Filtered : payload'[j] = payload[j]
    BY <2>2, KeyFacts, PutOther DEF ViewInv, RpcTypes
  <2> QED  BY <2>1, <2>3, OtherStep DEF ViewInv, RpcTypes
<1>8. CASE Emit
  <2>1. /\ UNCHANGED <<height, hashes, answered, abandoned>> /\ pc' = "idle"
        /\ payload' = Nothing /\ current' = 0
        /\ view' = [k \in Filtered |-> Pending(k)]
    BY <1>8 DEF Emit, Forget, Goto, Pending
  <2>2. \A k \in Filtered : Pending(k) \in Nat \cup {None} /\ Pending(k)' = Pending(k)
    BY <2>1, KeyFacts DEF Pending, ViewInv, RpcTypes, Content
  <2>3. RpcTypes'
    BY <2>1, <2>2, KeyFacts, RpcAssumption DEF ViewInv, RpcTypes
  <2>4. ASSUME NEW k \in Filtered, Shows(k) PROVE Shows(k)'
    BY <2>1, <2>2, <2>4 DEF Shows
  <2> QED  BY <2>1, <2>3, <2>4 DEF ViewInv
<1>9. CASE Abandon
  <2>1. UNCHANGED <<height, hashes, answered, view>> /\ abandoned' /\ payload' = Nothing /\ current' = 0
    BY <1>9 DEF Abandon, Forget
  <2> QED  BY <2>1, KeyFacts, RpcAssumption DEF ViewInv, RpcTypes
<1>10. CASE Begin \/ Stop \/ NodeMoves \/ Tick \/ Cancel \/ UNCHANGED vars
  <2>1. /\ UNCHANGED <<view, answered, abandoned, current, payload, hashes>> /\ height' \in 0..MaxHeight
        /\ (pc' = "idle" => pc = "idle")
    BY <1>10 DEF Begin, Stop, NodeMoves, Tick, Cancel, Goto, vars, ViewInv, RpcTypes
  <2> QED  BY <2>1, OtherStep DEF ViewInv, RpcTypes
<1>11. height \in Nat /\ Garbled \in Nat /\ Contents \subseteq Nat
  BY RpcAssumption DEF ViewInv, RpcTypes, Garbled
<1> QED  BY <1>1, <1>2, <1>3, <1>4, <1>5, <1>6, <1>7, <1>8, <1>9, <1>10, <1>11 DEF Next, Collect

LEMMA ViewInit == Init => ViewInv
BY KeyFacts, RpcAssumption DEF Init, ViewInv, RpcTypes, Pending, Shows

(* What Collector.collect with delta.Changed may hide: until a payload is  *)
(* abandoned, the last content emitted of a filtered endpoint is, between  *)
(* collects, the last it returned, but for a validator set equal to the    *)
(* one the filter let through last.                                        *)
THEOREM ViewIsCurrent == Spec => []ViewCurrent
<1>1. ViewInv => ViewCurrent
  BY KeyFacts DEF ViewInv, ViewCurrent, Pending, Shows
<1> QED  BY <1>1, ViewInit, ViewStep, PTL DEF Spec
-----------------------------------------------------------------------------
(* lastHeight is an upper bound of the blocks emitted, and a strict one    *)
(* from the moment it advances until the block it advanced to is emitted.  *)
BlockInv ==
  /\ ViewInv
  /\ lastHeight \in Nat /\ lastBlock \in Nat /\ lastBlock <= lastHeight
  /\ pc = "block" => current = lastHeight /\ lastBlock < lastHeight
  /\ payload["block"] # None =>
       /\ pc \in {"refresh", "genesis", "emit"}
       /\ payload["block"] = lastHeight /\ lastBlock < lastHeight

LEMMA BlockStep == BlockInv /\ [Next]_vars => BlockInv'
<1> SUFFICES ASSUME BlockInv, [Next]_vars PROVE BlockInv'
  OBVIOUS
<1>1. ViewInv'
  BY ViewStep DEF BlockInv
<1>2. /\ payload \in Content /\ "block" \in Keys /\ current \in Nat
      /\ \A k \in Keys \ {"block"} : \A c : Put(k, c) => payload'["block"] = payload["block"]
  BY KeyFacts, RpcAssumption DEF BlockInv, ViewInv, RpcTypes, Content, Put
<1>3. ASSUME UNCHANGED <<lastHeight, lastBlock, current>>, payload'["block"] = payload["block"], pc' # "block",
             pc \in {"refresh", "genesis", "emit"} => pc' \in {"refresh", "genesis", "emit"}
      PROVE  BlockInv'
  BY <1>1, <1>3 DEF BlockInv
<1>4. ASSUME NEW k \in {"status", "net_info", "num_unconfirmed_txs"}, NEW c,
             NEW next \in {"net_info", "num_unconfirmed_txs", "dump_consensus_state"}, Poll(k, c, next)
      PROVE  BlockInv'
  <2>1. /\ pc = k /\ pc' = next /\ UNCHANGED <<lastHeight, lastBlock>> /\ payload["block"] = None
        /\ (UNCHANGED payload \/ Put(k, c))
    BY <1>4 DEF Poll, Goto, BlockInv
  <2>2. payload'["block"] = None
    BY <1>2, <2>1, KeyFacts DEF Keys
  <2> QED  BY <1>1, <2>1, <2>2 DEF BlockInv
<1>5. CASE Dump
  <2>1. UNCHANGED payload \/ \E c : Put("dump_consensus_state", c)
    BY <1>5 DEF Dump
  <2>2. payload'["block"] = payload["block"]
    BY <1>2, <2>1 DEF Keys
  <2> QED  BY <1>3, <1>5, <2>2 DEF Dump, Goto
<1>6. CASE NewBlock
  <2>1. UNCHANGED payload \/ \E c : Put("validators", c)
    BY <1>6 DEF NewBlock
  <2>2. payload'["block"] = payload["block"] /\ payload["block"] = None
    BY <1>2, <1>6, <2>1 DEF Keys, NewBlock, BlockInv
  <2>3. /\ UNCHANGED <<current, lastBlock>>
        /\ \/ pc' = "refresh" /\ UNCHANGED lastHeight
           \/ pc' = "block" /\ lastHeight' = current /\ current > lastHeight
    BY <1>6 DEF NewBlock, Goto, IsNewHeight
  <2> QED  BY <1>1, <1>2, <2>2, <2>3 DEF BlockInv
<1>7. CASE Block
  <2>1. /\ pc = "block" /\ pc' = "refresh" /\ UNCHANGED <<current, lastHeight, lastBlock>>
        /\ UNCHANGED payload \/ Put("block", current)
    BY <1>7 DEF Block, Goto
  <2>2. payload["block"] = None /\ payload'["block"] \in {None, current}
    BY <1>2, <2>1 DEF BlockInv, Put, Content
  <2> QED  BY <1>1, <1>2, <2>1, <2>2 DEF BlockInv
<1>8. CASE RefreshValidators \/ Genesis
  <2>1. UNCHANGED payload \/ \E k \in {"validators", "genesis"} : \E c : Put(k, c)
    BY <1>8 DEF RefreshValidators, Genesis, Refetch
  <2>2. payload'["block"] = payload["block"]
    BY <1>2, <2>1 DEF Keys
  <2> QED  BY <1>3, <1>8, <2>2 DEF RefreshValidators, Genesis, Goto
<1>9. CASE Emit \/ Abandon
  <2>1. /\ payload'["block"] = None /\ pc' # "block" /\ lastHeight' = lastHeight
        /\ (UNCHANGED lastBlock \/ (payload["block"] # None /\ lastBlock' = payload["block"]))
    BY <1>9, KeyFacts DEF Emit, Abandon, Forget, Goto, Keys
  <2> QED  BY <1>1, <2>1 DEF BlockInv
<1>10. CASE Begin \/ Stop
  <2>1. payload' = payload /\ payload["block"] = None /\ pc' # "block"
        /\ UNCHANGED <<lastHeight, lastBlock, current>>
    BY <1>10 DEF Begin, Stop, Goto, BlockInv
  <2> QED  BY <1>1, <2>1 DEF BlockInv
<1>11. CASE NodeMoves \/ Tick \/ Cancel \/ UNCHANGED vars
  BY <1>1, <1>11 DEF NodeMoves, Tick, Cancel, vars, BlockInv
<1> QED  BY <1>4, <1>5, <1>6, <1>7, <1>8, <1>9, <1>10, <1>11 DEF Next, Collect

(* A block is emitted at most once and heights only grow from one emitted  *)
(* block to the next, although the node may fall back and calls may fail.  *)
THEOREM BlocksEmittedInOrder == Spec => BlocksInOrder
<1>1. Init => BlockInv
  BY ViewInit, KeyFacts, RpcAssumption DEF Init, BlockInv, Keys
<1>2. BlockInv /\ [Next]_vars =>
        [Emit /\ payload["block"] # None => payload["block"] > lastBlock]_vars
  BY DEF BlockInv
<1> QED  BY <1>1, <1>2, BlockStep, PTL DEF Spec, BlocksInOrder
-----------------------------------------------------------------------------
(* What decides on a refresh, lastValidatorsSentAt, is when a payload last *)
(* took the validators, by either of the two ways they enter one.          *)
FreshInv ==
  /\ ViewInv
  /\ lastSent \in [Refreshed -> Int] /\ fetched \in [Refreshed -> Int] /\ now \in Nat
  /\ lastSent["validators"] = fetched["validators"]

LEMMA FreshStep == FreshInv /\ [Next]_vars => FreshInv'
<1> SUFFICES ASSUME FreshInv, [Next]_vars PROVE FreshInv'
  OBVIOUS
<1>1. ViewInv'
  BY ViewStep DEF FreshInv
<1>2. ASSUME UNCHANGED <<lastSent, fetched, now>> PROVE FreshInv'
  BY <1>1, <1>2 DEF FreshInv
<1>3. ASSUME now' = now, NEW k \in Refreshed, lastSent' = [lastSent EXCEPT ![k] = now],
             fetched' = [fetched EXCEPT ![k] = now]
      PROVE  FreshInv'
  BY <1>1, <1>3 DEF FreshInv, Refreshed
<1>4. CASE NewBlock
  BY <1>2, <1>3, <1>4 DEF NewBlock, SentIfChanged, Refreshed
<1>5. CASE RefreshValidators \/ Genesis
  BY <1>2, <1>3, <1>5 DEF RefreshValidators, Genesis, Refetch, Refreshed
<1>6. CASE Tick
  BY <1>1, <1>6 DEF Tick, FreshInv
<1>7. ASSUME NEW k, NEW c, NEW next, Poll(k, c, next) PROVE FreshInv'
  BY <1>2, <1>7 DEF Poll
<1>8. CASE Begin \/ Stop \/ Dump \/ Block \/ Emit \/ Abandon \/ NodeMoves \/ Cancel \/ UNCHANGED vars
  BY <1>2, <1>8 DEF Begin, Stop, Dump, Block, Emit, Abandon, NodeMoves, Cancel, vars
<1> QED  BY <1>4, <1>5, <1>6, <1>7, <1>8 DEF Next, Collect

(* The staleness window of the validator set: when the calls that ask for  *)
(* it are answered, no collect passes the refresh with the set older than  *)
(* validatorsRefreshInterval and absent from the payload.                  *)
THEOREM ValidatorsAreFresh == Spec => ValidatorsStayFresh
<1> DEFINE Fresh == pc = "refresh" /\ pc' = "genesis" /\ lastHeight > 0 /\ ~noValidators' =>
                      payload'["validators"] # None \/ now - fetched["validators"] < ValidatorsRefresh
<1>1. Init => FreshInv
  BY ViewInit, RpcAssumption DEF Init, FreshInv, Refreshed, Never
<1>2. FreshInv /\ [Next]_vars => [Fresh]_vars
  <2> SUFFICES ASSUME FreshInv, Next, pc = "refresh", pc' = "genesis", lastHeight > 0, ~noValidators'
               PROVE  payload'["validators"] # None \/ now - fetched["validators"] < ValidatorsRefresh
    OBVIOUS
  <2>1. RefreshValidators
    BY DEF Next, Collect, Begin, Stop, Poll, Dump, NewBlock, Block, Genesis, Emit, Abandon, NodeMoves,
           Tick, Cancel, Forget, Goto
  <2>2. CASE ~RefreshDue
    BY <2>1, <2>2, RpcAssumption DEF RefreshValidators, RefreshDue, FreshInv, Refreshed
  <2>3. CASE RefreshDue
    <3>1. PICK c \in ValidatorSets : Put("validators", c)
      BY <2>1, <2>3 DEF RefreshValidators, Fails, Refetch, ValidatorsAt
    <3>2. payload'["validators"] = c /\ c # None
      BY <3>1, KeyFacts, RpcAssumption DEF Put, FreshInv, ViewInv, RpcTypes, Content
    <3> QED  BY <3>2
  <2> QED  BY <2>2, <2>3
<1> QED  BY <1>1, <1>2, FreshStep, PTL DEF Spec, ValidatorsStayFresh
=============================================================================
