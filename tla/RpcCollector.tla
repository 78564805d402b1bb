---------------------------- MODULE RpcCollector ----------------------------
(***************************************************************************)
(* The sentinel's RPC collector (internal/sentinel/rpc/collector.go) with  *)
(* the delta filter (internal/sentinel/delta): a loop that calls gnoland's *)
(* endpoints one after the other, while the node moves on and any call may *)
(* fail, and emits what changed.  An action is one call, with the code     *)
(* that follows it up to the next call.                                    *)
(*                                                                         *)
(* An endpoint's content is a number: the height for status (Garbled when  *)
(* it holds none that parses), the requested height for block, one of      *)
(* Contents for net_info and dump_consensus_state, one of ValidatorSets    *)
(* for validators, a constant for num_unconfirmed_txs and genesis.  A hash *)
(* stands for its content.                                                 *)
(* genesisFailed only chooses a log level and is left out.                 *)
(***************************************************************************)
EXTENDS Integers

CONSTANTS
  DumpInterval,       \* dumpInterval, in ticks
  GenesisRefresh,     \* genesisRefreshInterval
  ValidatorsRefresh,  \* validatorsRefreshInterval
  Contents,           \* what net_info and dump_consensus_state may report
  ValidatorSets,      \* validator sets a height may have
  MaxHeight,          \* bound: the chain's last height
  MaxTime             \* bound: last tick of the clock

ASSUME RpcAssumption ==
  /\ DumpInterval \in Nat
  /\ GenesisRefresh \in Nat \ {0}      \* NewCollector replaces the others
  /\ ValidatorsRefresh \in Nat \ {0}
  /\ Contents \subseteq Nat /\ Contents # {}
  /\ ValidatorSets \subseteq Nat /\ ValidatorSets # {}
  /\ MaxHeight \in Nat
  /\ MaxTime \in Nat

VARIABLES
  height,          \* the node's latest block
  now,             \* the clock
  cancelled,       \* ctx is done
  pc,              \* the call collect is about to make
  payload,         \* payload.Data; None for an absent key
  current,         \* currentHeight
  reachable,       \* reachable
  hashes,          \* delta.hashes
  lastHeight,      \* Collector.lastHeight
  lastDump,        \* Collector.lastDump
  lastSent,        \* Collector.lastGenesisSentAt and lastValidatorsSentAt
  answered,        \* history: the last content each filtered endpoint returned
  abandoned,       \* history: a payload was given up at the send
  noValidators,    \* history: a validators call of this collect failed
  view,            \* history: the last content emitted of each filtered endpoint
  fetched,         \* history: when the refreshed keys last entered a payload
  lastBlock        \* history: height of the last block emitted

vars == <<height, now, cancelled, pc, payload, current, reachable, hashes, lastHeight,
          lastDump, lastSent, answered, abandoned, noValidators, view, fetched, lastBlock>>
-----------------------------------------------------------------------------
None == -1

(* A status whose height is no number.                                     *)
Garbled == MaxHeight + 1

Keys == {"status", "net_info", "num_unconfirmed_txs", "dump_consensus_state",
         "validators", "block", "genesis"}
Filtered == {"status", "net_info", "dump_consensus_state", "validators"}
Refreshed == {"validators", "genesis"}
Nothing == [k \in Keys |-> None]

(* A Go zero time: longer ago than any interval.                           *)
Never == -(DumpInterval + GenesisRefresh + ValidatorsRefresh)

Init ==
  /\ height = 0
  /\ now = 0
  /\ cancelled = FALSE
  /\ pc = "idle"
  /\ payload = Nothing
  /\ current = 0
  /\ reachable = FALSE
  /\ hashes = Nothing
  /\ lastHeight = 0
  /\ lastDump = Never
  /\ lastSent = [k \in Refreshed |-> Never]
  /\ answered = [k \in Filtered |-> None]
  /\ abandoned = FALSE
  /\ noValidators = FALSE
  /\ view = [k \in Filtered |-> None]
  /\ fetched = [k \in Refreshed |-> Never]
  /\ lastBlock = 0
-----------------------------------------------------------------------------
(* The node commits a block, or falls back when it is restored.            *)
NodeMoves ==
  /\ height' \in {height - 1, height + 1} \cap 0..MaxHeight
  /\ UNCHANGED <<now, cancelled, pc, payload, current, reachable, hashes, lastHeight,
                 lastDump, lastSent, answered, noValidators, abandoned, view, fetched, lastBlock>>

(* A tick is long against a collect: the clock moves between collects.     *)
Tick ==
  /\ pc = "idle"
  /\ now < MaxTime
  /\ now' = now + 1
  /\ UNCHANGED <<height, cancelled, pc, payload, current, reachable, hashes, lastHeight,
                 lastDump, lastSent, answered, noValidators, abandoned, view, fetched, lastBlock>>

(* ctx is cancelled.  Calls fail from then on, as they always may, so only *)
(* the two selects, of Run and of the send, tell when.                     *)
Cancel ==
  /\ ~cancelled
  /\ pc \in {"idle", "emit"}
  /\ cancelled' = TRUE
  /\ UNCHANGED <<height, now, pc, payload, current, reachable, hashes, lastHeight,
                 lastDump, lastSent, answered, noValidators, abandoned, view, fetched, lastBlock>>
-----------------------------------------------------------------------------
(* delta.Changed(k, c): whether it answers true, and the hash it stores.   *)
Changed(k, c) == hashes[k] # c

(* Mutant: the first hash of a key is kept.                                *)
StoreFirstHash(k, c) ==
  hashes' = [hashes EXCEPT ![k] = IF @ = None THEN c ELSE @]

StoreHash(k, c) == hashes' = [hashes EXCEPT ![k] = c]

(* A call's outcome: client.get returns a body, unless ctx is done or      *)
(* anything goes wrong.                                                    *)
Answers(k, c) ==
  /\ ~cancelled
  /\ answered' = IF k \in Filtered THEN [answered EXCEPT ![k] = c] ELSE answered
  /\ UNCHANGED noValidators

Fails(k) ==
  /\ noValidators' = (noValidators \/ k = "validators")
  /\ UNCHANGED answered

Put(k, c)  == payload' = [payload EXCEPT ![k] = c]
Goto(next) == pc' = next

(* Run's select takes a tick.                                              *)
Begin ==
  /\ pc = "idle"
  /\ Goto("status")
  /\ UNCHANGED <<height, now, cancelled, payload, current, reachable, hashes, lastHeight,
                 lastDump, lastSent, answered, noValidators, abandoned, view, fetched, lastBlock>>

Stop ==
  /\ pc = "idle"
  /\ cancelled
  /\ Goto("stopped")
  /\ UNCHANGED <<height, now, cancelled, payload, current, reachable, hashes, lastHeight,
                 lastDump, lastSent, answered, noValidators, abandoned, view, fetched, lastBlock>>

parseHeight(c) == IF c = Garbled THEN 0 ELSE c

(* A call of the polled list: kept if changed, num_unconfirmed_txs always. *)
Poll(k, c, next) ==
  /\ pc = k
  /\ Goto(next)
  /\ \/ /\ Answers(k, c)
        /\ reachable' = TRUE
        /\ current' = IF k = "status" THEN parseHeight(c) ELSE current
        /\ IF k = "num_unconfirmed_txs"
           THEN Put(k, c) /\ UNCHANGED hashes
           ELSE IF Changed(k, c) THEN Put(k, c) /\ StoreHash(k, c) ELSE UNCHANGED <<payload, hashes>>
     \/ /\ Fails(k)
        /\ UNCHANGED <<reachable, current, payload, hashes>>
  /\ UNCHANGED <<height, now, cancelled, lastHeight, lastDump, lastSent, abandoned, view, fetched, lastBlock>>

(* dump_consensus_state, when its interval is over.                        *)
Dump ==
  LET k == "dump_consensus_state"
  IN  /\ pc = k
      /\ Goto("new_block")
      /\ IF now - lastDump < DumpInterval
         THEN UNCHANGED <<payload, hashes, lastDump, answered, noValidators>>
         ELSE \/ \E c \in Contents :
                   /\ Answers(k, c)
                   /\ lastDump' = now
                   /\ IF Changed(k, c)
                      THEN Put(k, c) /\ StoreHash(k, c)
                      ELSE UNCHANGED <<payload, hashes>>
              \/ Fails(k) /\ UNCHANGED <<payload, hashes, lastDump>>
      /\ UNCHANGED <<height, now, cancelled, current, reachable, lastHeight, lastSent, abandoned,
                     view, fetched, lastBlock>>

(* Validators(ctx, h): only a node that has the height answers.            *)
ValidatorsAt(h) == IF h <= height THEN ValidatorSets ELSE {}

(* Mutant: any other height counts as a new one.                           *)
IsNewHeightOther == current # lastHeight /\ current > 0

IsNewHeight == current > lastHeight /\ current > 0

(* Mutant: the set counts as sent although the filter held it back.        *)
SentIfAnswered(c) == lastSent' = [lastSent EXCEPT !["validators"] = now]

SentIfChanged(c) ==
  lastSent' = IF Changed("validators", c) THEN [lastSent EXCEPT !["validators"] = now] ELSE lastSent

(* A new height: lastHeight advances, then the validators of that height.  *)
NewBlock ==
  LET k == "validators"
  IN  /\ pc = "new_block"
      /\ IF ~IsNewHeight
         THEN Goto("refresh") /\ UNCHANGED <<payload, hashes, lastHeight, lastSent, answered, noValidators, fetched>>
         ELSE /\ Goto("block")
              /\ lastHeight' = current
              /\ \/ \E c \in ValidatorsAt(current) :
                      /\ Answers(k, c)
                      /\ SentIfChanged(c)
                      /\ IF Changed(k, c)
                         THEN Put(k, c) /\ StoreHash(k, c) /\ fetched' = [fetched EXCEPT ![k] = now]
                         ELSE UNCHANGED <<payload, hashes, fetched>>
                 \/ Fails(k) /\ UNCHANGED <<payload, hashes, lastSent, fetched>>
      /\ UNCHANGED <<height, now, cancelled, current, reachable, lastDump, abandoned, view, lastBlock>>

(* Block(ctx, currentHeight): never filtered, and not retried.             *)
Block ==
  /\ pc = "block"
  /\ Goto("refresh")
  /\ \/ current <= height /\ Answers("block", current) /\ Put("block", current)
     \/ Fails("block") /\ UNCHANGED payload
  /\ UNCHANGED <<height, now, cancelled, current, reachable, hashes, lastHeight, lastDump,
                 lastSent, abandoned, view, fetched, lastBlock>>

(* The periodic re-emission of the validators, which bypasses the filter.  *)
RefreshDue ==
  /\ payload["validators"] = None
  /\ lastHeight > 0
  /\ now - lastSent["validators"] >= ValidatorsRefresh

Refetch(k, c) ==
  /\ Answers(k, c)
  /\ Put(k, c)
  /\ lastSent' = [lastSent EXCEPT ![k] = now]
  /\ fetched' = [fetched EXCEPT ![k] = now]

RefreshValidators ==
  /\ pc = "refresh"
  /\ Goto("genesis")
  /\ IF ~RefreshDue
     THEN UNCHANGED <<payload, lastSent, answered, noValidators, fetched>>
     ELSE \/ \E c \in ValidatorsAt(lastHeight) : Refetch("validators", c)
          \/ Fails("validators") /\ UNCHANGED <<payload, lastSent, fetched>>
  /\ UNCHANGED <<height, now, cancelled, current, reachable, hashes, lastHeight, lastDump,
                 abandoned, view, lastBlock>>

Genesis ==
  /\ pc = "genesis"
  /\ Goto("emit")
  /\ IF now - lastSent["genesis"] < GenesisRefresh
     THEN UNCHANGED <<payload, lastSent, answered, noValidators, fetched>>
     ELSE \/ Refetch("genesis", 0)
          \/ Fails("genesis") /\ UNCHANGED <<payload, lastSent, fetched>>
  /\ UNCHANGED <<height, now, cancelled, current, reachable, hashes, lastHeight, lastDump,
                 abandoned, view, lastBlock>>

(* The locals of collect are gone when it returns.                         *)
Forget(next) ==
  /\ Goto(next)
  /\ payload' = Nothing
  /\ current' = 0
  /\ reachable' = FALSE
  /\ noValidators' = FALSE

(* The payload, with reachable as rpc_reachable, goes to the channel.      *)
Emit ==
  /\ pc = "emit"
  /\ Forget("idle")
  /\ view' = [k \in Filtered |-> IF payload[k] # None THEN payload[k] ELSE view[k]]
  /\ lastBlock' = IF payload["block"] # None THEN payload["block"] ELSE lastBlock
  /\ UNCHANGED <<height, now, cancelled, hashes, lastHeight, lastDump, lastSent, answered,
                 abandoned, fetched>>

(* ctx.Done wins the send's select: the payload is gone, and Run, which    *)
(* ignores the error, is back at its select.                               *)
Abandon ==
  /\ pc = "emit"
  /\ cancelled
  /\ Forget("idle")
  /\ abandoned' = TRUE
  /\ UNCHANGED <<height, now, cancelled, hashes, lastHeight, lastDump, lastSent, answered,
                 view, fetched, lastBlock>>

Collect ==
  \/ Begin
  \/ Stop
  \/ \E c \in {height, Garbled} : Poll("status", c, "net_info")
  \/ \E c \in Contents : Poll("net_info", c, "num_unconfirmed_txs")
  \/ Poll("num_unconfirmed_txs", 0, "dump_consensus_state")
  \/ Dump
  \/ NewBlock
  \/ Block
  \/ RefreshValidators
  \/ Genesis
  \/ Emit
  \/ Abandon

Next == Collect \/ NodeMoves \/ Tick \/ Cancel

Spec == Init /\ [][Next]_vars
-----------------------------------------------------------------------------
Content == [Keys -> Nat \cup {None}]

TypeOK ==
  /\ height \in 0..MaxHeight
  /\ now \in 0..MaxTime
  /\ cancelled \in BOOLEAN
  /\ pc \in Keys \cup {"idle", "new_block", "refresh", "emit", "stopped"}
  /\ payload \in Content
  /\ current \in 0..MaxHeight
  /\ reachable \in BOOLEAN
  /\ hashes \in Content
  /\ lastHeight \in 0..MaxHeight
  /\ lastDump \in Never..now
  /\ lastSent \in [Refreshed -> Never..now]
  /\ answered \in [Filtered -> Nat \cup {None}]
  /\ abandoned \in BOOLEAN
  /\ noValidators \in BOOLEAN
  /\ view \in [Filtered -> Nat \cup {None}]
  /\ fetched \in [Refreshed -> Never..now]
  /\ lastBlock \in 0..MaxHeight

(* What the filter may hide: between two collects, the last content        *)
(* emitted of an endpoint is the last one it returned, over failed calls   *)
(* and values that change and change back.  The exception are validators,  *)
(* which the refresh emits without storing a hash: a set may be missing    *)
(* that is the one the filter let through last.  A payload abandoned at    *)
(* the cancellation leaves its hashes behind, and ends the claim.          *)
ViewCurrent ==
  pc = "idle" /\ ~abandoned =>
    \A k \in Filtered :
      view[k] = answered[k] \/ (k = "validators" /\ answered[k] = hashes[k])

(* A block is emitted at most once and in the order of heights, although   *)
(* the node may fall back, grow again, and fail any call.                  *)
BlocksInOrder ==
  [][Emit /\ payload["block"] # None => payload["block"] > lastBlock]_vars

(* Staleness windows hold: a collect that asks for the validators and gets *)
(* an answer leaves no gap of a refresh interval or more since a payload   *)
(* last carried them, whatever the filter held back meanwhile.             *)
ValidatorsStayFresh ==
  [][pc = "refresh" /\ pc' = "genesis" /\ lastHeight > 0 /\ ~noValidators' =>
       payload'["validators"] # None \/ now - fetched["validators"] < ValidatorsRefresh]_vars
=============================================================================
