------------------------------ MODULE Extract ------------------------------
(***************************************************************************)
(* The watchtower forwarder's conversions (internal/watchtower/forwarder): *)
(* a sentinel payload becomes a set of VictoriaMetrics samples, a batch of *)
(* log lines a Loki push.  One operator per extractor, each with the name  *)
(* of the Go function.                                                     *)
(*                                                                         *)
(* A raw JSON value is a record: [ok |-> FALSE] when it does not decode    *)
(* into the struct the extractor expects, else ok |-> TRUE and the fields  *)
(* it reads.  Strings (addresses, names, values) are numbers, Empty being  *)
(* the empty one, and labels that always come together are one label.      *)
(***************************************************************************)
EXTENDS Integers, Sequences, SequencesExt

CONSTANT Word      \* 2^64: uint64 values wrap there

ASSUME WordAssumption == Word \in Nat \ {0}

(* A json.Number that is no int64: absent, null, fractional or too large.  *)
NotInt == -1
Empty  == 0

(* The samples of one import are a set: VictoriaMetrics takes its lines in *)
(* any order.                                                              *)
vmSample(name, labels, value, ts) ==
  [name |-> name, labels |-> labels, value |-> value, ts |-> ts]

intSample(name, labels, num, ts) ==
  IF num = NotInt THEN {} ELSE {vmSample(name, labels, num, ts)}

boolToFloat(b) == IF b THEN 1 ELSE 0

(* The same samples for every value of a decoded list or map.              *)
ForEach(seq, Samples(_)) == UNION {Samples(x) : x \in ToSet(seq)}
-----------------------------------------------------------------------------
(* Own voting power and presence need validator_info; presence also needs  *)
(* an address and a node that is not catching up.                          *)
appendRPCStatus(v, ts, r) ==
  LET base == [validator |-> v]
      own  == [validator |-> v, address |-> r.address]
      online == r.address # Empty /\ ~r.catching_up
  IN  intSample("latest_block_height", base, r.height, ts)
        \cup {vmSample("catching_up", base, boolToFloat(r.catching_up), ts),
              vmSample("node_build_info", [validator |-> v, node |-> r.node], 1, ts)}
        \cup (IF r.validator_info
              THEN intSample("validator_voting_power", own, r.power, ts)
                     \cup {s \in {vmSample("validator_online", own, 1, ts)} : online}
              ELSE {})

appendRPCNetInfo(v, ts, r) == intSample("peers", [validator |-> v], r.n_peers, ts)

appendRPCMempool(v, ts, r) ==
  intSample("mempool_txs", [validator |-> v], r.n_txs, ts)
    \cup intSample("mempool_bytes", [validator |-> v], r.total_bytes, ts)

appendRPCConsensus(v, ts, r) ==
  intSample("consensus_height", [validator |-> v], r.height, ts)
    \cup intSample("consensus_round", [validator |-> v], r.round, ts)
    \cup intSample("consensus_step", [validator |-> v], r.step, ts)

(* The bech32 label is there for an ed25519 key that encodes.              *)
MemberLabels(v, m) ==
  IF m.pub_key = "encodes"
  THEN [validator |-> v, address |-> m.address, pub_key_bech32 |-> m.address]
  ELSE [validator |-> v, address |-> m.address]

SumOf(seq, Field(_)) == FoldLeft(LAMBDA sum, x : sum + Field(x), 0, seq)

(* An int64 sum; a chain's total power is far below where it would wrap.   *)
TotalPower(members) == SumOf(members, LAMBDA m : m.power)

SetSamples(v, ts, members) ==
  {vmSample("validator_set_size", [validator |-> v], Len(members), ts),
   vmSample("validator_set_total_power", [validator |-> v], TotalPower(members), ts)}
    \cup {vmSample("validator_set_power", MemberLabels(v, m), m.power, ts) :
            m \in {m \in ToSet(members) : m.address # Empty}}

(* Mutant: a member whose power does not parse is passed over.             *)
appendRPCValidatorsSkipping(v, ts, r) ==
  {[s EXCEPT !.value = IF s.name = "validator_set_size" THEN Len(r.validators) ELSE @] :
     s \in SetSamples(v, ts, SelectSeq(r.validators, LAMBDA m : m.power # NotInt))}

(* All or nothing: one power that does not parse drops the whole group.    *)
appendRPCValidators(v, ts, r) ==
  IF \E m \in ToSet(r.validators) : m.power = NotInt THEN {} ELSE SetSamples(v, ts, r.validators)

appendRPCBlock(v, ts, r) == intSample("block_num_txs", [validator |-> v], r.num_txs, ts)

appendRPCSentryStatus(v, ts, r) == {vmSample("sentry_info", [validator |-> v, node |-> r.node], 1, ts)}

appendRPCSentryNetInfo(v, ts, r) == intSample("peers_via_sentry", [validator |-> v], r.n_peers, ts)

ConfigSamples(name, v, ts, values) ==
  {vmSample(name, [validator |-> v, key |-> k, value |-> values[k]], 1, ts) : k \in DOMAIN values}

appendRPCSentryConfig(v, ts, r) == ConfigSamples("sentry_config", v, ts, r.values)

appendRPCReachable(v, ts, r) == {vmSample("reachable", [validator |-> v], r.value, ts)}

(* A quoted app_hash is taken; null, like anything else, becomes empty.    *)
normalizeAppHash(h) == IF h.quoted THEN h.text ELSE Empty

(* A parameter without a value has no sample; a validator always has one.  *)
appendRPCGenesis(v, ts, r) ==
  {vmSample("genesis_info",
            [validator |-> v, chain |-> r.chain, app_hash |-> normalizeAppHash(r.app_hash)], 1, ts)}
    \cup ConfigSamples("genesis_consensus_param", v, ts,
                       [p \in {p \in DOMAIN r.params : r.params[p] # Empty} |-> r.params[p]])
    \cup ForEach(r.validators,
                 LAMBDA g : {vmSample("genesis_validator",
                                      [validator |-> v, address |-> g.address, power |-> g.power], 1, ts)})

(* extractRPC: the keys a payload carries, except those that do not decode *)
(* or that no extractor knows.                                             *)
rpcLines(key, v, ts, r) ==
  CASE key = "status"               -> appendRPCStatus(v, ts, r)
    [] key = "net_info"             -> appendRPCNetInfo(v, ts, r)
    [] key = "num_unconfirmed_txs"  -> appendRPCMempool(v, ts, r)
    [] key = "dump_consensus_state" -> appendRPCConsensus(v, ts, r)
    [] key = "validators"           -> appendRPCValidators(v, ts, r)
    [] key = "block"                -> appendRPCBlock(v, ts, r)
    [] key = "genesis"              -> appendRPCGenesis(v, ts, r)
    [] key = "sentry_status"        -> appendRPCSentryStatus(v, ts, r)
    [] key = "sentry_net_info"      -> appendRPCSentryNetInfo(v, ts, r)
    [] key = "sentry_config"        -> appendRPCSentryConfig(v, ts, r)
    [] key = "rpc_reachable"        -> appendRPCReachable(v, ts, r)
    [] OTHER                        -> {}

extractRPC(v, ts, data) ==
  UNION {rpcLines(k, v, ts, data[k]) : k \in {k \in DOMAIN data : data[k].ok}}
-----------------------------------------------------------------------------
appendHostCPU(v, ts, r) ==
  IF r.percents = <<>> THEN {} ELSE {vmSample("host_cpu_percent", [validator |-> v], Head(r.percents), ts)}

(* One sample per field of a struct.                                       *)
FieldSamples(labels, fields, ts) == {vmSample(f, labels, fields[f], ts) : f \in DOMAIN fields}

appendHostMemory(v, ts, r) ==
  FieldSamples([validator |-> v],
    [host_memory_total     |-> r.total, host_memory_available |-> r.available,
     host_memory_used      |-> r.used,  host_memory_free      |-> r.free], ts)

appendHostDisk(v, ts, r) ==
  FieldSamples([validator |-> v, path |-> r.path],
    [host_disk_total |-> r.total, host_disk_free |-> r.free, host_disk_used |-> r.used], ts)

appendHostNetwork(v, ts, r) ==
  ForEach(r.nics, LAMBDA n :
    FieldSamples([validator |-> v, interface |-> n.name],
      [host_network_receive |-> n.recv, host_network_transmit |-> n.sent], ts))

(* Mutant: the reclaimable cache is always subtracted.                     *)
workingSetUnguarded(m) == (m.usage - m.inactive_file) % Word

(* Usage minus inactive_file, which some docker versions leave out and     *)
(* which is sampled apart from the usage.                                  *)
workingSet(m) ==
  IF m.inactive_file # NotInt /\ m.inactive_file <= m.usage
  THEN (m.usage - m.inactive_file) % Word
  ELSE m.usage

(* A container without a name is labelled with the validator's.            *)
appendContainer(v, ts, r) ==
  FieldSamples([validator |-> v, container |-> IF r.name = Empty THEN v ELSE r.name],
    [container_cpu_seconds        |-> r.cpu,
     container_memory_usage       |-> r.memory.usage,
     container_memory_limit       |-> r.memory.limit,
     container_memory_working_set |-> workingSet(r.memory),
     container_network_receive    |-> SumOf(r.networks, LAMBDA n : n.rx) % Word,
     container_network_transmit   |-> SumOf(r.networks, LAMBDA n : n.tx) % Word], ts)

appendNodeConfig(v, ts, r) == ConfigSamples("node_config", v, ts, r.values)

appendSelfStats(v, ts, r) ==
  UNION {{vmSample("self_bytes_sent_total", [validator |-> v, type |-> t, encoding |-> "uncompressed"],
                   r.types[t].uncompressed, ts),
          vmSample("self_bytes_sent_total", [validator |-> v, type |-> t, encoding |-> "wire"],
                   r.types[t].wire, ts)}
           \cup {vmSample("self_drops_total", [validator |-> v, type |-> t, reason |-> d],
                          r.types[t].drops[d], ts) : d \in DOMAIN r.types[t].drops}
         : t \in DOMAIN r.types}

metricsLines(key, v, ts, r) ==
  CASE key = "cpu"        -> appendHostCPU(v, ts, r)
    [] key = "memory"     -> appendHostMemory(v, ts, r)
    [] key = "disk"       -> appendHostDisk(v, ts, r)
    [] key = "network"    -> appendHostNetwork(v, ts, r)
    [] key = "container"  -> appendContainer(v, ts, r)
    [] key = "config"     -> appendNodeConfig(v, ts, r)
    [] key = "self_stats" -> appendSelfStats(v, ts, r)
    [] OTHER              -> {}

extractMetrics(v, ts, data) ==
  UNION {metricsLines(k, v, ts, data[k]) : k \in {k \in DOMAIN data : data[k].ok}}
-----------------------------------------------------------------------------
(* A log line: whether it is a JSON object, its module (NotInt if not a    *)
(* string, so that the line does not decode), and its ts field: "number"   *)
(* and "string" parse, to the time at; "none" is absent or unparseable.    *)
Decodes(line) == line.object /\ line.module # NotInt

extractModuleAndTS(line, now) ==
  [module |-> IF Decodes(line) THEN line.module ELSE Empty,      \* Empty is "unknown"
   at     |-> IF Decodes(line) /\ line.ts \in {"number", "string"} THEN line.at ELSE now]

(* Mutant: the future is not clamped.                                      *)
ClampPast(at, now, past, future) == IF at < now - past THEN now ELSE at

Clamp(at, now, past, future) == IF at < now - past \/ at > now + future THEN now ELSE at

(* The entry of the i-th line; its body loses ts and level if an object.   *)
lokiEntry(line, i, now, past, future) ==
  LET e == extractModuleAndTS(line, now)
  IN  [line |-> i, stripped |-> line.object, module |-> e.module, nano |-> Clamp(e.at, now, past, future)]

(* What slices.SortFunc may make of entries: it is not stable, so entries  *)
(* of equal times come in any order.                                       *)
SortedByNano(entries) ==
  {s \in SetToSeqs(ToSet(entries)) : \A i, j \in DOMAIN s : i < j => s[i].nano <= s[j].nano}

(* The values of the one stream of a push, in every order it may have.     *)
toLokiPush(lines, now, past, future) ==
  SortedByNano([i \in DOMAIN lines |-> lokiEntry(lines[i], i, now, past, future)])
=============================================================================
