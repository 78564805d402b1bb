----------------------------- MODULE Forwarder -----------------------------
(***************************************************************************)
(* From the sentinels to what the dashboards show: a sentinel polls its    *)
(* node, or its host, and posts payloads; the watchtower's forwarder turns *)
(* them into samples (Extract) and imports them into VictoriaMetrics; a    *)
(* dashboard shows the newest sample of a series within its lookback.      *)
(* Posts are delayed, repeated after a lost answer, and given up.          *)
(*                                                                         *)
(* The polls are those of RpcCollector and of the resource collector       *)
(* (internal/sentinel/resources), reduced to what they put into a payload: *)
(* the delta filter holds back some keys while they do not change.  The    *)
(* metadata and self collectors' payloads are samples of a single key.  A  *)
(* log batch becomes a push to Loki.                                       *)
(***************************************************************************)
EXTENDS Extract, FiniteSets

CONSTANTS
  Validators,     \* the sentinels' validators
  RpcAnswers,     \* what a node may answer to a poll: functions from endpoints to raw values
  MetricsData,    \* what a metrics collector may report
  Batches,        \* log batches: sequences of lines, their times relative to the collection's
  Lookback,       \* how far back a dashboard looks for a sample
  PastSkew,       \* maxLogsTsPastSkew
  FutureSkew,     \* maxLogsTsFutureSkew
  MaxPayloads,    \* bound: payloads posted
  MaxTime         \* bound: last tick of the clock

ASSUME ForwarderAssumption ==
  {Lookback, PastSkew, FutureSkew, MaxPayloads, MaxTime} \subseteq Nat

(* A raw value decodes or does not; a status comes from the node alone;    *)
(* docker's counters are uint64, or absent; a log line's time is a number. *)
ASSUME DataAssumption ==
  /\ \A a \in RpcAnswers : \A k \in DOMAIN a : "ok" \in DOMAIN a[k]
  /\ \A d \in MetricsData : "status" \notin DOMAIN d
  /\ \A d \in MetricsData :
       "container" \in DOMAIN d /\ d["container"].ok =>
         /\ d["container"].memory.usage \in 0..(Word - 1)
         /\ d["container"].memory.inactive_file \in {NotInt} \cup 0..(Word - 1)
  /\ Batches \subseteq Seq([object : BOOLEAN, module : Int, ts : STRING, at : Int])

VARIABLES
  now,      \* the clock
  hash,     \* the delta filter of each sentinel
  up,       \* history: the polls that found a node caught up
  made,     \* history: every payload made
  flight,   \* payloads posted that the sentinel may post again
  stored,   \* history: payloads whose samples VictoriaMetrics took
  vm,       \* the samples it holds
  push      \* the last Loki push: when, of which lines, and its values

vars == <<now, hash, up, made, flight, stored, vm, push>>
-----------------------------------------------------------------------------
(* The keys of the delta filter, and a hash before the first: unlike any   *)
(* raw value.  The validators, which a refresh takes past the filter, are  *)
(* in an answer when they go out (RpcCollector says when).                 *)
Filtered == {"status", "net_info", "dump_consensus_state",
             "cpu", "memory", "disk", "network", "container"}
NoHash == [never |-> TRUE]

Init ==
  /\ now = 0
  /\ hash = [v \in Validators |-> [k \in Filtered |-> NoHash]]
  /\ up = {}
  /\ made = {}
  /\ flight = {}
  /\ stored = {}
  /\ vm = {}
  /\ push = [at |-> 0, lines |-> <<>>, values |-> <<>>]

Tick ==
  /\ now < MaxTime
  /\ now' = now + 1
  /\ UNCHANGED <<hash, up, made, flight, stored, vm, push>>

(* At most one payload of a kind a tick: polls are further apart.          *)
Submit(p) ==
  /\ ~ \E q \in made : q.kind = p.kind /\ q.validator = p.validator /\ q.ts = now
  /\ Cardinality(made) < MaxPayloads
  /\ made' = made \cup {p}
  /\ flight' = flight \cup {p}
  /\ UNCHANGED <<now, stored, vm, push>>

(* The status says that the node is a validator that is caught up.         *)
CaughtUp(data) ==
  /\ "status" \in DOMAIN data /\ data["status"].ok
  /\ LET r == data["status"] IN r.validator_info /\ r.address # Empty /\ ~r.catching_up

Presence(v, t, data) == [validator |-> v, address |-> data["status"].address, ts |-> t]

(* The keys of a sample that the delta filter lets through, if any.        *)
Poll(kind, v, sample) ==
  LET unchanged == {k \in Filtered \cap DOMAIN sample : sample[k] = hash[v][k]}
      data == [k \in DOMAIN sample \ unchanged |-> sample[k]]
  IN  /\ DOMAIN data # {}
      /\ Submit([kind |-> kind, validator |-> v, ts |-> now, data |-> data])
      /\ hash' = [hash EXCEPT ![v] = [k \in Filtered |-> IF k \in DOMAIN sample THEN sample[k] ELSE @[k]]]
      /\ up' = IF CaughtUp(sample) THEN up \cup {Presence(v, now, sample)} ELSE up

(* A poll of the node; rpc_reachable is always part of it.                 *)
PollRpc(v, answer) == Poll("rpc", v, answer)

(* A poll of the host and of docker: what fails is left out.               *)
PollMetrics(v, sample) == Poll("metrics", v, sample)

(* A batch of log lines, dated by the node's clock.                        *)
CollectLogs(v, lines) ==
  /\ Submit([kind |-> "logs", validator |-> v, ts |-> now,
             data |-> [lines |-> [i \in DOMAIN lines |-> [lines[i] EXCEPT !.at = now + @]]]])
  /\ UNCHANGED <<hash, up>>
-----------------------------------------------------------------------------
(* Mutant: samples are stamped when they are received.                     *)
ReceivedAt(p) == now

(* Samples are stamped with the time the sentinel collected them.          *)
Timestamp(p) == p.ts

Lines(p) ==
  IF p.kind = "rpc"
  THEN extractRPC(p.validator, Timestamp(p), p.data)
  ELSE extractMetrics(p.validator, Timestamp(p), p.data)

(* ForwardRPC, ForwardMetrics: the lines are imported.  The sentinel       *)
(* learns of it, or its answer is lost and it will post again.             *)
Sent(p) ==
  /\ p \in flight
  /\ stored' = stored \cup {p}
  /\ flight' \in {flight, flight \ {p}}

ForwardLines(p) ==
  /\ p.kind \in {"rpc", "metrics"}
  /\ Sent(p)
  /\ vm' = vm \cup Lines(p)
  /\ UNCHANGED <<now, hash, up, made, push>>

(* ForwardLogs: the push, in one of the orders the sort may leave.         *)
ForwardLogs(p) ==
  /\ p.kind = "logs"
  /\ Sent(p)
  /\ \E values \in toLokiPush(p.data.lines, now, PastSkew, FutureSkew) :
       push' = [at |-> now, lines |-> p.data.lines, values |-> values]
  /\ UNCHANGED <<now, hash, up, made, vm>>

(* The import fails and the sentinel's last attempt is used up, or its     *)
(* buffer overflows.                                                       *)
GiveUp(p) ==
  /\ p \in flight
  /\ flight' = flight \ {p}
  /\ UNCHANGED <<now, hash, up, made, stored, vm, push>>

Next ==
  \/ Tick
  \/ \E v \in Validators, answer \in RpcAnswers : PollRpc(v, answer)
  \/ \E v \in Validators, data \in MetricsData : PollMetrics(v, data)
  \/ \E v \in Validators, lines \in Batches : CollectLogs(v, lines)
  \/ \E p \in flight : ForwardLines(p) \/ ForwardLogs(p) \/ GiveUp(p)

Spec == Init /\ [][Next]_vars
-----------------------------------------------------------------------------
(* The samples of a series a dashboard sees now.                           *)
Seen(name) == {s \in vm : s.name = name /\ s.ts > now - Lookback /\ s.ts <= now}

(* The polls within the lookback that found a node caught up, those that   *)
(* the presence signal shows, and those whose payload was stored.          *)
RecentlyUp == {u \in up : u.ts > now - Lookback}
Shown == {[validator |-> s.labels.validator, address |-> s.labels.address, ts |-> s.ts] :
            s \in Seen("validator_online")}
Reported(u) == \E p \in stored : p.kind = "rpc" /\ p.validator = u.validator /\ p.ts = u.ts

(* The presence signal says what the polls found, over delays, repetitions *)
(* and losses: a node is shown online only by a poll within the lookback   *)
(* that found it caught up, so that a late post revives no node that went  *)
(* away meanwhile; and such a poll is missing only when its payload did    *)
(* not arrive, or when the sentinel had found the same before and its      *)
(* filter held the status back.                                            *)
OnlineAsPolled ==
  /\ Shown \subseteq RecentlyUp
  /\ \A u \in RecentlyUp \ Shown :
       Reported(u) => \E e \in up : e.validator = u.validator /\ e.address = u.address /\ e.ts < u.ts

(* What appendRPCStatus' comment says of the signal, "missing" == "not     *)
(* online": a node found caught up by a poll that arrived is shown.  No    *)
(* run checks this and it does not hold: while a status does not change,   *)
(* the filter holds it back, and the sample of the last change ages out of *)
(* the lookback, or never came.                                            *)
MissingIsOffline ==
  \A u \in RecentlyUp :
    Reported(u) => \E s \in Shown : s.validator = u.validator /\ s.address = u.address

(* A reporter's view of the validator set is never part of one: for the    *)
(* time of each payload stored, size, total and members all describe the   *)
(* whole set it reported, or there is nothing, although members may come   *)
(* without an address or with a power that does not parse.                 *)
At(name, v, t) == {s \in vm : s.name = name /\ s.labels.validator = v /\ s.ts = t}

SetNeverPartial ==
  \A p \in {p \in stored : p.kind = "rpc" /\ "validators" \in DOMAIN p.data} :
    LET set     == p.data["validators"].validators
        size    == {s.value : s \in At("validator_set_size", p.validator, p.ts)}
        total   == {s.value : s \in At("validator_set_total_power", p.validator, p.ts)}
        members == {<<s.labels.address, s.value>> : s \in At("validator_set_power", p.validator, p.ts)}
    IN  \/ size = {} /\ total = {} /\ members = {}
        \/ /\ size = {Len(set)}
           /\ total = {TotalPower(set)}
           /\ members = {<<m.address, m.power>> : m \in {m \in ToSet(set) : m.address # Empty}}

(* A container's working set is never more than its usage at that time,    *)
(* although docker samples the reclaimable part separately.                *)
WorkingSetBounded ==
  \A v \in Validators, t \in 0..MaxTime :
    \A w \in At("container_memory_working_set", v, t), u \in At("container_memory_usage", v, t) :
      w.labels = u.labels => w.value \in 0..u.value

(* A push holds every line of its batch once, in the order of its times,   *)
(* all within the window Loki accepts, and a line whose own time is in the *)
(* window keeps it, however late the batch comes and however the node's    *)
(* clock is off.                                                           *)
PushOrdered ==
  LET values == push.values
      window == (push.at - PastSkew)..(push.at + FutureSkew)
  IN  /\ Len(values) = Len(push.lines)
      /\ {values[i].line : i \in DOMAIN values} = DOMAIN push.lines
      /\ \A i \in DOMAIN values :
           LET own == extractModuleAndTS(push.lines[values[i].line], push.at).at
           IN  /\ values[i].nano \in window
               /\ own \in window => values[i].nano = own
               /\ i > 1 => values[i - 1].nano <= values[i].nano
=============================================================================
