----------------------------- MODULE Watchtower -----------------------------
(***************************************************************************)
(* The watchtower's request path as one system: the authenticator and its  *)
(* reloads (Auth), the per-validator rate limiter (ratelimit), the         *)
(* endpoint handlers (handlers), the forwarder's outcome and the counters  *)
(* (stats, metrics).  handlers.go chains them as auth -> rate limit -> mux *)
(* -> handler; this module continues a request where Auth leaves it, at    *)
(* pc = "next".  When a reload runs is ConfigReload's subject; here one    *)
(* may run at any time.                                                    *)
(*                                                                         *)
(* A payload counts as one byte, and a backend as the set of payloads it   *)
(* stores.  A payload's content is "full", "malformed" (it does not       *)
(* decompress or decode) or "empty": an rpc or metrics payload no metric   *)
(* can be taken from, which has nothing to post.                           *)
(***************************************************************************)
EXTENDS Auth

CONSTANTS
  Payloads,  \* requests clients send: records [path, level, content]
  Rps,       \* security.rate_limit_rps, in requests per tick
  Burst      \* security.rate_limit_burst

ASSUME LimitAssumption == Rps \in Nat \ {0} /\ Burst \in Nat \ {0}

VARIABLES
  payload,   \* what each request carries
  stage,     \* where a request is past the authenticator
  limiters,  \* Limiter.limiters: validator name -> token bucket
  counters,  \* metrics counters, by label
  stats,     \* Stats.data: <<validator, type>> -> [total, lastHour]
  stored     \* history: what the backends hold

handlerVars == <<payload, stage, limiters, counters, stats, stored>>
vars == <<authVars, handlerVars>>
-----------------------------------------------------------------------------
Names == UNION {DOMAIN c : c \in Configs}
Permissions == {"rpc", "metrics", "logs", "otlp"}

CounterLabels ==
  ({"received", "permission_denied"} \X Names \X Permissions)
    \cup ({"logs_below_min_level"} \X Names \X {"logs"})
    \cup ({"rate_limited"} \X Names \X {"any"})

Count(label) == [counters EXCEPT ![label] = @ + 1]

(* logger.LevelRank: an unknown level ranks as info.                       *)
LevelRank(level) ==
  CASE level = "debug" -> 0
    [] level = "warn"  -> 2
    [] level = "error" -> 3
    [] OTHER           -> 1

Validator(r)   == entry[r].name
Permission(r)  == payload[r].path
(* Mutant: the permission check is dropped.                                *)
MayPostAnything(r) == TRUE

MayPost(r)     == Permission(r) \in entry[r].config.permissions

BelowMinLevel(r) ==
  LET min == entry[r].config.logsMinLevel
  IN  payload[r].path = "logs" /\ min # "" /\ LevelRank(payload[r].level) < LevelRank(min)

(* Mutant: every request gets a bucket of its own.                         *)
BucketPerRequest(v) == [tokens |-> Burst, last |-> now]

(* x/time/rate: a bucket starts full, refills at Rps per tick up to Burst. *)
Bucket(v) == IF v \in DOMAIN limiters THEN limiters[v] ELSE [tokens |-> Burst, last |-> now]

Refilled(b) ==
  LET t == b.tokens + Rps * (now - b.last)
  IN  IF t > Burst THEN Burst ELSE t

Allow(b) == Refilled(b) >= 1

SetBucket(v, b) == [w \in DOMAIN limiters \cup {v} |-> IF w = v THEN b ELSE limiters[w]]
-----------------------------------------------------------------------------
Init ==
  /\ AuthInit
  /\ payload \in [Reqs -> Payloads]
  /\ stage = [r \in Reqs |-> "limit"]
  /\ limiters = [v \in {} |-> [tokens |-> Burst, last |-> 0]]
  /\ counters = [l \in CounterLabels |-> 0]
  /\ stats = [k \in Names \X Permissions |-> [total |-> 0, lastHour |-> 0]]
  /\ stored = {}

At(r, s)    == pc[r] = "next" /\ stage[r] = s
Goto(r, s)  == stage' = [stage EXCEPT ![r] = s]

(* Limiter.allow: the validator's bucket, created on first use, then Allow.*)
RateLimit(r) ==
  LET v == Validator(r)
      b == Bucket(v)
  IN  /\ At(r, "limit")
      /\ \/ /\ Allow(b)
            /\ limiters' = SetBucket(v, [tokens |-> Refilled(b) - 1, last |-> now])
            /\ Goto(r, "handler")
            /\ UNCHANGED counters
         \/ /\ ~Allow(b)
            /\ limiters' = SetBucket(v, b)
            /\ counters' = Count(<<"rate_limited", v, "any">>)
            /\ Goto(r, "too_many_requests")
      /\ UNCHANGED <<authVars, payload, stats, stored>>

(* handleAuthCheck reports the context's validator and changes nothing.    *)
AuthCheck(r) ==
  /\ At(r, "handler")
  /\ payload[r].path = "auth_check"
  /\ Goto(r, "ok")
  /\ UNCHANGED <<authVars, payload, limiters, counters, stats, stored>>

(* handlePayload: the permission check, on the configuration the request   *)
(* carries, then the body, which may be cut off or over the size limit.    *)
Forbid(r) ==
  /\ At(r, "handler")
  /\ payload[r].path # "auth_check"
  /\ ~MayPost(r)
  /\ counters' = Count(<<"permission_denied", Validator(r), Permission(r)>>)
  /\ Goto(r, "forbidden")
  /\ UNCHANGED <<authVars, payload, limiters, stats, stored>>

ReadBody(r) ==
  /\ At(r, "handler")
  /\ payload[r].path # "auth_check"
  /\ MayPost(r)
  /\ \/ Goto(r, "forward")
     \/ Goto(r, "bad_request")
  /\ UNCHANGED <<authVars, payload, limiters, counters, stats, stored>>

(* The forwarder cannot decode the payload.                                *)
ForwardMalformed(r) ==
  /\ At(r, "forward")
  /\ payload[r].content = "malformed"
  /\ Goto(r, "bad_gateway")
  /\ UNCHANGED <<authVars, payload, limiters, counters, stats, stored>>

(* It drops a log payload below logs_min_level and answers nil.            *)
DropBelowMinLevel(r) ==
  /\ At(r, "forward")
  /\ payload[r].content # "malformed"
  /\ BelowMinLevel(r)
  /\ counters' = Count(<<"logs_below_min_level", Validator(r), "logs">>)
  /\ Goto(r, "record_stats")
  /\ UNCHANGED <<authVars, payload, limiters, stats, stored>>

(* postVMLines has no line to post and answers nil.                        *)
ForwardNothing(r) ==
  /\ At(r, "forward")
  /\ payload[r].content = "empty"
  /\ Goto(r, "record_stats")
  /\ UNCHANGED <<authVars, payload, limiters, counters, stats, stored>>

(* Mutant: a backend's refusal is logged and acknowledged.                 *)
ForwardIgnoresError(r) ==
  /\ At(r, "forward")
  /\ payload[r].content = "full" /\ ~BelowMinLevel(r)
  /\ Goto(r, "record_stats")
  /\ UNCHANGED stored
  /\ UNCHANGED <<authVars, payload, limiters, counters, stats>>

(* It posts the others: stored; refused or unreachable; or stored by a     *)
(* backend whose answer is lost.                                           *)
Forward(r) ==
  LET item == [req |-> r, validator |-> Validator(r), type |-> Permission(r)]
  IN  /\ At(r, "forward")
      /\ payload[r].content = "full"
      /\ ~BelowMinLevel(r)
      /\ \/ Goto(r, "record_stats") /\ stored' = stored \cup {item}
         \/ Goto(r, "bad_gateway") /\ UNCHANGED stored
         \/ Goto(r, "bad_gateway") /\ stored' = stored \cup {item}
      /\ UNCHANGED <<authVars, payload, limiters, counters, stats>>

(* Stats.Record, then Metrics.RecordReceived and the 200.                  *)
RecordStats(r) ==
  /\ At(r, "record_stats")
  /\ stats' = [stats EXCEPT ![<<Validator(r), Permission(r)>>] =
                 [total |-> @.total + 1, lastHour |-> @.lastHour + 1]]
  /\ Goto(r, "record_received")
  /\ UNCHANGED <<authVars, payload, limiters, counters, stored>>

RecordReceived(r) ==
  /\ At(r, "record_received")
  /\ counters' = Count(<<"received", Validator(r), Permission(r)>>)
  /\ Goto(r, "ok")
  /\ UNCHANGED <<authVars, payload, limiters, stats, stored>>

(* Mutant: the snapshot starts all counters over.                          *)
SnapshotResetsAll ==
  /\ stats' = [k \in DOMAIN stats |-> [total |-> 0, lastHour |-> 0]]
  /\ UNCHANGED <<authVars, payload, stage, limiters, counters, stored>>

(* RunStatsLogger's tick: Snapshot resets the hourly counters.             *)
Snapshot ==
  /\ stats' = [k \in DOMAIN stats |-> [stats[k] EXCEPT !.lastHour = 0]]
  /\ UNCHANGED <<authVars, payload, stage, limiters, counters, stored>>

Handler(r) ==
  \/ RateLimit(r)
  \/ AuthCheck(r)
  \/ Forbid(r)
  \/ ReadBody(r)
  \/ ForwardMalformed(r)
  \/ DropBelowMinLevel(r)
  \/ ForwardNothing(r)
  \/ Forward(r)
  \/ RecordStats(r)
  \/ RecordReceived(r)

Next ==
  \/ \E r \in Reqs : Handler(r)
  \/ \E r \in Reqs : Middleware(r) /\ UNCHANGED handlerVars
  \/ Tick /\ UNCHANGED handlerVars
  \/ (\E c \in Configs : Reload(c)) /\ UNCHANGED handlerVars
  \/ Snapshot

Spec == Init /\ [][Next]_vars
-----------------------------------------------------------------------------
Stages == {"limit", "handler", "forward", "record_stats", "record_received",
           "ok", "too_many_requests", "forbidden", "bad_request", "bad_gateway"}

TypeOK ==
  /\ payload \in [Reqs -> Payloads]
  /\ stage \in [Reqs -> Stages]
  /\ DOMAIN limiters \subseteq Names
  /\ \A v \in DOMAIN limiters : limiters[v] \in [tokens : 0..Burst, last : Nat]
  /\ counters \in [CounterLabels -> Nat]
  /\ stats \in [Names \X Permissions -> [total : Nat, lastHour : Nat]]
  /\ stored \subseteq [req : Reqs, validator : Names, type : Permissions]

(* Whatever reloads run while a request is under way, a payload reaches a  *)
(* backend only under a validator name and a permission that one and the   *)
(* same configuration, in force since the request's ban check, gives to    *)
(* the token it presented: the context snapshot never mixes two tables.    *)
StoredAsPermitted ==
  \A x \in stored : \E c \in seen[x.req] :
    /\ x.validator \in DOMAIN c
    /\ c[x.validator].token = token[x.req]
    /\ x.type \in c[x.validator].permissions
    /\ x.type = payload[x.req].path

(* A 200 to a payload means it is in a backend, unless it holds nothing to *)
(* store or is a log batch the validator's own logs_min_level excludes:    *)
(* the sentinel forgets a payload on a 200, so anything else would be lost.*)
AckedIsStored ==
  \A r \in Reqs :
    pc[r] = "next" /\ stage[r] = "ok" /\ payload[r].path # "auth_check" =>
      (\E x \in stored : x.req = r) \/ BelowMinLevel(r) \/ payload[r].content = "empty"

(* The payloads of a type that a validator's requests have brought to one  *)
(* of the stages in S.                                                     *)
Answered(v, t, S) ==
  {r \in Reqs : pc[r] = "next" /\ stage[r] \in S /\ Validator(r) = v /\ Permission(r) = t}

Throttled(v) == {r \in Reqs : pc[r] = "next" /\ stage[r] = "too_many_requests" /\ Validator(r) = v}

(* The books agree with the answers, over concurrent requests, hourly      *)
(* snapshots and reloads that give a request's token to another validator: *)
(* the totals of Stats and the metrics count each 200, 403 and 429 once,   *)
(* under the name and type it was given for, and an hourly count never     *)
(* exceeds its total.                                                      *)
CountsMatchAnswers ==
  /\ \A v \in Names, t \in Permissions :
       /\ stats[<<v, t>>].total = Cardinality(Answered(v, t, {"record_received", "ok"}))
       /\ stats[<<v, t>>].lastHour <= stats[<<v, t>>].total
       /\ counters[<<"received", v, t>>] = Cardinality(Answered(v, t, {"ok"}))
       /\ counters[<<"permission_denied", v, t>>] = Cardinality(Answered(v, t, {"forbidden"}))
  /\ \A v \in Names : counters[<<"rate_limited", v, "any">>] = Cardinality(Throttled(v))

(* The limiter admits at most a burst plus the refill since the start to   *)
(* each validator, over all its concurrent requests and across reloads     *)
(* that remove the validator and bring it back.                            *)
Admitted(v) ==
  {r \in Reqs : pc[r] = "next" /\ stage[r] \notin {"limit", "too_many_requests"} /\ Validator(r) = v}

RateBound == \A v \in Names : Cardinality(Admitted(v)) <= Burst + Rps * now
=============================================================================
