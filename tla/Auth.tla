-------------------------------- MODULE Auth --------------------------------
(***************************************************************************)
(* The watchtower's authentication middleware                              *)
(* (internal/watchtower/auth/auth.go): bearer-token lookup, per-IP failure *)
(* counting and bans.                                                      *)
(*                                                                         *)
(* Every request runs in a goroutine of its own and goes through three     *)
(* critical sections that other requests, and a SIGHUP reload, interleave  *)
(* with: the ban check (under mu), the token lookup (under tokensMu), then *)
(* recordFailure or recordSuccess (under mu again).  An action is one      *)
(* critical section together with the local code up to the next one.       *)
(*                                                                         *)
(* Time is a natural number of ticks; time.Now() calls made inside one     *)
(* critical section read the same tick.  A Go zero time is 0 for banExpiry *)
(* (a real expiry is at least BanDuration) and -BanDuration for the        *)
(* never-run cleanup: any value at least BanDuration in the past.          *)
(***************************************************************************)
EXTENDS Integers, FiniteSets

CONSTANTS
  Reqs,          \* every request of a behaviour; each is handled once
  IPs,           \* client addresses, as remoteIP returns them
  Tokens,        \* bearer tokens clients present, registered or not
  Configs,       \* validator tables a valid configuration file may hold
  BanThreshold,  \* security.ban_threshold
  BanDuration,   \* security.ban_duration, in ticks
  MaxInFlight,   \* bound: requests inside the middleware at one time
  MaxTime        \* bound: last tick of the clock

(* config.validate: a threshold and a duration that are positive.          *)
ASSUME BanAssumption ==
  /\ BanThreshold \in Nat \ {0}
  /\ BanDuration \in Nat \ {0}

ASSUME BoundAssumption ==
  /\ IsFiniteSet(Reqs)
  /\ MaxInFlight \in Nat \ {0}
  /\ MaxTime \in Nat

(* A configuration maps validator names to [token, permissions]; validate  *)
(* rejects a table in which two validators share a token.                  *)
ASSUME ConfigAssumption ==
  /\ Configs # {}
  /\ \A c \in Configs, m, n \in UNION {DOMAIN d : d \in Configs} :
       m \in DOMAIN c /\ n \in DOMAIN c /\ c[m].token = c[n].token => m = n

VARIABLES
  now,           \* the clock
  pc,            \* where each request is in the middleware
  ip,            \* its remote address (remoteIP)
  token,         \* the bearer token it presents
  entry,         \* the token entry its lookup returned, carried in its context
  ips,           \* Authenticator.ips: failure records
  lastCleanup,   \* Authenticator.lastCleanup
  tokens,        \* Authenticator.tokens
  authFailures,  \* metrics: rejections counted, by reason
  loaded,        \* history: the validator table last given to New or Reload
  seen           \* history: the tables in force since a request's ban check

authVars == <<now, pc, ip, token, entry, ips, lastCleanup, tokens, authFailures, loaded, seen>>
-----------------------------------------------------------------------------
(* No entry in the context: the lookup has not run, or found nothing.      *)
NoEntry == [present |-> FALSE]

(* A missing record behaves as one with no failures: recordFailure creates *)
(* it zeroed and increments it under the same lock.                        *)
NoRecord == [failures |-> 0, banExpiry |-> 0, lastSeen |-> 0]

IpRecord == [failures : Nat, banExpiry : Nat, lastSeen : Nat]

Entry == UNION {{[name |-> n, config |-> c[n]] : n \in DOMAIN c} : c \in Configs}

(* The token map New and Reload build from a validator table.              *)
TokenIndex(validators) ==
  [t \in {validators[n].token : n \in DOMAIN validators} |->
     LET n == CHOOSE n \in DOMAIN validators : validators[n].token = t
     IN  [name |-> n, config |-> validators[n]]]

(* Requests between their ban check and their recordFailure/recordSuccess. *)
InFlight == {r \in Reqs : pc[r] \in {"lookup", "failure", "success"}}
InFlightFrom(a) == {r \in InFlight : ip[r] = a}
-----------------------------------------------------------------------------
(* maybeSweep, with the lock held: the records left once it has run.       *)
SweepDue == now - lastCleanup >= BanDuration

(* Mutant: the ban ends a moment early.                                    *)
BanExpiredEarly(rec) == rec.banExpiry # 0 /\ now >= rec.banExpiry

(* Mutant: only bans are swept, as before un-banned records were added.    *)
GoneQuietNever(rec) == FALSE

BanExpired(rec) == rec.banExpiry # 0 /\ now > rec.banExpiry
GoneQuiet(rec)  == rec.banExpiry = 0 /\ now - rec.lastSeen > BanDuration

Swept ==
  IF SweepDue
  THEN [a \in IPs |-> IF BanExpired(ips[a]) \/ GoneQuiet(ips[a]) THEN NoRecord ELSE ips[a]]
  ELSE ips

(* isBanned's verdict, after the sweep.                                    *)
IsBanned(a) == Swept[a].banExpiry # 0 /\ now <= Swept[a].banExpiry

(* Mutant: a request that passes the ban check clears the count.           *)
AfterBanCheckResets(a) == [Swept EXCEPT ![a] = NoRecord]

(* What isBanned leaves in the map when it lets address a through: an      *)
(* expired ban is reset.                                                   *)
AfterBanCheck(a) ==
  [Swept EXCEPT ![a] = IF Swept[a].banExpiry # 0 THEN NoRecord ELSE Swept[a]]

(* Mutants: the threshold off by one, either way.                          *)
FailedTooStrict(rec) ==
  [failures  |-> rec.failures + 1,
   banExpiry |-> IF rec.failures + 2 >= BanThreshold THEN now + BanDuration ELSE rec.banExpiry,
   lastSeen  |-> now]

FailedTooLax(rec) ==
  [failures  |-> rec.failures + 1,
   banExpiry |-> IF rec.failures >= BanThreshold THEN now + BanDuration ELSE rec.banExpiry,
   lastSeen  |-> now]

(* What recordFailure makes of a record.                                   *)
Failed(rec) ==
  [failures  |-> rec.failures + 1,
   banExpiry |-> IF rec.failures + 1 >= BanThreshold THEN now + BanDuration ELSE rec.banExpiry,
   lastSeen  |-> now]
-----------------------------------------------------------------------------
AuthInit ==
  /\ now = 0
  /\ pc = [r \in Reqs |-> "new"]
  /\ ip \in [Reqs -> IPs]
  /\ token \in [Reqs -> Tokens]
  /\ entry = [r \in Reqs |-> NoEntry]
  /\ ips = [a \in IPs |-> NoRecord]
  /\ lastCleanup = -BanDuration
  /\ loaded \in Configs
  /\ tokens = TokenIndex(loaded)
  /\ authFailures = [banned |-> 0, invalid_token |-> 0]
  /\ seen = [r \in Reqs |-> {}]

(* isBanned answers true: 403, counted as "banned".                        *)
RejectBanned(r) ==
  /\ pc[r] = "new"
  /\ Cardinality(InFlight) < MaxInFlight
  /\ IsBanned(ip[r])
  /\ ips' = Swept
  /\ lastCleanup' = IF SweepDue THEN now ELSE lastCleanup
  /\ authFailures' = [authFailures EXCEPT !.banned = @ + 1]
  /\ pc' = [pc EXCEPT ![r] = "banned"]
  /\ UNCHANGED <<now, ip, token, entry, tokens, loaded, seen>>

(* isBanned answers false.                                                 *)
PassBanCheck(r) ==
  /\ pc[r] = "new"
  /\ Cardinality(InFlight) < MaxInFlight
  /\ ~IsBanned(ip[r])
  /\ ips' = AfterBanCheck(ip[r])
  /\ lastCleanup' = IF SweepDue THEN now ELSE lastCleanup
  /\ pc' = [pc EXCEPT ![r] = "lookup"]
  /\ seen' = [seen EXCEPT ![r] = {loaded}]
  /\ UNCHANGED <<now, ip, token, entry, tokens, authFailures, loaded>>

(* The token lookup under the read lock.                                   *)
LookupToken(r) ==
  /\ pc[r] = "lookup"
  /\ IF token[r] \in DOMAIN tokens
     THEN /\ pc' = [pc EXCEPT ![r] = "success"]
          /\ entry' = [entry EXCEPT ![r] = tokens[token[r]]]
     ELSE /\ pc' = [pc EXCEPT ![r] = "failure"]
          /\ UNCHANGED entry
  /\ UNCHANGED <<now, ip, token, ips, lastCleanup, tokens, authFailures, loaded, seen>>

(* recordFailure, the "invalid_token" counter and the 401.                 *)
RecordFailure(r) ==
  /\ pc[r] = "failure"
  /\ ips' = [ips EXCEPT ![ip[r]] = Failed(@)]
  /\ authFailures' = [authFailures EXCEPT !.invalid_token = @ + 1]
  /\ pc' = [pc EXCEPT ![r] = "unauthorized"]
  /\ UNCHANGED <<now, ip, token, entry, lastCleanup, tokens, loaded, seen>>

(* recordSuccess drops the address's record, whatever it holds by now, and *)
(* the request goes to the next handler with the entry in its context.     *)
RecordSuccess(r) ==
  /\ pc[r] = "success"
  /\ ips' = [ips EXCEPT ![ip[r]] = NoRecord]
  /\ pc' = [pc EXCEPT ![r] = "next"]
  /\ UNCHANGED <<now, ip, token, entry, lastCleanup, tokens, authFailures, loaded, seen>>

(* Mutant: a reload adds tokens and never removes one.                     *)
ReloadMerges(validators) ==
  /\ tokens' = [t \in DOMAIN tokens \cup DOMAIN TokenIndex(validators) |->
                 IF t \in DOMAIN TokenIndex(validators) THEN TokenIndex(validators)[t] ELSE tokens[t]]
  /\ loaded' = validators
  /\ seen' = [r \in Reqs |-> IF r \in InFlight THEN seen[r] \cup {validators} ELSE seen[r]]
  /\ UNCHANGED <<now, pc, ip, token, entry, ips, lastCleanup, authFailures>>

(* Reload swaps the whole token map under the write lock; the ban records  *)
(* stay.  Requests under way go on with what they have read.               *)
Reload(validators) ==
  /\ tokens' = TokenIndex(validators)
  /\ loaded' = validators
  /\ seen' = [r \in Reqs |-> IF r \in InFlight THEN seen[r] \cup {validators} ELSE seen[r]]
  /\ UNCHANGED <<now, pc, ip, token, entry, ips, lastCleanup, authFailures>>

Tick ==
  /\ now < MaxTime
  /\ now' = now + 1
  /\ UNCHANGED <<pc, ip, token, entry, ips, lastCleanup, tokens, authFailures, loaded, seen>>

Middleware(r) ==
  \/ RejectBanned(r)
  \/ PassBanCheck(r)
  \/ LookupToken(r)
  \/ RecordFailure(r)
  \/ RecordSuccess(r)

AuthNext ==
  \/ \E r \in Reqs : Middleware(r)
  \/ \E c \in Configs : Reload(c)
  \/ Tick

AuthSpec == AuthInit /\ [][AuthNext]_authVars
-----------------------------------------------------------------------------
PCs == {"new", "lookup", "failure", "success", "next", "banned", "unauthorized"}

AuthTypeOK ==
  /\ now \in Nat
  /\ pc \in [Reqs -> PCs]
  /\ ip \in [Reqs -> IPs]
  /\ token \in [Reqs -> Tokens]
  /\ entry \in [Reqs -> Entry \cup {NoEntry}]
  /\ ips \in [IPs -> IpRecord]
  /\ lastCleanup \in Int
  /\ loaded \in Configs
  /\ tokens = TokenIndex(loaded)
  /\ authFailures \in [banned : Nat, invalid_token : Nat]
  /\ seen \in [Reqs -> SUBSET Configs]

(* The requests of an address that were answered 401, and the ones that    *)
(* presented a registered token.                                           *)
UnauthorizedFrom(a) == {r \in Reqs : pc[r] = "unauthorized" /\ ip[r] = a}
AcceptedFrom(a)     == {r \in Reqs : pc[r] = "next" /\ ip[r] = a}

(* A ban is deserved: an address that carries one was answered 401 at      *)
(* least ban_threshold times, whatever reloads, sweeps and resets came in  *)
(* between, and its expiry is one ban_duration after its last failure.     *)
BanJustified ==
  \A a \in IPs : ips[a].banExpiry # 0 =>
    /\ Cardinality(UnauthorizedFrom(a)) >= BanThreshold
    /\ ips[a].banExpiry = ips[a].lastSeen + BanDuration
    /\ ips[a].lastSeen <= now

(* Only the requests already past the ban check can add failures to a      *)
(* banned address (and push its expiry back): a record never counts more   *)
(* than the failures below the threshold plus one per request in flight.   *)
FailuresBounded ==
  \A a \in IPs : ips[a].failures <= BanThreshold - 1 + MaxInFlight

(* What the ban promises: an address that never presents a registered      *)
(* token gets at most the bound above of 401 answers (guesses) per period  *)
(* of more than ban_duration, however its requests overlap the ban, its    *)
(* expiry and the sweeps.                                                  *)
GuessesBounded ==
  \A a \in IPs : AcceptedFrom(a) = {} =>
    Cardinality(UnauthorizedFrom(a))
      <= (BanThreshold - 1 + MaxInFlight) * (1 + now \div (BanDuration + 1))

(* The sweep bounds the map: no record survives a cleanup whose ban had    *)
(* expired, or whose address had been quiet for over ban_duration, by      *)
(* then.  The un-banned case is the one maybeSweep's comment adds: flaky   *)
(* peers would otherwise live in the map forever.                          *)
RecordsFreshAtCleanup ==
  \A a \in IPs : ips[a] # NoRecord =>
    IF ips[a].banExpiry = 0
    THEN lastCleanup - ips[a].lastSeen <= BanDuration
    ELSE lastCleanup <= ips[a].banExpiry

(* Nothing forgets a failure early: the record of an address goes away     *)
(* only when its ban has expired, when it has been quiet for over          *)
(* ban_duration, or when one of its own requests, which had passed the ban *)
(* check, presents a registered token.                                     *)
ForgetsOnlyStaleOrAccepted ==
  [][\A a \in IPs :
       ips'[a].failures < ips[a].failures =>
         \/ now > ips[a].lastSeen + BanDuration
         \/ \E r \in Reqs : ip[r] = a /\ pc[r] = "success" /\ pc'[r] = "next"]_authVars

(* A request is handled as a validator, with the permissions, that some    *)
(* configuration in force since its ban check gives its token: a token     *)
(* removed by a reload that completed before the request came in is        *)
(* refused, and permissions are never older than that.                     *)
ServedUnderLoadedConfig ==
  \A r \in Reqs : pc[r] \in {"success", "next"} =>
    \E c \in seen[r] :
      \E n \in DOMAIN c : c[n].token = token[r] /\ entry[r] = [name |-> n, config |-> c[n]]
=============================================================================
