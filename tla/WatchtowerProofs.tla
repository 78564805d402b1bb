-------------------------- MODULE WatchtowerProofs --------------------------
(***************************************************************************)
(* Proofs about the watchtower: the authentication middleware alone        *)
(* (module Auth), the whole request path (module Watchtower), which        *)
(* implements it, and the SIGHUP reload loop (module ConfigReload).  For   *)
(* any requests, addresses, tokens, payloads and configurations, any       *)
(* threshold, duration, rate and burst, and no bound on time.              *)
(***************************************************************************)
EXTENDS Watchtower, ConfigReload, FiniteSetTheorems, TLAPS


(* Every entry of the token map is a validator of the table it was built   *)
(* from, found under that validator's own token.                           *)
LEMMA TokenIndexed ==
  ASSUME NEW c \in Configs, NEW t \in DOMAIN TokenIndex(c)
  PROVE  \E n \in DOMAIN c : c[n].token = t /\ TokenIndex(c)[t] = [name |-> n, config |-> c[n]]
<1> DEFINE N == CHOOSE n \in DOMAIN c : c[n].token = t
<1>1. t \in {c[n].token : n \in DOMAIN c}
  BY DEF TokenIndex
<1>2. N \in DOMAIN c /\ c[N].token = t
  BY <1>1
<1>3. TokenIndex(c)[t] = [name |-> N, config |-> c[N]]
  BY <1>1 DEF TokenIndex
<1> QED  BY <1>2, <1>3

(* The records the sweep and the ban check leave are records.              *)
LEMMA SweptType ==
  ASSUME AuthTypeOK
  PROVE  /\ Swept \in [IPs -> IpRecord]
         /\ \A a \in IPs : AfterBanCheck(a) \in [IPs -> IpRecord]
<1>1. NoRecord \in IpRecord
  BY DEF NoRecord, IpRecord
<1>2. Swept \in [IPs -> IpRecord]
  BY <1>1 DEF AuthTypeOK, Swept
<1> QED  BY <1>1, <1>2 DEF AfterBanCheck

LEMMA AuthTypeInit == AuthInit => AuthTypeOK
<1> SUFFICES ASSUME AuthInit PROVE AuthTypeOK
  OBVIOUS
<1> USE BanAssumption
<1>1. ips \in [IPs -> IpRecord]
  BY DEF AuthInit, NoRecord, IpRecord
<1>2. authFailures \in [banned : Nat, invalid_token : Nat]
  BY DEF AuthInit
<1> QED  BY <1>1, <1>2 DEF AuthInit, AuthTypeOK, PCs

LEMMA AuthTypeStep == AuthTypeOK /\ [AuthNext]_authVars => AuthTypeOK'
<1> SUFFICES ASSUME AuthTypeOK, [AuthNext]_authVars PROVE AuthTypeOK'
  OBVIOUS
<1> USE BanAssumption DEF AuthTypeOK, PCs
<1>1. ASSUME NEW r \in Reqs, RejectBanned(r) PROVE AuthTypeOK'
  BY <1>1, SweptType DEF RejectBanned
<1>2. ASSUME NEW r \in Reqs, PassBanCheck(r) PROVE AuthTypeOK'
  BY <1>2, SweptType DEF PassBanCheck
<1>3. ASSUME NEW r \in Reqs, LookupToken(r) PROVE AuthTypeOK'
  <2>1. token[r] \in DOMAIN tokens => tokens[token[r]] \in Entry
    BY TokenIndexed DEF Entry
  <2> QED  BY <1>3, <2>1 DEF LookupToken
<1>4. ASSUME NEW r \in Reqs, RecordFailure(r) PROVE AuthTypeOK'
  <2>1. Failed(ips[ip[r]]) \in IpRecord
    BY DEF Failed, IpRecord
  <2> QED  BY <1>4, <2>1 DEF RecordFailure
<1>5. ASSUME NEW r \in Reqs, RecordSuccess(r) PROVE AuthTypeOK'
  BY <1>5 DEF RecordSuccess, NoRecord, IpRecord
<1>6. ASSUME NEW c \in Configs, Reload(c) PROVE AuthTypeOK'
  BY <1>6 DEF Reload
<1>7. CASE Tick
  BY <1>7 DEF Tick
<1>8. CASE UNCHANGED authVars
  BY <1>8 DEF authVars, TokenIndex
<1> QED  BY <1>1, <1>2, <1>3, <1>4, <1>5, <1>6, <1>7, <1>8 DEF AuthNext, Middleware

(* The middleware's state is well formed in every reachable state; in      *)
(* particular the token map is always the index of one whole validator     *)
(* table, never a mixture of two (Reload).                                 *)
THEOREM AuthTypeCorrect == AuthSpec => []AuthTypeOK
BY AuthTypeInit, AuthTypeStep, PTL DEF AuthSpec
-----------------------------------------------------------------------------
(* A request is served under a table in force since its ban check because  *)
(* every table loaded in the meantime is in seen, the current one first.   *)
SeenInv ==
  /\ \A r \in InFlight : loaded \in seen[r]
  /\ ServedUnderLoadedConfig

LEMMA SeenStep == AuthTypeOK /\ SeenInv /\ [AuthNext]_authVars => SeenInv'
<1> SUFFICES ASSUME AuthTypeOK, SeenInv, [AuthNext]_authVars PROVE SeenInv'
  OBVIOUS
<1> USE DEF AuthTypeOK, PCs, SeenInv, InFlight, ServedUnderLoadedConfig
<1>1. ASSUME NEW r \in Reqs, RejectBanned(r) PROVE SeenInv'
  BY <1>1 DEF RejectBanned
<1>2. ASSUME NEW r \in Reqs, PassBanCheck(r) PROVE SeenInv'
  BY <1>2 DEF PassBanCheck
<1>3. ASSUME NEW r \in Reqs, LookupToken(r) PROVE SeenInv'
  <2>1. CASE token[r] \in DOMAIN tokens
    <3>1. \E n \in DOMAIN loaded :
             loaded[n].token = token[r] /\ tokens[token[r]] = [name |-> n, config |-> loaded[n]]
      BY <2>1, TokenIndexed
    <3>2. pc'[r] = "success" /\ entry'[r] = tokens[token[r]] /\ loaded \in seen[r]
      BY <1>3, <2>1 DEF LookupToken
    <3>3. \A q \in Reqs \ {r} : pc'[q] = pc[q] /\ entry'[q] = entry[q]
      BY <1>3, <2>1 DEF LookupToken
    <3>4. seen' = seen /\ token' = token /\ loaded' = loaded
      BY <1>3 DEF LookupToken
    <3>5. \A q \in InFlight' : loaded' \in seen'[q]
      BY <3>2, <3>3, <3>4
    <3>6. ServedUnderLoadedConfig'
      BY <3>1, <3>2, <3>3, <3>4
    <3> QED  BY <3>5, <3>6
  <2>2. CASE token[r] \notin DOMAIN tokens
    BY <1>3, <2>2 DEF LookupToken
  <2> QED  BY <2>1, <2>2
<1>4. ASSUME NEW r \in Reqs, RecordFailure(r) PROVE SeenInv'
  BY <1>4 DEF RecordFailure
<1>5. ASSUME NEW r \in Reqs, RecordSuccess(r) PROVE SeenInv'
  BY <1>5 DEF RecordSuccess
<1>6. ASSUME NEW c \in Configs, Reload(c) PROVE SeenInv'
  BY <1>6 DEF Reload
<1>7. CASE Tick
  BY <1>7 DEF Tick
<1>8. CASE UNCHANGED authVars
  BY <1>8 DEF authVars
<1> QED  BY <1>1, <1>2, <1>3, <1>4, <1>5, <1>6, <1>7, <1>8 DEF AuthNext, Middleware

(* Whatever reloads run while requests are under way, a request is only    *)
(* ever handled as a validator that one configuration in force since its   *)
(* ban check gives to its token.                                           *)
THEOREM ServedCorrectly == AuthSpec => []ServedUnderLoadedConfig
<1>1. AuthInit => SeenInv
  BY DEF AuthInit, SeenInv, InFlight, ServedUnderLoadedConfig
<1>2. SeenInv => ServedUnderLoadedConfig
  BY DEF SeenInv
<1> QED  BY <1>1, <1>2, SeenStep, AuthTypeCorrect, PTL DEF AuthSpec
-----------------------------------------------------------------------------
(* The failure record of an address.  BanJustified, FailuresBounded and    *)
(* ForgetsOnlyStaleOrAccepted all rest on this: a record without a ban is  *)
(* below the threshold; a record with one expires a ban_duration after its *)
(* last failure, and the requests that may still add to it fit under the   *)
(* bound with it.                                                          *)
RecordOK(a) ==
  /\ ips[a].lastSeen <= now
  /\ ips[a].failures <= Cardinality(UnauthorizedFrom(a))
  /\ ips[a].banExpiry = 0 => ips[a].failures < BanThreshold
  /\ ips[a].banExpiry # 0 =>
       /\ ips[a].failures >= BanThreshold
       /\ ips[a].banExpiry = ips[a].lastSeen + BanDuration
       /\ ips[a].failures + Cardinality(InFlightFrom(a)) < BanThreshold + MaxInFlight

RecordInv ==
  /\ Cardinality(InFlight) <= MaxInFlight
  /\ \A a \in IPs : RecordOK(a)

(* The sets of requests the records are compared with are finite.          *)
LEMMA RequestSets ==
  ASSUME NEW a
  PROVE  /\ IsFiniteSet(InFlight) /\ Cardinality(InFlight) \in Nat
         /\ IsFiniteSet(InFlightFrom(a)) /\ Cardinality(InFlightFrom(a)) \in Nat
         /\ Cardinality(InFlightFrom(a)) <= Cardinality(InFlight)
         /\ IsFiniteSet(UnauthorizedFrom(a)) /\ Cardinality(UnauthorizedFrom(a)) \in Nat
<1>1. InFlight \in SUBSET Reqs /\ UnauthorizedFrom(a) \in SUBSET Reqs
  BY DEF InFlight, UnauthorizedFrom
<1>2. InFlightFrom(a) \in SUBSET InFlight
  BY DEF InFlightFrom
<1>3. IsFiniteSet(InFlight) /\ IsFiniteSet(UnauthorizedFrom(a))
  BY <1>1, FS_Subset, BoundAssumption
<1>4. IsFiniteSet(InFlightFrom(a)) /\ Cardinality(InFlightFrom(a)) <= Cardinality(InFlight)
  BY <1>2, <1>3, FS_Subset
<1> QED  BY <1>3, <1>4, FS_CardinalityType

(* The sweep and the ban check keep a record or forget it; they forget     *)
(* only one that has had its time, and a request that passes the check     *)
(* leaves no ban behind.                                                   *)
LEMMA SweptKeepsOrForgets ==
  ASSUME AuthTypeOK, NEW a \in IPs
  PROVE  /\ Swept[a] = ips[a] \/ (Swept[a] = NoRecord /\ (BanExpired(ips[a]) \/ GoneQuiet(ips[a])))
         /\ SweepDue /\ (BanExpired(ips[a]) \/ GoneQuiet(ips[a])) => Swept[a] = NoRecord
         /\ \A b \in IPs : b # a => AfterBanCheck(b)[a] = Swept[a]
         /\ ~IsBanned(a) =>
              \/ AfterBanCheck(a)[a] = ips[a] /\ ips[a].banExpiry = 0
              \/ AfterBanCheck(a)[a] = NoRecord /\ (BanExpired(ips[a]) \/ GoneQuiet(ips[a]))
<1>1. Swept \in [IPs -> IpRecord]
  BY SweptType
<1>2. Swept[a] = IF SweepDue /\ (BanExpired(ips[a]) \/ GoneQuiet(ips[a])) THEN NoRecord ELSE ips[a]
  BY DEF Swept, AuthTypeOK
<1>3. \A b \in IPs : b # a => AfterBanCheck(b)[a] = Swept[a]
  BY <1>1 DEF AfterBanCheck
<1>4. AfterBanCheck(a)[a] = IF Swept[a].banExpiry # 0 THEN NoRecord ELSE Swept[a]
  BY <1>1 DEF AfterBanCheck
<1>5. NoRecord.banExpiry = 0
  BY DEF NoRecord
<1>6. ASSUME ~IsBanned(a)
      PROVE  \/ AfterBanCheck(a)[a] = ips[a] /\ ips[a].banExpiry = 0
             \/ AfterBanCheck(a)[a] = NoRecord /\ (BanExpired(ips[a]) \/ GoneQuiet(ips[a]))
  <2>1. CASE Swept[a] = NoRecord /\ (BanExpired(ips[a]) \/ GoneQuiet(ips[a]))
    BY <2>1, <1>4, <1>5
  <2>2. CASE Swept[a] = ips[a] /\ ips[a].banExpiry = 0
    BY <2>2, <1>4
  <2>3. CASE Swept[a] = ips[a] /\ ips[a].banExpiry # 0
    <3>1. now \in Nat /\ ips[a].banExpiry \in Nat
      BY DEF AuthTypeOK, IpRecord
    <3>2. BanExpired(ips[a])
      BY <1>6, <2>3, <3>1 DEF IsBanned, BanExpired
    <3> QED  BY <2>3, <3>2, <1>4
  <2> QED  BY <1>2, <2>1, <2>2, <2>3
<1> QED  BY <1>2, <1>3, <1>6

(* A record that a step keeps or forgets stays right as long as no request *)
(* joins those that may add to a ban.                                      *)
LEMMA RecordKept ==
  ASSUME AuthTypeOK, AuthTypeOK', NEW a \in IPs, RecordOK(a),
         now' >= now,
         ips'[a] = ips[a] \/ ips'[a] = NoRecord,
         Cardinality(UnauthorizedFrom(a)') = Cardinality(UnauthorizedFrom(a)),
         \/ Cardinality(InFlightFrom(a)') <= Cardinality(InFlightFrom(a))
         \/ ips'[a].banExpiry = 0
  PROVE  RecordOK(a)'
<1>1. /\ now \in Nat /\ now' \in Nat
      /\ ips[a] \in IpRecord /\ ips'[a] \in IpRecord
  BY DEF AuthTypeOK
<1>2. /\ Cardinality(InFlightFrom(a)) \in Nat /\ Cardinality(InFlightFrom(a)') \in Nat
      /\ Cardinality(UnauthorizedFrom(a)) \in Nat
  <2>1. \A b : IsFiniteSet(InFlightFrom(b)) /\ Cardinality(InFlightFrom(b)) \in Nat
    BY RequestSets
  <2>2. InFlightFrom(a)' \in SUBSET Reqs
    BY DEF InFlightFrom, InFlight
  <2>3. Cardinality(InFlightFrom(a)') \in Nat
    BY <2>2, FS_Subset, FS_CardinalityType, BoundAssumption
  <2> QED  BY <2>1, <2>3, RequestSets
<1>3. CASE ips'[a] = NoRecord
  BY <1>1, <1>2, <1>3, BanAssumption DEF RecordOK, NoRecord
<1>4. CASE ips'[a] = ips[a]
  BY <1>1, <1>2, <1>4, BanAssumption, BoundAssumption DEF RecordOK, IpRecord
<1> QED  BY <1>3, <1>4

(* A step of the middleware moves one request; the sets of requests change *)
(* by that request at most.                                                *)
LEMMA RequestSetsStep ==
  ASSUME AuthTypeOK, NEW r \in Reqs, NEW p \in PCs, pc' = [pc EXCEPT ![r] = p], ip' = ip
  PROVE  /\ p \in {"lookup", "failure", "success"} => InFlight' = InFlight \cup {r}
         /\ p \notin {"lookup", "failure", "success"} => InFlight' = InFlight \ {r}
         /\ p # "unauthorized" /\ pc[r] # "unauthorized" =>
              \A a : UnauthorizedFrom(a)' = UnauthorizedFrom(a)
         /\ \A a : a = ip[r] =>
              /\ p = "unauthorized" => UnauthorizedFrom(a)' = UnauthorizedFrom(a) \cup {r}
              /\ p \notin {"lookup", "failure", "success"} => InFlightFrom(a)' = InFlightFrom(a) \ {r}
         /\ \A a : a # ip[r] => /\ InFlightFrom(a)' = InFlightFrom(a)
                                /\ UnauthorizedFrom(a)' = UnauthorizedFrom(a)
         /\ (pc[r] \in {"lookup", "failure", "success"} <=> p \in {"lookup", "failure", "success"}) =>
              InFlight' = InFlight /\ \A a : InFlightFrom(a)' = InFlightFrom(a)
<1>1. \A q \in Reqs : pc'[q] = IF q = r THEN p ELSE pc[q]
  BY DEF AuthTypeOK
<1>2. (p \in {"lookup", "failure", "success"} => InFlight' = InFlight \cup {r})
      /\ (p \notin {"lookup", "failure", "success"} => InFlight' = InFlight \ {r})
  BY <1>1 DEF InFlight
<1>3. ASSUME NEW a, a # ip[r]
      PROVE  InFlightFrom(a)' = InFlightFrom(a) /\ UnauthorizedFrom(a)' = UnauthorizedFrom(a)
  BY <1>1, <1>3 DEF InFlight, InFlightFrom, UnauthorizedFrom
<1>4. ASSUME NEW a, p # "unauthorized", pc[r] # "unauthorized"
      PROVE  UnauthorizedFrom(a)' = UnauthorizedFrom(a)
  BY <1>1, <1>4 DEF UnauthorizedFrom
<1>5. ASSUME NEW a, a = ip[r], p = "unauthorized"
      PROVE  UnauthorizedFrom(a)' = UnauthorizedFrom(a) \cup {r}
  BY <1>1, <1>5 DEF UnauthorizedFrom
<1>6. ASSUME NEW a, a = ip[r], p \notin {"lookup", "failure", "success"}
      PROVE  InFlightFrom(a)' = InFlightFrom(a) \ {r}
  BY <1>1, <1>6 DEF InFlight, InFlightFrom
<1>7. ASSUME (pc[r] \in {"lookup", "failure", "success"}) <=> (p \in {"lookup", "failure", "success"})
      PROVE  InFlight' = InFlight /\ \A a : InFlightFrom(a)' = InFlightFrom(a)
  <2>1. InFlight' = InFlight
    BY <1>1, <1>7 DEF InFlight
  <2> QED  BY <2>1 DEF InFlightFrom
<1> QED  BY <1>2, <1>3, <1>4, <1>5, <1>6, <1>7

LEMMA RecordStep == AuthTypeOK /\ AuthTypeOK' /\ RecordInv /\ [AuthNext]_authVars => RecordInv'
<1> SUFFICES ASSUME AuthTypeOK, AuthTypeOK', RecordInv, [AuthNext]_authVars PROVE RecordInv'
  OBVIOUS
<1> USE BanAssumption, BoundAssumption
<1>t. now \in Nat /\ now' \in Nat /\ \A a \in IPs : ips[a] \in IpRecord /\ ips'[a] \in IpRecord
  BY DEF AuthTypeOK
<1>1. ASSUME NEW r \in Reqs, RejectBanned(r) PROVE RecordInv'
  <2>1. "banned" \in PCs
    BY DEF PCs
  <2>2. pc[r] = "new" /\ pc' = [pc EXCEPT ![r] = "banned"] /\ ip' = ip
    BY <1>1 DEF RejectBanned
  <2>3. /\ InFlight' = InFlight
        /\ \A a : InFlightFrom(a)' = InFlightFrom(a) /\ UnauthorizedFrom(a)' = UnauthorizedFrom(a)
    BY <2>1, <2>2, RequestSetsStep
  <2>4. \A a \in IPs : ips'[a] = ips[a] \/ ips'[a] = NoRecord
    BY <1>1, SweptKeepsOrForgets DEF RejectBanned
  <2>5. now' = now
    BY <1>1 DEF RejectBanned
  <2>6. ASSUME NEW a \in IPs PROVE RecordOK(a)'
    <3>1. Cardinality(InFlightFrom(a)) \in Nat
      BY RequestSets
    <3> QED  BY <2>3, <2>4, <2>5, <3>1, <1>t, RecordKept DEF RecordInv
  <2> QED  BY <2>3, <2>6 DEF RecordInv
<1>2. ASSUME NEW r \in Reqs, PassBanCheck(r) PROVE RecordInv'
  <2>1. "lookup" \in PCs
    BY DEF PCs
  <2>2. pc[r] = "new" /\ pc' = [pc EXCEPT ![r] = "lookup"] /\ ip' = ip /\ r \notin InFlight
    BY <1>2 DEF PassBanCheck, InFlight
  <2>3. /\ InFlight' = InFlight \cup {r}
        /\ \A a : UnauthorizedFrom(a)' = UnauthorizedFrom(a)
        /\ \A a : a # ip[r] => InFlightFrom(a)' = InFlightFrom(a)
    BY <2>1, <2>2, RequestSetsStep
  <2>4. Cardinality(InFlight') <= MaxInFlight
    <3>1. Cardinality(InFlight') = Cardinality(InFlight) + 1
      BY <2>2, <2>3, RequestSets, FS_AddElement
    <3> QED  BY <1>2, <3>1, RequestSets DEF PassBanCheck
  <2>5. ip[r] \in IPs /\ ips' = AfterBanCheck(ip[r]) /\ now' = now /\ ~IsBanned(ip[r])
    BY <1>2 DEF PassBanCheck, AuthTypeOK
  <2>6. ASSUME NEW a \in IPs PROVE RecordOK(a)'
    <3>1. Cardinality(InFlightFrom(a)) \in Nat
      BY RequestSets
    <3>2. CASE a = ip[r]
      <4>1. (ips'[a] = ips[a] \/ ips'[a] = NoRecord) /\ ips'[a].banExpiry = 0
        BY <2>5, <3>2, SweptKeepsOrForgets DEF NoRecord
      <4> QED  BY <2>3, <2>5, <4>1, <1>t, RecordKept DEF RecordInv
    <3>3. CASE a # ip[r]
      <4>1. ips'[a] = ips[a] \/ ips'[a] = NoRecord
        BY <2>5, <3>3, SweptKeepsOrForgets
      <4> QED  BY <2>3, <2>5, <3>1, <3>3, <4>1, <1>t, RecordKept DEF RecordInv
    <3> QED  BY <3>2, <3>3
  <2> QED  BY <2>4, <2>6 DEF RecordInv
<1>3. ASSUME NEW r \in Reqs, LookupToken(r) PROVE RecordInv'
  <2>1. PICK p \in {"success", "failure"} : pc' = [pc EXCEPT ![r] = p]
    BY <1>3 DEF LookupToken
  <2>2. p \in PCs /\ p # "unauthorized" /\ p \in {"lookup", "failure", "success"}
    BY DEF PCs
  <2>3. pc[r] = "lookup"
    BY <1>3 DEF LookupToken
  <2>4. ip' = ip /\ ips' = ips /\ now' = now
    BY <1>3 DEF LookupToken
  <2>5. /\ InFlight' = InFlight
        /\ \A a : InFlightFrom(a)' = InFlightFrom(a) /\ UnauthorizedFrom(a)' = UnauthorizedFrom(a)
    BY <2>1, <2>2, <2>3, <2>4, RequestSetsStep
  <2>6. ASSUME NEW a \in IPs PROVE RecordOK(a)'
    <3>1. Cardinality(InFlightFrom(a)) \in Nat
      BY RequestSets
    <3> QED  BY <2>4, <2>5, <3>1, <1>t, RecordKept DEF RecordInv
  <2> QED  BY <2>5, <2>6 DEF RecordInv
<1>4. ASSUME NEW r \in Reqs, RecordFailure(r) PROVE RecordInv'
  <2>0. PICK b \in IPs : b = ip[r]
    BY DEF AuthTypeOK
  <2>1. "unauthorized" \in PCs
    BY DEF PCs
  <2>2. b \in IPs /\ r \in InFlight /\ r \in InFlightFrom(b) /\ r \notin UnauthorizedFrom(b)
    BY <1>4, <2>0 DEF RecordFailure, InFlight, InFlightFrom, UnauthorizedFrom
  <2>3. ip' = ip /\ now' = now /\ ips' = [ips EXCEPT ![b] = Failed(ips[b])]
    BY <1>4, <2>0 DEF RecordFailure
  <2>4. /\ InFlight' = InFlight \ {r}
        /\ InFlightFrom(b)' = InFlightFrom(b) \ {r}
        /\ UnauthorizedFrom(b)' = UnauthorizedFrom(b) \cup {r}
        /\ \A a : a # b => /\ InFlightFrom(a)' = InFlightFrom(a)
                           /\ UnauthorizedFrom(a)' = UnauthorizedFrom(a)
    <3>1. pc' = [pc EXCEPT ![r] = "unauthorized"]
      BY <1>4 DEF RecordFailure
    <3> QED  BY <2>0, <2>1, <2>3, <3>1, RequestSetsStep
  <2>5. /\ Cardinality(InFlight') = Cardinality(InFlight) - 1
        /\ Cardinality(InFlightFrom(b)') = Cardinality(InFlightFrom(b)) - 1
        /\ Cardinality(UnauthorizedFrom(b)') = Cardinality(UnauthorizedFrom(b)) + 1
    <3>1. IsFiniteSet(InFlight) /\ IsFiniteSet(InFlightFrom(b)) /\ IsFiniteSet(UnauthorizedFrom(b))
      BY RequestSets
    <3>2. Cardinality(UnauthorizedFrom(b) \cup {r}) = Cardinality(UnauthorizedFrom(b)) + 1
      BY <2>2, <3>1, FS_AddElement
    <3>3. /\ Cardinality(InFlight \ {r}) = Cardinality(InFlight) - 1
          /\ Cardinality(InFlightFrom(b) \ {r}) = Cardinality(InFlightFrom(b)) - 1
      BY <2>2, <3>1, FS_RemoveElement
    <3> QED  BY <2>4, <3>2, <3>3
  <2>6. Cardinality(InFlight') <= MaxInFlight
    BY <2>5, RequestSets DEF RecordInv
  <2>7. ips'[b] = Failed(ips[b]) /\ \A a \in IPs : a # b => ips'[a] = ips[a]
    BY <2>2, <2>3 DEF AuthTypeOK
  <2>8. RecordOK(b)'
    <3>1. RecordOK(b) /\ ips[b] \in IpRecord /\ Cardinality(InFlight) <= MaxInFlight
      BY <2>2, <1>t DEF RecordInv
    <3>2. /\ Cardinality(InFlightFrom(b)) \in Nat /\ Cardinality(InFlight) \in Nat
          /\ Cardinality(InFlightFrom(b)) <= Cardinality(InFlight)
          /\ Cardinality(UnauthorizedFrom(b)) \in Nat
      BY RequestSets
    <3>3. /\ ips'[b].failures = ips[b].failures + 1
          /\ ips'[b].lastSeen = now
          /\ ips'[b].banExpiry = IF ips[b].failures + 1 >= BanThreshold
                                 THEN now + BanDuration ELSE ips[b].banExpiry
      BY <2>7 DEF Failed
    <3> QED  BY <1>t, <2>3, <2>5, <3>1, <3>2, <3>3 DEF RecordOK, IpRecord
  <2>9. ASSUME NEW a \in IPs, a # b PROVE RecordOK(a)'
    <3>1. Cardinality(InFlightFrom(a)) \in Nat
      BY RequestSets
    <3> QED  BY <2>3, <2>4, <2>7, <2>9, <3>1, <1>t, RecordKept DEF RecordInv
  <2> QED  BY <2>6, <2>8, <2>9 DEF RecordInv
<1>5. ASSUME NEW r \in Reqs, RecordSuccess(r) PROVE RecordInv'
  <2>0. PICK b \in IPs : b = ip[r]
    BY DEF AuthTypeOK
  <2>1. "next" \in PCs
    BY DEF PCs
  <2>2. b \in IPs /\ r \in InFlight /\ r \in InFlightFrom(b) /\ pc[r] = "success"
    BY <1>5, <2>0 DEF RecordSuccess, InFlight, InFlightFrom
  <2>3. ip' = ip /\ now' = now /\ ips' = [ips EXCEPT ![b] = NoRecord]
    BY <1>5, <2>0 DEF RecordSuccess
  <2>4. /\ InFlight' = InFlight \ {r}
        /\ InFlightFrom(b)' = InFlightFrom(b) \ {r}
        /\ \A a : a # b => InFlightFrom(a)' = InFlightFrom(a)
        /\ \A a : UnauthorizedFrom(a)' = UnauthorizedFrom(a)
    <3>1. pc' = [pc EXCEPT ![r] = "next"]
      BY <1>5 DEF RecordSuccess
    <3> QED  BY <2>0, <2>1, <2>2, <2>3, <3>1, RequestSetsStep
  <2>5. /\ Cardinality(InFlight') = Cardinality(InFlight) - 1
        /\ Cardinality(InFlightFrom(b)') = Cardinality(InFlightFrom(b)) - 1
    BY <2>2, <2>4, RequestSets, FS_RemoveElement, ZenonT(40)
  <2>6. Cardinality(InFlight') <= MaxInFlight
    BY <2>5, RequestSets DEF RecordInv
  <2>7. ips'[b] = NoRecord /\ \A a \in IPs : a # b => ips'[a] = ips[a]
    BY <2>2, <2>3 DEF AuthTypeOK
  <2>8. ASSUME NEW a \in IPs PROVE RecordOK(a)'
    <3>1. Cardinality(InFlightFrom(a)) \in Nat
      BY RequestSets
    <3>2. Cardinality(InFlightFrom(a)') <= Cardinality(InFlightFrom(a))
      BY <2>4, <2>5, <3>1
    <3>3. ips'[a] = ips[a] \/ ips'[a] = NoRecord
      BY <2>7
    <3> QED  BY <2>3, <2>4, <3>2, <3>3, <1>t, RecordKept DEF RecordInv
  <2> QED  BY <2>6, <2>8 DEF RecordInv
<1>6. ASSUME pc' = pc, ip' = ip, ips' = ips, now' >= now PROVE RecordInv'
  <2>1. /\ InFlight' = InFlight
        /\ \A a : InFlightFrom(a)' = InFlightFrom(a) /\ UnauthorizedFrom(a)' = UnauthorizedFrom(a)
    BY <1>6 DEF InFlight, InFlightFrom, UnauthorizedFrom
  <2>2. ASSUME NEW a \in IPs PROVE RecordOK(a)'
    <3>1. Cardinality(InFlightFrom(a)) \in Nat
      BY RequestSets
    <3> QED  BY <1>6, <2>1, <3>1, RecordKept DEF RecordInv
  <2> QED  BY <2>1, <2>2 DEF RecordInv
<1>7. ASSUME NEW c \in Configs, Reload(c) PROVE RecordInv'
  BY <1>6, <1>7, <1>t DEF Reload
<1>8. CASE Tick
  BY <1>6, <1>8, <1>t DEF Tick
<1>9. CASE UNCHANGED authVars
  BY <1>6, <1>9, <1>t DEF authVars
<1> QED  BY <1>1, <1>2, <1>3, <1>4, <1>5, <1>7, <1>8, <1>9 DEF AuthNext, Middleware

LEMMA RecordCorrect == AuthSpec => []RecordInv
<1>1. AuthInit => RecordInv
  <2> SUFFICES ASSUME AuthInit PROVE RecordInv
    OBVIOUS
  <2>1. InFlight = {}
    BY DEF AuthInit, InFlight
  <2>2. Cardinality(InFlight) <= MaxInFlight
    BY <2>1, FS_EmptySet, BoundAssumption
  <2>3. ASSUME NEW a \in IPs PROVE RecordOK(a)
    <3>1. Cardinality(UnauthorizedFrom(a)) \in Nat
      BY RequestSets
    <3> QED  BY <3>1, BanAssumption DEF AuthInit, RecordOK, NoRecord
  <2> QED  BY <2>2, <2>3 DEF RecordInv
<1> QED  BY <1>1, RecordStep, AuthTypeCorrect, PTL DEF AuthSpec

(* No address is banned that was not answered 401 ban_threshold times, and *)
(* every ban ends one ban_duration after the last of those answers.        *)
THEOREM BansAreJustified == AuthSpec => []BanJustified
<1>1. AuthTypeOK /\ RecordInv => BanJustified
  <2> SUFFICES ASSUME AuthTypeOK, RecordInv, NEW a \in IPs, ips[a].banExpiry # 0
               PROVE  /\ Cardinality(UnauthorizedFrom(a)) >= BanThreshold
                      /\ ips[a].banExpiry = ips[a].lastSeen + BanDuration
                      /\ ips[a].lastSeen <= now
    BY DEF BanJustified
  <2>1. Cardinality(UnauthorizedFrom(a)) \in Nat
    BY RequestSets
  <2> QED  BY <2>1, BanAssumption DEF RecordInv, RecordOK, AuthTypeOK, IpRecord
<1> QED  BY <1>1, RecordCorrect, AuthTypeCorrect, PTL

(* A record never counts more failures than those below the threshold and  *)
(* one per request in flight: requests that race past the ban check, which *)
(* isBanned and recordFailure do under separate locks, add no more.        *)
THEOREM FailuresStayBounded == AuthSpec => []FailuresBounded
<1>1. AuthTypeOK /\ RecordInv => FailuresBounded
  <2> SUFFICES ASSUME AuthTypeOK, RecordInv, NEW a \in IPs
               PROVE  ips[a].failures <= BanThreshold - 1 + MaxInFlight
    BY DEF FailuresBounded
  <2>1. Cardinality(InFlightFrom(a)) \in Nat
    BY RequestSets
  <2>2. RecordOK(a) /\ ips[a].failures \in Nat
    BY DEF RecordInv, AuthTypeOK, IpRecord
  <2> QED  BY <2>1, <2>2, BanAssumption, BoundAssumption DEF RecordOK
<1> QED  BY <1>1, RecordCorrect, AuthTypeCorrect, PTL

(* Forgetting a failure takes more than ban_duration of quiet, or one of   *)
(* the address's own requests presenting a registered token: neither the   *)
(* sweep, nor the ban check, nor a reload, nor another address's requests  *)
(* give an address its guesses back.                                       *)
THEOREM ForgettingIsEarned == AuthSpec => ForgetsOnlyStaleOrAccepted
<1> DEFINE Earned(a) ==
      ips'[a].failures < ips[a].failures =>
         \/ now > ips[a].lastSeen + BanDuration
         \/ \E r \in Reqs : ip[r] = a /\ pc[r] = "success" /\ pc'[r] = "next"
<1>1. ASSUME AuthTypeOK, RecordInv, [AuthNext]_authVars, NEW a \in IPs PROVE Earned(a)
  <2>t. /\ now \in Nat /\ ips[a] \in IpRecord /\ ips \in [IPs -> IpRecord]
        /\ RecordOK(a)
    BY <1>1 DEF AuthTypeOK, RecordInv
  <2>1. BanExpired(ips[a]) \/ GoneQuiet(ips[a]) => now > ips[a].lastSeen + BanDuration
    BY <2>t, BanAssumption DEF BanExpired, GoneQuiet, RecordOK, IpRecord
  <2>2. ips[a].failures \in Nat
    BY <2>t DEF IpRecord
  <2>3. ips'[a] = ips[a] => Earned(a)
    BY <2>2
  <2>4. ASSUME NEW r \in Reqs, RejectBanned(r) PROVE Earned(a)
    BY <1>1, <2>1, <2>3, <2>4, SweptKeepsOrForgets DEF RejectBanned
  <2>5. ASSUME NEW r \in Reqs, PassBanCheck(r) PROVE Earned(a)
    <3>1. ip[r] \in IPs /\ ips' = AfterBanCheck(ip[r]) /\ ~IsBanned(ip[r])
      BY <1>1, <2>5 DEF PassBanCheck, AuthTypeOK
    <3> QED  BY <1>1, <2>1, <2>3, <3>1, SweptKeepsOrForgets
  <2>6. ASSUME NEW r \in Reqs, LookupToken(r) PROVE Earned(a)
    BY <2>3, <2>6 DEF LookupToken
  <2>7. ASSUME NEW r \in Reqs, RecordFailure(r) PROVE Earned(a)
    <3>1. ips'[a].failures >= ips[a].failures
      BY <2>2, <2>7, <2>t DEF RecordFailure, Failed
    <3>2. ips'[a].failures \in Nat
      BY <2>2, <2>7, <2>t DEF RecordFailure, Failed
    <3> QED  BY <2>2, <3>1, <3>2
  <2>8. ASSUME NEW r \in Reqs, RecordSuccess(r) PROVE Earned(a)
    <3>1. CASE ip[r] = a
      BY <1>1, <2>8, <3>1 DEF RecordSuccess, AuthTypeOK
    <3>2. CASE ip[r] # a
      BY <2>3, <2>8, <2>t, <3>2 DEF RecordSuccess
    <3> QED  BY <3>1, <3>2
  <2>9. ASSUME NEW c \in Configs, Reload(c) PROVE Earned(a)
    BY <2>3, <2>9 DEF Reload
  <2>10. CASE Tick \/ UNCHANGED authVars
    BY <2>3, <2>10 DEF Tick, authVars
  <2> QED  BY <1>1, <2>4, <2>5, <2>6, <2>7, <2>8, <2>9, <2>10 DEF AuthNext, Middleware
<1>2. AuthTypeOK /\ RecordInv /\ [AuthNext]_authVars => [\A a \in IPs : Earned(a)]_authVars
  BY <1>1
<1> QED  BY <1>2, RecordCorrect, AuthTypeCorrect, PTL DEF AuthSpec, ForgetsOnlyStaleOrAccepted
-----------------------------------------------------------------------------
FreshInv == lastCleanup <= now /\ RecordsFreshAtCleanup

LEMMA FreshStep == AuthTypeOK /\ AuthTypeOK' /\ FreshInv /\ [AuthNext]_authVars => FreshInv'
<1> SUFFICES ASSUME AuthTypeOK, AuthTypeOK', FreshInv, [AuthNext]_authVars PROVE FreshInv'
  OBVIOUS
<1> USE BanAssumption
<1>t. /\ now \in Nat /\ now' \in Nat /\ lastCleanup \in Int /\ lastCleanup' \in Int
      /\ ips \in [IPs -> IpRecord] /\ ip \in [Reqs -> IPs]
      /\ \A a \in IPs : ips[a] \in IpRecord /\ ips'[a] \in IpRecord
  BY DEF AuthTypeOK
<1> DEFINE Fresh(rec, cleanup) ==
      rec # NoRecord => IF rec.banExpiry = 0 THEN cleanup - rec.lastSeen <= BanDuration
                                             ELSE cleanup <= rec.banExpiry
<1>f. /\ lastCleanup <= now
      /\ \A a \in IPs : Fresh(ips[a], lastCleanup)
  BY DEF FreshInv, RecordsFreshAtCleanup
<1>s. ASSUME lastCleanup' <= now', \A a \in IPs : Fresh(ips'[a], lastCleanup') PROVE FreshInv'
  BY <1>s DEF FreshInv, RecordsFreshAtCleanup
<1>1. ASSUME NEW r \in Reqs,
             lastCleanup' = IF SweepDue THEN now ELSE lastCleanup,
             now' = now,
             \A a \in IPs : ips'[a] = NoRecord \/ ips'[a] = Swept[a]
      PROVE  FreshInv'
  <2>1. lastCleanup' <= now'
    BY <1>1, <1>t, <1>f
  <2>2. ASSUME NEW a \in IPs PROVE Fresh(ips'[a], lastCleanup')
    <3>1. CASE ips'[a] = NoRecord
      BY <3>1
    <3>2. CASE ips'[a] = ips[a] /\ ~SweepDue
      BY <1>1, <1>f, <3>2
    <3>3. CASE ips'[a] = ips[a] /\ SweepDue /\ ~BanExpired(ips[a]) /\ ~GoneQuiet(ips[a])
      BY <1>1, <1>t, <3>3 DEF BanExpired, GoneQuiet, IpRecord
    <3> QED  BY <1>1, <3>1, <3>2, <3>3, SweptKeepsOrForgets
  <2> QED  BY <1>s, <2>1, <2>2
<1>2. ASSUME NEW r \in Reqs, RejectBanned(r) PROVE FreshInv'
  BY <1>1, <1>2 DEF RejectBanned
<1>3. ASSUME NEW r \in Reqs, PassBanCheck(r) PROVE FreshInv'
  <2>1. Swept \in [IPs -> IpRecord]
    BY SweptType
  <2>2. ips' = AfterBanCheck(ip[r])
    BY <1>3 DEF PassBanCheck
  <2>3. \A a \in IPs : ips'[a] = NoRecord \/ ips'[a] = Swept[a]
    BY <1>t, <2>1, <2>2 DEF AfterBanCheck
  <2> QED  BY <1>1, <1>3, <2>3 DEF PassBanCheck
<1>4. ASSUME NEW r \in Reqs, RecordFailure(r) PROVE FreshInv'
  <2>1. /\ ips' = [ips EXCEPT ![ip[r]] = Failed(ips[ip[r]])]
        /\ now' = now /\ lastCleanup' = lastCleanup /\ ip[r] \in IPs
    BY <1>4, <1>t DEF RecordFailure
  <2>2. \A a \in IPs : ips'[a] = IF a = ip[r] THEN Failed(ips[ip[r]]) ELSE ips[a]
    BY <1>t, <2>1
  <2>3. Fresh(Failed(ips[ip[r]]), lastCleanup)
    BY <1>t, <1>f, <2>1 DEF Failed, IpRecord, NoRecord
  <2>4. \A a \in IPs : Fresh(ips'[a], lastCleanup')
    BY <1>f, <2>1, <2>2, <2>3
  <2> QED  BY <1>f, <1>s, <2>1, <2>4
<1>5. ASSUME NEW r \in Reqs, RecordSuccess(r) PROVE FreshInv'
  <2>1. /\ now' = now /\ lastCleanup' = lastCleanup
        /\ \A a \in IPs : ips'[a] = IF a = ip[r] THEN NoRecord ELSE ips[a]
    BY <1>5, <1>t DEF RecordSuccess
  <2>2. \A a \in IPs : Fresh(ips'[a], lastCleanup')
    BY <1>f, <2>1
  <2> QED  BY <1>f, <1>s, <2>1, <2>2
<1>6. ASSUME ips' = ips, lastCleanup' = lastCleanup, now' >= now PROVE FreshInv'
  BY <1>6, <1>f, <1>s, <1>t
<1>7. ASSUME NEW r \in Reqs, LookupToken(r) PROVE FreshInv'
  BY <1>6, <1>7, <1>t DEF LookupToken
<1>8. ASSUME NEW c \in Configs, Reload(c) PROVE FreshInv'
  BY <1>6, <1>8, <1>t DEF Reload
<1>9. CASE Tick
  BY <1>6, <1>9, <1>t DEF Tick
<1>10. CASE UNCHANGED authVars
  BY <1>6, <1>10, <1>t DEF authVars
<1> QED  BY <1>2, <1>3, <1>4, <1>5, <1>7, <1>8, <1>9, <1>10 DEF AuthNext, Middleware

(* No record outlives a cleanup that came after its ban expired or after a *)
(* ban_duration of quiet: maybeSweep bounds the map at every cleanup.      *)
THEOREM SweepBoundsMap == AuthSpec => []RecordsFreshAtCleanup
<1>1. AuthInit => FreshInv
  BY BanAssumption DEF AuthInit, FreshInv, RecordsFreshAtCleanup
<1>2. FreshInv => RecordsFreshAtCleanup
  BY DEF FreshInv
<1> QED  BY <1>1, <1>2, FreshStep, AuthTypeCorrect, PTL DEF AuthSpec
-----------------------------------------------------------------------------
(* The guesses an address gets while it presents no registered token: a    *)
(* full allowance per ban period that has passed, and what its record has  *)
(* used of the current one.                                                *)
Allowance  == BanThreshold - 1 + MaxInFlight
Periods(t) == t \div (BanDuration + 1)

GuessOK(a) ==
  AcceptedFrom(a) = {} =>
    Cardinality(UnauthorizedFrom(a)) <=
      IF ips[a].failures = 0
      THEN Allowance * Periods(now)
      ELSE ips[a].failures + Allowance * Periods(ips[a].lastSeen)

GuessInv == \A a \in IPs : GuessOK(a)

LEMMA PeriodsLater ==
  ASSUME NEW s \in Nat, NEW t \in Nat, s <= t
  PROVE  /\ Periods(s) \in Nat /\ Periods(t) \in Nat
         /\ Allowance * Periods(s) \in Nat /\ Allowance * Periods(t) \in Nat
         /\ Allowance * Periods(s) <= Allowance * Periods(t)
         /\ t > s + BanDuration => Allowance * Periods(s) + Allowance <= Allowance * Periods(t)
<1> DEFINE d == BanDuration + 1
<1>1. d \in Nat \ {0} /\ Allowance \in Nat
  BY BanAssumption, BoundAssumption DEF Allowance
<1>2. s \div d \in Nat /\ t \div d \in Nat /\ s \div d <= t \div d
  BY <1>1, SMTT(30)
<1>3. t >= s + d => (s \div d) + 1 <= t \div d
  BY <1>1, SMTT(30)
<1>4. \A b, x, y \in Nat : x <= y => b * x <= b * y /\ b * x \in Nat /\ b * y \in Nat
  BY SMTT(30)
<1>5. \A b, x \in Nat : b * (x + 1) = b * x + b
  BY SMTT(30)
<1>6. t > s + BanDuration => t >= s + d
  BY BanAssumption
<1> HIDE DEF d
<1> DEFINE p == s \div d
           q == t \div d
<1>7. /\ Allowance * p \in Nat /\ Allowance * q \in Nat
      /\ Allowance * p <= Allowance * q
  <2> HIDE DEF p, q
  <2> QED  BY <1>1, <1>2, <1>4 DEF p, q
<1>8. t > s + BanDuration => Allowance * p + Allowance <= Allowance * q
  <2>1. SUFFICES ASSUME t > s + BanDuration PROVE Allowance * p + Allowance <= Allowance * q
    OBVIOUS
  <2>2. p \in Nat /\ q \in Nat /\ p + 1 <= q
    BY <1>2, <1>3, <1>6, <2>1
  <2> HIDE DEF p, q
  <2>3. Allowance * (p + 1) <= Allowance * q /\ Allowance * (p + 1) = Allowance * p + Allowance
    BY <1>1, <1>4, <1>5, <2>2
  <2> QED  BY <2>3
<1>9. Periods(s) = p /\ Periods(t) = q
  BY DEF Periods, d
<1> QED  BY <1>2, <1>7, <1>8, <1>9

(* A record that is kept, or forgotten after its time, keeps the count of  *)
(* guesses within the allowance: its failures are at most one allowance.   *)
LEMMA GuessKept ==
  ASSUME AuthTypeOK, AuthTypeOK', NEW a \in IPs, RecordOK(a), GuessOK(a),
         ips[a].failures <= Allowance,
         now' >= now,
         AcceptedFrom(a)' = {} => AcceptedFrom(a) = {},
         UnauthorizedFrom(a)' = UnauthorizedFrom(a),
         \/ ips'[a] = ips[a]
         \/ ips'[a] = NoRecord /\ now > ips[a].lastSeen + BanDuration
         \/ AcceptedFrom(a)' # {}
  PROVE  GuessOK(a)'
<1> SUFFICES ASSUME AcceptedFrom(a)' = {} PROVE GuessOK(a)'
  BY DEF GuessOK
<1>t. /\ now \in Nat /\ now' \in Nat /\ ips[a] \in IpRecord
      /\ Cardinality(UnauthorizedFrom(a)) \in Nat
      /\ Allowance \in Nat
  BY RequestSets, BanAssumption, BoundAssumption DEF AuthTypeOK, Allowance
<1>u. ips[a].failures \in Nat /\ ips[a].lastSeen \in Nat /\ ips[a].lastSeen <= now
  BY <1>t DEF IpRecord, RecordOK
<1>1. Cardinality(UnauthorizedFrom(a)) <=
        IF ips[a].failures = 0 THEN Allowance * Periods(now)
        ELSE ips[a].failures + Allowance * Periods(ips[a].lastSeen)
  BY DEF GuessOK
<1>2. /\ Allowance * Periods(now) \in Nat /\ Allowance * Periods(now') \in Nat
      /\ Allowance * Periods(now) <= Allowance * Periods(now')
  BY <1>t, PeriodsLater
<1>3. CASE ips'[a] = ips[a]
  <2>1. Cardinality(UnauthorizedFrom(a)) <=
          IF ips[a].failures = 0 THEN Allowance * Periods(now')
          ELSE ips[a].failures + Allowance * Periods(ips[a].lastSeen)
    BY <1>1, <1>2, <1>t
  <2> QED  BY <1>3, <2>1 DEF GuessOK, Periods, Allowance
<1>4. CASE ips'[a] = NoRecord /\ now > ips[a].lastSeen + BanDuration
  <2>1. /\ Allowance * Periods(ips[a].lastSeen) \in Nat
        /\ Allowance * Periods(ips[a].lastSeen) + Allowance <= Allowance * Periods(now)
    BY <1>4, <1>t, <1>u, PeriodsLater
  <2>2. Cardinality(UnauthorizedFrom(a)) <= Allowance * Periods(now')
    BY <1>1, <1>2, <1>t, <1>u, <2>1
  <2>3. ips'[a].failures = 0
    BY <1>4 DEF NoRecord
  <2> QED  BY <2>2, <2>3 DEF GuessOK, Periods, Allowance
<1> QED  BY <1>3, <1>4

LEMMA GuessStep ==
  AuthTypeOK /\ AuthTypeOK' /\ RecordInv /\ GuessInv /\ [AuthNext]_authVars => GuessInv'
<1> SUFFICES ASSUME AuthTypeOK, AuthTypeOK', RecordInv, GuessInv, [AuthNext]_authVars,
                    NEW a \in IPs
             PROVE  GuessOK(a)'
  BY DEF GuessInv
<1>t. /\ now \in Nat /\ now' \in Nat /\ ips[a] \in IpRecord
      /\ ips \in [IPs -> IpRecord] /\ ip \in [Reqs -> IPs] /\ pc \in [Reqs -> PCs]
      /\ RecordOK(a) /\ GuessOK(a)
  BY DEF AuthTypeOK, RecordInv, GuessInv
<1>u. ips[a].failures \in Nat /\ ips[a].lastSeen \in Nat /\ ips[a].lastSeen <= now
  BY <1>t DEF IpRecord, RecordOK
<1>b. ips[a].failures <= Allowance
  <2>1. Cardinality(InFlightFrom(a)) \in Nat
    BY RequestSets
  <2> QED  BY <1>t, <1>u, <2>1, BanAssumption, BoundAssumption DEF RecordOK, Allowance
<1>e. BanExpired(ips[a]) \/ GoneQuiet(ips[a]) => now > ips[a].lastSeen + BanDuration
  BY <1>t, BanAssumption DEF BanExpired, GoneQuiet, RecordOK, IpRecord
<1>m. ASSUME NEW r \in Reqs, NEW p \in PCs, pc' = [pc EXCEPT ![r] = p], ip' = ip, pc[r] # "next"
      PROVE  AcceptedFrom(a)' = {} => AcceptedFrom(a) = {}
  <2>1. \A q \in Reqs : pc[q] = "next" => pc'[q] = "next"
    BY <1>m, <1>t
  <2> QED  BY <1>m, <2>1 DEF AcceptedFrom
<1>1. ASSUME NEW r \in Reqs, RejectBanned(r) PROVE GuessOK(a)'
  <2>1. "banned" \in PCs /\ "banned" # "unauthorized"
    BY DEF PCs
  <2>2. /\ pc[r] = "new" /\ pc' = [pc EXCEPT ![r] = "banned"] /\ ip' = ip /\ now' = now
        /\ ips' = Swept
    BY <1>1 DEF RejectBanned
  <2>3. UnauthorizedFrom(a)' = UnauthorizedFrom(a)
    BY <2>1, <2>2, RequestSetsStep
  <2>4. AcceptedFrom(a)' = {} => AcceptedFrom(a) = {}
    BY <2>1, <2>2, <1>m
  <2>5. ips'[a] = ips[a] \/ (ips'[a] = NoRecord /\ now > ips[a].lastSeen + BanDuration)
    BY <1>e, <2>2, SweptKeepsOrForgets
  <2> QED  BY <1>t, <1>b, <2>2, <2>3, <2>4, <2>5, GuessKept
<1>2. ASSUME NEW r \in Reqs, PassBanCheck(r) PROVE GuessOK(a)'
  <2>1. "lookup" \in PCs /\ "lookup" # "unauthorized"
    BY DEF PCs
  <2>2. /\ pc[r] = "new" /\ pc' = [pc EXCEPT ![r] = "lookup"] /\ ip' = ip /\ now' = now
        /\ ips' = AfterBanCheck(ip[r]) /\ ~IsBanned(ip[r]) /\ ip[r] \in IPs
    BY <1>2, <1>t DEF PassBanCheck
  <2>3. UnauthorizedFrom(a)' = UnauthorizedFrom(a)
    BY <2>1, <2>2, RequestSetsStep
  <2>4. AcceptedFrom(a)' = {} => AcceptedFrom(a) = {}
    BY <2>1, <2>2, <1>m
  <2>5. ips'[a] = ips[a] \/ (ips'[a] = NoRecord /\ now > ips[a].lastSeen + BanDuration)
    BY <1>e, <2>2, SweptKeepsOrForgets
  <2> QED  BY <1>t, <1>b, <2>2, <2>3, <2>4, <2>5, GuessKept
<1>3. ASSUME NEW r \in Reqs, LookupToken(r) PROVE GuessOK(a)'
  <2>1. PICK p \in {"success", "failure"} : pc' = [pc EXCEPT ![r] = p]
    BY <1>3 DEF LookupToken
  <2>2. p \in PCs /\ p # "unauthorized"
    BY DEF PCs
  <2>3. pc[r] = "lookup" /\ ip' = ip /\ now' = now /\ ips' = ips
    BY <1>3 DEF LookupToken
  <2>4. UnauthorizedFrom(a)' = UnauthorizedFrom(a)
    BY <2>1, <2>2, <2>3, RequestSetsStep
  <2>5. AcceptedFrom(a)' = {} => AcceptedFrom(a) = {}
    BY <2>1, <2>2, <2>3, <1>m
  <2> QED  BY <1>t, <1>b, <2>3, <2>4, <2>5, GuessKept
<1>4. ASSUME NEW r \in Reqs, RecordFailure(r) PROVE GuessOK(a)'
  <2>1. "unauthorized" \in PCs
    BY DEF PCs
  <2>2. /\ pc[r] = "failure" /\ pc' = [pc EXCEPT ![r] = "unauthorized"] /\ ip' = ip /\ now' = now
        /\ ips' = [ips EXCEPT ![ip[r]] = Failed(ips[ip[r]])]
    BY <1>4 DEF RecordFailure
  <2>3. AcceptedFrom(a)' = {} => AcceptedFrom(a) = {}
    BY <2>1, <2>2, <1>m
  <2>4. CASE a # ip[r]
    <3>1. UnauthorizedFrom(a)' = UnauthorizedFrom(a) /\ ips'[a] = ips[a]
      BY <1>t, <2>1, <2>2, <2>4, RequestSetsStep
    <3> QED  BY <1>t, <1>b, <2>2, <2>3, <3>1, GuessKept
  <2>5. CASE a = ip[r]
    <3> SUFFICES ASSUME AcceptedFrom(a)' = {} PROVE GuessOK(a)'
      BY DEF GuessOK
    <3>0. r \notin UnauthorizedFrom(a)
      BY <2>2 DEF UnauthorizedFrom
    <3>1. UnauthorizedFrom(a)' = UnauthorizedFrom(a) \cup {r}
      BY <2>1, <2>2, <2>5, RequestSetsStep
    <3>2. /\ Cardinality(UnauthorizedFrom(a)) \in Nat
          /\ Cardinality(UnauthorizedFrom(a)') = Cardinality(UnauthorizedFrom(a)) + 1
      BY <3>0, <3>1, RequestSets, FS_AddElement
    <3>3. ips'[a].failures = ips[a].failures + 1 /\ ips'[a].lastSeen = now
      BY <1>t, <2>2, <2>5 DEF Failed
    <3>4. /\ Allowance * Periods(ips[a].lastSeen) \in Nat /\ Allowance * Periods(now) \in Nat
          /\ Allowance * Periods(ips[a].lastSeen) <= Allowance * Periods(now)
      BY <1>t, <1>u, PeriodsLater
    <3>5. Cardinality(UnauthorizedFrom(a)) <= ips[a].failures + Allowance * Periods(now)
      BY <1>t, <1>u, <2>3, <3>2, <3>4 DEF GuessOK
    <3>6. Cardinality(UnauthorizedFrom(a)') <= ips'[a].failures + Allowance * Periods(now)
      BY <1>u, <3>2, <3>3, <3>4, <3>5
    <3>7. ips'[a].failures # 0
      BY <1>u, <3>3
    <3> QED  BY <3>3, <3>6, <3>7 DEF GuessOK, Periods, Allowance
  <2> QED  BY <2>4, <2>5
<1>5. ASSUME NEW r \in Reqs, RecordSuccess(r) PROVE GuessOK(a)'
  <2>1. "next" \in PCs /\ "next" # "unauthorized"
    BY DEF PCs
  <2>2. /\ pc[r] = "success" /\ pc' = [pc EXCEPT ![r] = "next"] /\ ip' = ip /\ now' = now
        /\ ips' = [ips EXCEPT ![ip[r]] = NoRecord]
    BY <1>5 DEF RecordSuccess
  <2>3. UnauthorizedFrom(a)' = UnauthorizedFrom(a)
    BY <2>1, <2>2, RequestSetsStep
  <2>4. AcceptedFrom(a)' = {} => AcceptedFrom(a) = {}
    BY <2>1, <2>2, <1>m
  <2>5. ips'[a] = ips[a] \/ AcceptedFrom(a)' # {}
    BY <1>t, <2>2 DEF AcceptedFrom
  <2> QED  BY <1>t, <1>b, <2>2, <2>3, <2>4, <2>5, GuessKept
<1>6. ASSUME pc' = pc, ip' = ip, ips' = ips, now' >= now PROVE GuessOK(a)'
  <2>1. UnauthorizedFrom(a)' = UnauthorizedFrom(a) /\ AcceptedFrom(a)' = AcceptedFrom(a)
    BY <1>6 DEF UnauthorizedFrom, AcceptedFrom
  <2> QED  BY <1>6, <1>t, <1>b, <2>1, GuessKept
<1>7. ASSUME NEW c \in Configs, Reload(c) PROVE GuessOK(a)'
  BY <1>6, <1>7, <1>t DEF Reload
<1>8. CASE Tick
  BY <1>6, <1>8, <1>t DEF Tick
<1>9. CASE UNCHANGED authVars
  BY <1>6, <1>9, <1>t DEF authVars
<1> QED  BY <1>1, <1>2, <1>3, <1>4, <1>5, <1>7, <1>8, <1>9 DEF AuthNext, Middleware

(* The ban's promise: an address without a registered token is answered    *)
(* 401 at most (ban_threshold - 1 + requests in flight) times per period   *)
(* of more than ban_duration, however its requests overlap.                *)
THEOREM GuessesStayBounded == AuthSpec => []GuessesBounded
<1>1. AuthInit => GuessInv
  <2> SUFFICES ASSUME AuthInit, NEW a \in IPs PROVE GuessOK(a)
    BY DEF GuessInv
  <2>1. UnauthorizedFrom(a) = {} /\ ips[a].failures = 0 /\ now = 0
    BY DEF AuthInit, UnauthorizedFrom, NoRecord
  <2>2. Allowance * Periods(0) \in Nat
    BY PeriodsLater
  <2> QED  BY <2>1, <2>2, FS_EmptySet DEF GuessOK
<1>2. AuthTypeOK /\ RecordInv /\ GuessInv => GuessesBounded
  <2> SUFFICES ASSUME AuthTypeOK, RecordInv, GuessInv, NEW a \in IPs, AcceptedFrom(a) = {}
               PROVE  Cardinality(UnauthorizedFrom(a)) <= Allowance * (1 + Periods(now))
    BY DEF GuessesBounded, Allowance, Periods
  <2>1. /\ now \in Nat /\ ips[a].failures \in Nat /\ ips[a].lastSeen \in Nat
        /\ ips[a].lastSeen <= now /\ RecordOK(a) /\ GuessOK(a)
    BY DEF AuthTypeOK, IpRecord, RecordInv, RecordOK, GuessInv
  <2>2. Cardinality(InFlightFrom(a)) \in Nat /\ Cardinality(UnauthorizedFrom(a)) \in Nat
    BY RequestSets
  <2>3. ips[a].failures <= Allowance /\ Allowance \in Nat
    BY <2>1, <2>2, BanAssumption, BoundAssumption DEF RecordOK, Allowance
  <2>4. /\ Periods(now) \in Nat
        /\ Allowance * Periods(ips[a].lastSeen) \in Nat /\ Allowance * Periods(now) \in Nat
        /\ Allowance * Periods(ips[a].lastSeen) <= Allowance * Periods(now)
    BY <2>1, PeriodsLater
  <2>5. Cardinality(UnauthorizedFrom(a)) <= Allowance + Allowance * Periods(now)
    BY <2>1, <2>2, <2>3, <2>4 DEF GuessOK
  <2>6. Allowance * (1 + Periods(now)) = Allowance + Allowance * Periods(now)
    <3>1. \A b, x \in Nat : b * (1 + x) = b + b * x
      BY SMTT(30)
    <3> QED  BY <2>3, <2>4, <3>1
  <2> QED  BY <2>5, <2>6
<1> QED  BY <1>1, <1>2, GuessStep, RecordCorrect, AuthTypeCorrect, PTL DEF AuthSpec
-----------------------------------------------------------------------------
(***************************************************************************)
(* The whole request path.                                                 *)
(***************************************************************************)
(* A step of the whole request path is a step of the middleware, or leaves *)
(* it alone.                                                               *)
LEMMA AuthStep == [Next]_vars => [AuthNext]_authVars
<1> SUFFICES ASSUME [Next]_vars PROVE [AuthNext]_authVars
  OBVIOUS
<1>1. ASSUME NEW r \in Reqs, Handler(r) PROVE UNCHANGED authVars
  BY <1>1 DEF Handler, RateLimit, AuthCheck, Forbid, ReadBody, ForwardMalformed, DropBelowMinLevel,
              ForwardNothing, Forward, RecordStats, RecordReceived
<1>2. CASE Snapshot
  BY <1>2 DEF Snapshot
<1>3. CASE UNCHANGED vars
  BY <1>3 DEF vars
<1> QED  BY <1>1, <1>2, <1>3 DEF Next, AuthNext

(* What is proved of the middleware alone holds of it in the request path: *)
(* the limiter, the handlers and the counters do not interfere.            *)
THEOREM ImplementsAuth == Spec => AuthSpec
<1>1. Init => AuthInit
  BY DEF Init
<1> QED  BY <1>1, AuthStep, PTL DEF Spec, AuthSpec
-----------------------------------------------------------------------------
(* Where a request past the middleware is, and what got it there.          *)
Accepted(r) == stage[r] \in {"record_stats", "record_received"}
                 \/ (stage[r] = "ok" /\ payload[r].path # "auth_check")

PathOK(r) ==
  /\ stage[r] # "limit" => pc[r] = "next"
  /\ stage[r] \in {"forward", "record_stats", "record_received", "bad_gateway"} =>
       payload[r].path # "auth_check"
  /\ stage[r] = "forward" \/ Accepted(r) \/ stage[r] = "bad_gateway" => MayPost(r)
  /\ Accepted(r) => (\E x \in stored : x.req = r) \/ BelowMinLevel(r) \/ payload[r].content = "empty"

(* A stored payload carries the name and the permission of its request,    *)
(* which is past its permission check for good.                            *)
StoredOK(x) ==
  /\ x.req \in Reqs
  /\ Accepted(x.req) \/ stage[x.req] = "bad_gateway"
  /\ x.validator = Validator(x.req)
  /\ x.type = Permission(x.req)

HandlerInv ==
  /\ stage \in [Reqs -> Stages]
  /\ \A r \in Reqs : PathOK(r)
  /\ \A x \in stored : StoredOK(x)

(* Nothing happens to a request in the middleware once it has left it.     *)
LEMMA PastIsFinal ==
  ASSUME AuthTypeOK, [Next]_vars, NEW r \in Reqs, pc[r] = "next"
  PROVE  pc'[r] = "next" /\ entry'[r] = entry[r] /\ seen'[r] = seen[r] /\ token'[r] = token[r]
<1> USE DEF AuthTypeOK
<1>1. [AuthNext]_authVars
  BY AuthStep
<1> DEFINE Final == pc'[r] = "next" /\ entry'[r] = entry[r] /\ seen'[r] = seen[r] /\ token'[r] = token[r]
<1>2. ASSUME NEW q \in Reqs, Middleware(q) PROVE Final
  BY <1>2 DEF Middleware, RejectBanned, PassBanCheck, LookupToken, RecordFailure, RecordSuccess
<1>3. ASSUME NEW c \in Configs, Reload(c) PROVE Final
  BY <1>3 DEF Reload, InFlight
<1>4. CASE Tick
  BY <1>4 DEF Tick
<1>5. CASE UNCHANGED authVars
  BY <1>5 DEF authVars
<1> QED  BY <1>1, <1>2, <1>3, <1>4, <1>5 DEF AuthNext

(* The handlers preserve it: one request moves, by one stage.              *)
LEMMA HandlerStep ==
  ASSUME AuthTypeOK, HandlerInv, NEW r \in Reqs, Handler(r)
  PROVE  HandlerInv'
<1> USE DEF HandlerInv, Stages, PathOK, StoredOK, Accepted, At, Goto
<1>0. UNCHANGED authVars /\ payload' = payload
  BY DEF Handler, RateLimit, AuthCheck, Forbid, ReadBody, ForwardMalformed, DropBelowMinLevel,
         ForwardNothing, Forward, RecordStats, RecordReceived
<1>1. \A q \in Reqs : /\ pc'[q] = pc[q]
                      /\ Validator(q)' = Validator(q) /\ Permission(q)' = Permission(q)
                      /\ (MayPost(q)' <=> MayPost(q)) /\ (BelowMinLevel(q)' <=> BelowMinLevel(q))
  BY <1>0 DEF authVars, Validator, Permission, MayPost, BelowMinLevel
<1>2. CASE RateLimit(r)
  BY <1>0, <1>1, <1>2 DEF RateLimit
<1>3. CASE AuthCheck(r)
  BY <1>0, <1>1, <1>3 DEF AuthCheck
<1>4. CASE Forbid(r)
  BY <1>0, <1>1, <1>4 DEF Forbid
<1>5. CASE ReadBody(r)
  BY <1>0, <1>1, <1>5 DEF ReadBody
<1>6. CASE ForwardMalformed(r)
  BY <1>0, <1>1, <1>6 DEF ForwardMalformed
<1>7. CASE DropBelowMinLevel(r)
  BY <1>0, <1>1, <1>7 DEF DropBelowMinLevel
<1>8. CASE ForwardNothing(r)
  BY <1>0, <1>1, <1>8 DEF ForwardNothing
<1>9. CASE Forward(r)
  <2> DEFINE item == [req |-> r, validator |-> Validator(r), type |-> Permission(r)]
  <2>1. /\ At(r, "forward") /\ stored \subseteq stored' /\ stored' \subseteq stored \cup {item}
        /\ \/ stage' = [stage EXCEPT ![r] = "record_stats"] /\ item \in stored'
           \/ stage' = [stage EXCEPT ![r] = "bad_gateway"]
    BY <1>9 DEF Forward
  <2>2. item.req = r /\ item.validator = Validator(r) /\ item.type = Permission(r)
    OBVIOUS
  <2> HIDE DEF item
  <2>3. stage' \in [Reqs -> Stages] /\ \A q \in Reqs : PathOK(q)'
    BY <1>0, <1>1, <2>1, <2>2
  <2>4. \A x \in stored' : StoredOK(x)'
    BY <1>0, <1>1, <2>1, <2>2
  <2> QED  BY <2>3, <2>4
<1>10. CASE RecordStats(r)
  BY <1>0, <1>1, <1>10 DEF RecordStats
<1>11. CASE RecordReceived(r)
  BY <1>0, <1>1, <1>11 DEF RecordReceived
<1> QED  BY <1>2, <1>3, <1>4, <1>5, <1>6, <1>7, <1>8, <1>9, <1>10, <1>11 DEF Handler

LEMMA HandlerInvStep == AuthTypeOK /\ HandlerInv /\ [Next]_vars => HandlerInv'
<1> SUFFICES ASSUME AuthTypeOK, HandlerInv, [Next]_vars PROVE HandlerInv'
  OBVIOUS
<1>1. ASSUME NEW r \in Reqs, Handler(r) PROVE HandlerInv'
  BY <1>1, HandlerStep
<1>2. CASE UNCHANGED <<payload, stage, stored>>
  <2>1. \A r \in Reqs : pc[r] = "next" => pc'[r] = "next" /\ entry'[r] = entry[r]
    BY PastIsFinal
  <2>2. ASSUME NEW r \in Reqs, stage[r] # "limit"
        PROVE  /\ Validator(r)' = Validator(r) /\ Permission(r)' = Permission(r)
               /\ (MayPost(r)' <=> MayPost(r)) /\ (BelowMinLevel(r)' <=> BelowMinLevel(r))
    <3>1. entry'[r] = entry[r] /\ payload' = payload
      BY <1>2, <2>1, <2>2 DEF HandlerInv, PathOK
    <3> QED  BY <3>1 DEF Validator, Permission, MayPost, BelowMinLevel
  <2>3. ASSUME NEW r \in Reqs PROVE PathOK(r)'
    BY <1>2, <2>1, <2>2 DEF HandlerInv, PathOK, Accepted
  <2>4. ASSUME NEW x \in stored PROVE StoredOK(x)'
    BY <1>2, <2>2 DEF HandlerInv, StoredOK, Accepted
  <2> QED  BY <1>2, <2>3, <2>4 DEF HandlerInv
<1>3. [Next]_vars => UNCHANGED <<payload, stage, stored>> \/ \E r \in Reqs : Handler(r)
  BY DEF Next, vars, handlerVars, Snapshot
<1> QED  BY <1>1, <1>2, <1>3

LEMMA HandlerInvariant == Spec => [](AuthTypeOK /\ SeenInv /\ HandlerInv)
<1>1. Init => AuthTypeOK /\ SeenInv /\ HandlerInv
  <2> SUFFICES ASSUME Init PROVE AuthTypeOK /\ SeenInv /\ HandlerInv
    OBVIOUS
  <2>1. AuthTypeOK
    BY AuthTypeInit DEF Init
  <2>2. SeenInv
    BY DEF Init, AuthInit, SeenInv, InFlight, ServedUnderLoadedConfig
  <2>3. HandlerInv
    BY DEF Init, HandlerInv, PathOK, Accepted, Stages
  <2> QED  BY <2>1, <2>2, <2>3
<1>2. AuthTypeOK /\ SeenInv /\ HandlerInv /\ [Next]_vars => (AuthTypeOK /\ SeenInv /\ HandlerInv)'
  BY AuthStep, AuthTypeStep, SeenStep, HandlerInvStep
<1> QED  BY <1>1, <1>2, PTL DEF Spec

(* A payload in a backend has the name and a permission that one table in  *)
(* force since its request's ban check gives to the token presented:       *)
(* handlePayload checks the entry the context carries, which the lookup    *)
(* took from one table.                                                    *)
THEOREM StoringIsPermitted == Spec => []StoredAsPermitted
<1>1. AuthTypeOK /\ SeenInv /\ HandlerInv => StoredAsPermitted
  <2> SUFFICES ASSUME AuthTypeOK, SeenInv, HandlerInv, NEW x \in stored
               PROVE  \E c \in seen[x.req] :
                        /\ x.validator \in DOMAIN c
                        /\ c[x.validator].token = token[x.req]
                        /\ x.type \in c[x.validator].permissions
                        /\ x.type = payload[x.req].path
    BY DEF StoredAsPermitted
  <2>1. /\ x.req \in Reqs /\ pc[x.req] = "next" /\ MayPost(x.req)
        /\ x.validator = Validator(x.req) /\ x.type = Permission(x.req)
    BY DEF HandlerInv, StoredOK, PathOK, Accepted
  <2>2. PICK c \in seen[x.req] : \E n \in DOMAIN c :
          c[n].token = token[x.req] /\ entry[x.req] = [name |-> n, config |-> c[n]]
    BY <2>1 DEF SeenInv, ServedUnderLoadedConfig
  <2>3. PICK n \in DOMAIN c : c[n].token = token[x.req] /\ entry[x.req] = [name |-> n, config |-> c[n]]
    BY <2>2
  <2>4. x.validator = n /\ x.type \in c[n].permissions /\ x.type = payload[x.req].path
    BY <2>1, <2>3 DEF Validator, Permission, MayPost
  <2> QED  BY <2>3, <2>4
<1> QED  BY <1>1, HandlerInvariant, PTL

(* A 200 is sent for a payload only once a backend has it, or there was    *)
(* nothing to store: every error path of the forwarder ends in a 502.      *)
THEOREM AcknowledgedIsStored == Spec => []AckedIsStored
<1>1. HandlerInv => AckedIsStored
  BY DEF HandlerInv, PathOK, Accepted, AckedIsStored
<1> QED  BY <1>1, HandlerInvariant, PTL
-----------------------------------------------------------------------------
(* The requests admitted and the tokens left add up to no more than the    *)
(* burst and the refill up to the bucket's last use; a validator without a *)
(* bucket has had no request admitted.  The admitted requests alone are    *)
(* not inductive: the tokens left decide how many may still follow.        *)
BucketOK(v) ==
  IF v \in DOMAIN limiters
  THEN /\ limiters[v].tokens \in Nat
       /\ limiters[v].last \in 0..now
       /\ Cardinality(Admitted(v)) + limiters[v].tokens <= Burst + Rps * limiters[v].last
  ELSE Admitted(v) = {}

LimitInv == \A v \in Names : BucketOK(v)

LEMMA AdmittedFinite ==
  ASSUME NEW v
  PROVE  IsFiniteSet(Admitted(v)) /\ Cardinality(Admitted(v)) \in Nat
<1>1. Admitted(v) \in SUBSET Reqs
  BY DEF Admitted
<1> QED  BY <1>1, FS_Subset, FS_CardinalityType, BoundAssumption

(* What Allow leaves of the refilled bucket.                               *)
LEMMA RefillBounded ==
  ASSUME now \in Nat, NEW b, b.tokens \in Nat, b.last \in 0..now
  PROVE  /\ Refilled(b) \in Nat
         /\ Refilled(b) <= Burst
         /\ Refilled(b) <= b.tokens + Rps * now - Rps * b.last
<1> USE LimitAssumption
<1> DEFINE d == now - b.last
<1>1. d \in Nat /\ b.last \in Nat
  OBVIOUS
<1>2. Rps * d \in Nat /\ Rps * d = Rps * now - Rps * b.last
  BY <1>1
<1> QED  BY <1>1, <1>2 DEF Refilled

(* Taking a token admits one request more and pays for it.                 *)
LEMMA RateLimitStep ==
  ASSUME AuthTypeOK, HandlerInv, LimitInv, NEW r \in Reqs, RateLimit(r)
  PROVE  LimitInv'
<1> PICK v : v = Validator(r)
  OBVIOUS
<1> DEFINE b == Bucket(v)
<1> USE LimitAssumption
<1>0. now \in Nat /\ now' = now
  BY DEF RateLimit, authVars, AuthTypeOK
<1>1. pc[r] = "next" /\ stage[r] = "limit" /\ pc' = pc /\ entry' = entry
  BY DEF RateLimit, At, authVars
<1>2. ASSUME NEW w \in Names, w # v PROVE BucketOK(w)'
  <2>1. Admitted(w)' = Admitted(w)
    BY <1>1, <1>2 DEF RateLimit, Goto, Admitted, Validator, HandlerInv
  <2>2. (w \in DOMAIN limiters' <=> w \in DOMAIN limiters)
        /\ (w \in DOMAIN limiters => limiters'[w] = limiters[w])
    BY <1>2 DEF RateLimit, SetBucket
  <2> QED  BY <1>0, <2>1, <2>2 DEF LimitInv, BucketOK
<1>3. ASSUME v \in Names PROVE BucketOK(v)'
  <2>1. /\ b.tokens \in Nat /\ b.last \in 0..now
        /\ Cardinality(Admitted(v)) + b.tokens <= Burst + Rps * b.last
        /\ b = IF v \in DOMAIN limiters THEN limiters[v] ELSE [tokens |-> Burst, last |-> now]
    <3>1. CASE v \in DOMAIN limiters
      BY <1>3, <3>1 DEF LimitInv, BucketOK, Bucket
    <3>2. CASE v \notin DOMAIN limiters
      <4>1. Admitted(v) = {} /\ b = [tokens |-> Burst, last |-> now]
        BY <1>3, <3>2 DEF LimitInv, BucketOK, Bucket
      <4>2. Rps * now \in Nat
        BY <1>0
      <4> QED  BY <1>0, <3>2, <4>1, <4>2, FS_EmptySet
    <3> QED  BY <3>1, <3>2
  <2> HIDE DEF b
  <2>2. Refilled(b) \in Nat /\ Refilled(b) <= b.tokens + Rps * now - Rps * b.last
    BY <1>0, <2>1, RefillBounded
  <2>3. CASE Allow(b)
    <3>1. /\ v \in DOMAIN limiters'
          /\ limiters'[v] = [tokens |-> Refilled(b) - 1, last |-> now]
          /\ stage' = [stage EXCEPT ![r] = "handler"]
      BY <2>3 DEF RateLimit, SetBucket, Goto, b
    <3>2. Admitted(v)' = Admitted(v) \cup {r} /\ r \notin Admitted(v)
      BY <1>1, <3>1 DEF Admitted, Validator, HandlerInv
    <3>3. Cardinality(Admitted(v)') = Cardinality(Admitted(v)) + 1
      BY <3>2, AdmittedFinite, FS_AddElement
    <3>4. Rps * now \in Nat /\ Rps * b.last \in Nat /\ Cardinality(Admitted(v)) \in Nat
      BY <1>0, <2>1, AdmittedFinite
    <3>5. Cardinality(Admitted(v)') + (Refilled(b) - 1) <= Burst + Rps * now
      BY <2>1, <2>2, <3>3, <3>4
    <3> QED  BY <1>0, <2>2, <2>3, <3>1, <3>5 DEF BucketOK, Allow
  <2>4. CASE ~Allow(b)
    <3>1. v \in DOMAIN limiters' /\ limiters'[v] = b /\ stage' = [stage EXCEPT ![r] = "too_many_requests"]
      BY <2>4 DEF RateLimit, SetBucket, Goto, b
    <3>2. Admitted(v)' = Admitted(v)
      BY <1>1, <3>1 DEF Admitted, Validator, HandlerInv
    <3> QED  BY <1>0, <2>1, <3>1, <3>2 DEF BucketOK
  <2> QED  BY <2>3, <2>4
<1> QED  BY <1>2, <1>3 DEF LimitInv

LEMMA LimitInvStep == AuthTypeOK /\ HandlerInv /\ LimitInv /\ [Next]_vars => LimitInv'
<1> SUFFICES ASSUME AuthTypeOK, HandlerInv, LimitInv, [Next]_vars PROVE LimitInv'
  OBVIOUS
<1>1. ASSUME limiters' = limiters, now' \in Nat, now' >= now, \A v : Admitted(v)' = Admitted(v)
      PROVE  LimitInv'
  BY <1>1 DEF LimitInv, BucketOK, AuthTypeOK
<1>2. ASSUME NEW r \in Reqs, Handler(r) PROVE LimitInv'
  <2>1. CASE RateLimit(r)
    BY <2>1, RateLimitStep
  <2>2. CASE ~RateLimit(r)
    <3>1. UNCHANGED authVars /\ limiters' = limiters
      BY <1>2, <2>2 DEF Handler, AuthCheck, Forbid, ReadBody, ForwardMalformed, DropBelowMinLevel,
                        ForwardNothing, Forward, RecordStats, RecordReceived
    <3>2. /\ stage[r] \notin {"limit", "too_many_requests"}
          /\ \E s \in Stages \ {"limit", "too_many_requests"} : stage' = [stage EXCEPT ![r] = s]
      BY <1>2, <2>2 DEF Handler, AuthCheck, Forbid, ReadBody, ForwardMalformed, DropBelowMinLevel,
                        ForwardNothing, Forward, RecordStats, RecordReceived, At, Goto, Stages
    <3>3. \A v : Admitted(v)' = Admitted(v)
      BY <3>1, <3>2 DEF authVars, Admitted, Validator, HandlerInv
    <3> QED  BY <1>1, <3>1, <3>3 DEF authVars, AuthTypeOK
  <2> QED  BY <2>1, <2>2
<1>3. CASE UNCHANGED <<stage, limiters>>
  <2>1. \A r \in Reqs : stage[r] # "limit" =>
          pc[r] = "next" /\ pc'[r] = "next" /\ entry'[r] = entry[r]
    BY PastIsFinal DEF HandlerInv, PathOK
  <2>2. ASSUME NEW v PROVE Admitted(v)' = Admitted(v)
    BY <1>3, <2>1 DEF Admitted, Validator
  <2>3. now' \in Nat /\ now' >= now
    <3>1. now' = now \/ now' = now + 1
      BY AuthStep DEF AuthNext, Middleware, RejectBanned, PassBanCheck, LookupToken, RecordFailure,
                      RecordSuccess, Reload, Tick, authVars
    <3> QED  BY <3>1 DEF AuthTypeOK
  <2> QED  BY <1>1, <1>3, <2>2, <2>3
<1>4. (\E r \in Reqs : Handler(r)) \/ UNCHANGED <<stage, limiters>>
  BY DEF Next, vars, handlerVars, Snapshot
<1> QED  BY <1>2, <1>3, <1>4

(* However its requests overlap, and whatever reloads remove it and bring  *)
(* it back, a validator gets at most the burst and the refill through the  *)
(* limiter: all of its requests draw on the bucket allow finds under its   *)
(* name.                                                                   *)
THEOREM RateStaysBounded == Spec => []RateBound
<1>1. Init => LimitInv
  BY DEF Init, AuthInit, LimitInv, BucketOK, Admitted
<1>2. AuthTypeOK /\ LimitInv => RateBound
  <2> SUFFICES ASSUME AuthTypeOK, LimitInv, NEW v \in Names
               PROVE  Cardinality(Admitted(v)) <= Burst + Rps * now
    BY DEF RateBound
  <2> USE LimitAssumption
  <2>1. now \in Nat /\ Rps * now \in Nat /\ Cardinality(Admitted(v)) \in Nat
    BY AdmittedFinite DEF AuthTypeOK
  <2>2. CASE v \in DOMAIN limiters
    <3> DEFINE last == limiters[v].last
    <3>1. /\ last \in 0..now /\ limiters[v].tokens \in Nat
          /\ Cardinality(Admitted(v)) + limiters[v].tokens <= Burst + Rps * last
      BY <2>2 DEF LimitInv, BucketOK
    <3>2. Rps * last <= Rps * now /\ Rps * last \in Nat
      <4>1. \A m \in Nat : \A n \in 0..m : Rps * n \in Nat /\ Rps * (m - n) \in Nat
                                        /\ Rps * m = Rps * n + Rps * (m - n)
        OBVIOUS
      <4> HIDE DEF last
      <4> QED  BY <2>1, <3>1, <4>1
    <3> HIDE DEF last
    <3> QED  BY <2>1, <3>1, <3>2
  <2>3. CASE v \notin DOMAIN limiters
    BY <2>1, <2>3, FS_EmptySet DEF LimitInv, BucketOK
  <2> QED  BY <2>2, <2>3
<1> QED  BY <1>1, <1>2, LimitInvStep, HandlerInvariant, PTL DEF Spec
-----------------------------------------------------------------------------
(* The books: the counters of a type and the requests they count.          *)
CountedOK(v, t) ==
  /\ stats[<<v, t>>].total = Cardinality(Answered(v, t, {"record_received", "ok"}))
  /\ stats[<<v, t>>].lastHour <= stats[<<v, t>>].total
  /\ counters[<<"received", v, t>>] = Cardinality(Answered(v, t, {"ok"}))
  /\ counters[<<"permission_denied", v, t>>] = Cardinality(Answered(v, t, {"forbidden"}))

ThrottledOK(v) == counters[<<"rate_limited", v, "any">>] = Cardinality(Throttled(v))

CountInv ==
  /\ counters \in [CounterLabels -> Nat]
  /\ stats \in [Names \X Permissions -> [total : Nat, lastHour : Nat]]
  /\ \A v \in Names, t \in Permissions : CountedOK(v, t)
  /\ \A v \in Names : ThrottledOK(v)

LEMMA Labels ==
  ASSUME NEW v \in Names
  PROVE  /\ <<"rate_limited", v, "any">> \in CounterLabels
         /\ \A t \in Permissions : /\ <<v, t>> \in Names \X Permissions
                                   /\ <<"received", v, t>> \in CounterLabels
                                   /\ <<"permission_denied", v, t>> \in CounterLabels
BY DEF CounterLabels

(* One request more.                                                       *)
LEMMA OneMore ==
  ASSUME NEW S \in SUBSET Reqs, NEW r \in Reqs, r \notin S
  PROVE  Cardinality(S) \in Nat /\ Cardinality(S \cup {r}) = Cardinality(S) + 1
BY FS_Subset, FS_CardinalityType, FS_AddElement, BoundAssumption

(* A handler's step: one request moves to another stage.                   *)
MovesTo(r, s) ==
  /\ UNCHANGED authVars
  /\ payload' = payload
  /\ stage \in [Reqs -> Stages]
  /\ pc[r] = "next"
  /\ stage' = [stage EXCEPT ![r] = s]

LEMMA MoveFacts ==
  ASSUME NEW r \in Reqs, NEW s, MovesTo(r, s)
  PROVE  /\ pc' = pc /\ pc[r] = "next"
         /\ \A q \in Reqs : /\ Validator(q)' = Validator(q) /\ Permission(q)' = Permission(q)
                            /\ stage'[q] = IF q = r THEN s ELSE stage[q]
BY DEF MovesTo, authVars, Validator, Permission

(* It enters the sets that tell its stages apart ...                       *)
LEMMA AnsweredEnters ==
  ASSUME NEW r \in Reqs, NEW s, MovesTo(r, s), NEW S, stage[r] \notin S, s \in S,
         NEW v, NEW t, v = Validator(r), t = Permission(r)
  PROVE  Cardinality(Answered(v, t, S))' = Cardinality(Answered(v, t, S)) + 1
<1>1. /\ Answered(v, t, S)' = Answered(v, t, S) \cup {r}
      /\ r \notin Answered(v, t, S) /\ Answered(v, t, S) \in SUBSET Reqs
  BY MoveFacts DEF Answered
<1> QED  BY <1>1, OneMore

LEMMA ThrottledEnters ==
  ASSUME NEW r \in Reqs, MovesTo(r, "too_many_requests"), stage[r] = "limit", NEW v, v = Validator(r)
  PROVE  Cardinality(Throttled(v))' = Cardinality(Throttled(v)) + 1
<1>1. Throttled(v)' = Throttled(v) \cup {r} /\ r \notin Throttled(v) /\ Throttled(v) \in SUBSET Reqs
  BY MoveFacts DEF Throttled
<1> QED  BY <1>1, OneMore

(* ... and no other.                                                       *)
LEMMA AnsweredStays ==
  ASSUME NEW r \in Reqs, NEW s, MovesTo(r, s), NEW S, NEW v, NEW t,
         v # Validator(r) \/ t # Permission(r) \/ (stage[r] \in S <=> s \in S)
  PROVE  Answered(v, t, S)' = Answered(v, t, S)
BY MoveFacts DEF Answered

LEMMA ThrottledStays ==
  ASSUME NEW r \in Reqs, NEW s, MovesTo(r, s), NEW v,
         v # Validator(r) \/ (stage[r] # "too_many_requests" /\ s # "too_many_requests")
  PROVE  Throttled(v)' = Throttled(v)
BY MoveFacts DEF Throttled

LEMMA CountAdds ==
  ASSUME counters \in [CounterLabels -> Nat], NEW l
  PROVE  /\ Count(l) \in [CounterLabels -> Nat]
         /\ \A k \in CounterLabels : Count(l)[k] = IF k = l THEN counters[k] + 1 ELSE counters[k]
<1>1. Count(l) = [k \in CounterLabels |-> IF k = l THEN counters[l] + 1 ELSE counters[k]]
  BY DEF Count
<1>2. ASSUME NEW k \in CounterLabels
      PROVE  /\ (IF k = l THEN counters[l] + 1 ELSE counters[k]) \in Nat
             /\ Count(l)[k] = IF k = l THEN counters[k] + 1 ELSE counters[k]
  BY <1>1
<1> QED  BY <1>1, <1>2

(* Stats.Record adds to the entry of one validator and type.               *)
Recorded(f, k) == [f EXCEPT ![k] = [total |-> @.total + 1, lastHour |-> @.lastHour + 1]]

LEMMA RecordAdds ==
  ASSUME NEW K, NEW f \in [K -> [total : Nat, lastHour : Nat]], NEW k
  PROVE  /\ Recorded(f, k) \in [K -> [total : Nat, lastHour : Nat]]
         /\ \A j \in K : j # k => Recorded(f, k)[j] = f[j]
         /\ k \in K => /\ Recorded(f, k)[k].total = f[k].total + 1
                       /\ Recorded(f, k)[k].lastHour = f[k].lastHour + 1
                       /\ f[k].total \in Nat /\ f[k].lastHour \in Nat
<1> DEFINE g == Recorded(f, k)
<1> DEFINE e == [total |-> f[k].total + 1, lastHour |-> f[k].lastHour + 1]
<1>1. k \in K => f[k].total \in Nat /\ f[k].lastHour \in Nat /\ e \in [total : Nat, lastHour : Nat]
  OBVIOUS
<1>2. e.total = f[k].total + 1 /\ e.lastHour = f[k].lastHour + 1
  OBVIOUS
<1>3. g = [f EXCEPT ![k] = e]
  BY DEF Recorded
<1> HIDE DEF e, g
<1>4. g \in [K -> [total : Nat, lastHour : Nat]] /\ (k \in K => g[k] = e) /\ \A j \in K : j # k => g[j] = f[j]
  BY <1>1, <1>3
<1> QED  BY <1>1, <1>2, <1>4 DEF g

(* Which labels a step leaves alone.                                       *)
SameCounts(v, t) ==
  /\ counters'[<<"received", v, t>>] = counters[<<"received", v, t>>]
  /\ counters'[<<"permission_denied", v, t>>] = counters[<<"permission_denied", v, t>>]

SameThrottled == \A v \in Names : counters'[<<"rate_limited", v, "any">>] = counters[<<"rate_limited", v, "any">>]

(* What holds of a validator and type that no request enters or leaves.    *)
LEMMA CountsKept ==
  ASSUME CountInv, NEW v \in Names, NEW t \in Permissions,
         stats'[<<v, t>>] = stats[<<v, t>>], SameCounts(v, t),
         Answered(v, t, {"record_received", "ok"})' = Answered(v, t, {"record_received", "ok"}),
         Answered(v, t, {"ok"})' = Answered(v, t, {"ok"}),
         Answered(v, t, {"forbidden"})' = Answered(v, t, {"forbidden"})
  PROVE  CountedOK(v, t)'
<1>1. CountedOK(v, t)
  BY DEF CountInv
<1> QED  BY <1>1 DEF CountedOK, SameCounts

(* Steps that throttle no one.                                             *)
LEMMA ThrottledKept ==
  ASSUME CountInv, SameThrottled, NEW r \in Reqs, NEW s, MovesTo(r, s),
         stage[r] # "too_many_requests", s # "too_many_requests"
  PROVE  \A v \in Names : ThrottledOK(v)'
<1> SUFFICES ASSUME NEW v \in Names PROVE ThrottledOK(v)'
  OBVIOUS
<1>1. Throttled(v)' = Throttled(v)
  BY ThrottledStays
<1> QED  BY <1>1 DEF CountInv, ThrottledOK, SameThrottled

(* Steps that count, if anything, for the request they move only.          *)
LEMMA OthersKept ==
  ASSUME CountInv, NEW r \in Reqs, NEW s, MovesTo(r, s), NEW v \in Names, NEW t \in Permissions,
         stats'[<<v, t>>] = stats[<<v, t>>], SameCounts(v, t),
         \/ v # Validator(r) \/ t # Permission(r)
         \/ {stage[r], s} \cap {"record_received", "ok", "forbidden"} = {}
  PROVE  CountedOK(v, t)'
<1>1. /\ Answered(v, t, {"record_received", "ok"})' = Answered(v, t, {"record_received", "ok"})
      /\ Answered(v, t, {"ok"})' = Answered(v, t, {"ok"})
      /\ Answered(v, t, {"forbidden"})' = Answered(v, t, {"forbidden"})
  <2>1. ASSUME NEW S \in {{"record_received", "ok"}, {"ok"}, {"forbidden"}}
        PROVE  v # Validator(r) \/ t # Permission(r) \/ (stage[r] \in S <=> s \in S)
    OBVIOUS
  <2>2. ASSUME NEW S \in {{"record_received", "ok"}, {"ok"}, {"forbidden"}}
        PROVE  Answered(v, t, S)' = Answered(v, t, S)
    BY <2>1, AnsweredStays
  <2> QED  BY <2>2
<1> QED  BY <1>1, CountsKept

(* Handlers: each of the four steps that count adds the one request it     *)
(* moves; the others move none into or out of a counted set.               *)
LEMMA CountHandlerStep ==
  ASSUME HandlerInv, CountInv, NEW r \in Reqs, Handler(r)
  PROVE  CountInv'
<1>0. /\ UNCHANGED authVars /\ payload' = payload /\ pc[r] = "next"
      /\ stage \in [Reqs -> Stages]
  BY DEF Handler, RateLimit, AuthCheck, Forbid, ReadBody, ForwardMalformed, DropBelowMinLevel,
         ForwardNothing, Forward, RecordStats, RecordReceived, HandlerInv, At
<1> PICK n : n = Validator(r)
  OBVIOUS
<1> PICK p : p = Permission(r)
  OBVIOUS
<1>a. ASSUME NEW s, stage' = [stage EXCEPT ![r] = s] PROVE MovesTo(r, s)
  BY <1>0, <1>a DEF MovesTo
<1> USE DEF Goto, At
<1>1. ASSUME NEW s, stage' = [stage EXCEPT ![r] = s], stats' = stats,
             counters' = counters \/ counters' = Count(<<"logs_below_min_level", n, "logs">>),
             stage[r] # "too_many_requests", s # "too_many_requests",
             p = "auth_check" \/ {stage[r], s} \cap {"record_received", "ok", "forbidden"} = {}
      PROVE  CountInv'
  <2>1. CASE counters' = counters
    <3>1. SameThrottled /\ \A v, t : SameCounts(v, t)
      BY <2>1 DEF SameThrottled, SameCounts
    <3>2. ASSUME NEW v \in Names, NEW t \in Permissions PROVE CountedOK(v, t)'
      <4>1. t # Permission(r) \/ {stage[r], s} \cap {"record_received", "ok", "forbidden"} = {}
        BY <1>1 DEF Permissions
      <4> QED  BY <1>1, <1>a, <3>1, <4>1, OthersKept
    <3> QED  BY <1>1, <1>a, <2>1, <3>1, <3>2, ThrottledKept DEF CountInv
  <2>2. CASE counters' = Count(<<"logs_below_min_level", n, "logs">>)
    <3>1. counters' \in [CounterLabels -> Nat] /\ SameThrottled
      BY <2>2, Labels, CountAdds DEF CountInv, SameThrottled
    <3>2. ASSUME NEW v \in Names, NEW t \in Permissions PROVE CountedOK(v, t)'
      <4>1. t # Permission(r) \/ {stage[r], s} \cap {"record_received", "ok", "forbidden"} = {}
        BY <1>1 DEF Permissions
      <4>2. SameCounts(v, t)
        BY <2>2, Labels, CountAdds DEF CountInv, SameCounts
      <4> QED  BY <1>1, <1>a, <4>1, <4>2, OthersKept
    <3> QED  BY <1>1, <1>a, <3>1, <3>2, ThrottledKept DEF CountInv
  <2> QED  BY <1>1, <2>1, <2>2
<1>2. CASE RateLimit(r)
  <2>1. CASE stage' = [stage EXCEPT ![r] = "handler"] /\ UNCHANGED counters
    BY <1>1, <1>2, <2>1 DEF RateLimit
  <2>2. CASE stage' = [stage EXCEPT ![r] = "too_many_requests"]
             /\ counters' = Count(<<"rate_limited", n, "any">>)
    <3>1. stats' = stats /\ stage[r] = "limit" /\ counters' \in [CounterLabels -> Nat]
      BY <1>2, <2>2, CountAdds DEF RateLimit, CountInv
    <3>2. ASSUME NEW v \in Names, NEW t \in Permissions PROVE CountedOK(v, t)'
      <4>1. SameCounts(v, t)
        BY <2>2, Labels, CountAdds DEF CountInv, SameCounts
      <4> QED  BY <1>a, <2>2, <3>1, <4>1, OthersKept
    <3>3. ASSUME NEW v \in Names PROVE ThrottledOK(v)'
      <4>1. counters'[<<"rate_limited", v, "any">>] =
              IF v = n THEN counters[<<"rate_limited", v, "any">>] + 1 ELSE counters[<<"rate_limited", v, "any">>]
        BY <2>2, Labels, CountAdds DEF CountInv
      <4>2. ThrottledOK(v)
        BY DEF CountInv
      <4>3. CASE v = n
        <5>1. Cardinality(Throttled(v))' = Cardinality(Throttled(v)) + 1
          BY <1>a, <2>2, <3>1, <4>3, ThrottledEnters
        <5> QED  BY <4>1, <4>2, <4>3, <5>1 DEF ThrottledOK
      <4>4. CASE v # n
        <5>1. Throttled(v)' = Throttled(v)
          BY <1>a, <2>2, <4>4, ThrottledStays
        <5> QED  BY <4>1, <4>2, <4>4, <5>1 DEF ThrottledOK
      <4> QED  BY <4>3, <4>4
    <3> QED  BY <3>1, <3>2, <3>3 DEF CountInv
  <2> QED  BY <1>2, <2>1, <2>2 DEF RateLimit
<1>3. CASE AuthCheck(r)
  BY <1>1, <1>3 DEF AuthCheck, Permission
<1>4. CASE ReadBody(r)
  BY <1>1, <1>4 DEF ReadBody
<1>5. CASE ForwardMalformed(r)
  BY <1>1, <1>5 DEF ForwardMalformed
<1>6. CASE DropBelowMinLevel(r)
  BY <1>1, <1>6 DEF DropBelowMinLevel
<1>7. CASE ForwardNothing(r)
  BY <1>1, <1>7 DEF ForwardNothing
<1>8. CASE Forward(r)
  BY <1>1, <1>8 DEF Forward
<1>b. ASSUME NEW s, MovesTo(r, s), stage[r] # "too_many_requests", s # "too_many_requests",
             counters' \in [CounterLabels -> Nat], SameThrottled,
             stats' \in [Names \X Permissions -> [total : Nat, lastHour : Nat]],
             \A v \in Names, t \in Permissions :
               v # n \/ t # p => stats'[<<v, t>>] = stats[<<v, t>>] /\ SameCounts(v, t),
             n \in Names /\ p \in Permissions => CountedOK(n, p)'
      PROVE  CountInv'
  <2>1. ASSUME NEW v \in Names, NEW t \in Permissions PROVE CountedOK(v, t)'
    <3>1. CASE v # n \/ t # p
      BY <1>b, <3>1, OthersKept
    <3>2. CASE v = n /\ t = p
      BY <1>b, <3>2
    <3> QED  BY <3>1, <3>2
  <2> QED  BY <1>b, <2>1, ThrottledKept DEF CountInv
<1>9. CASE Forbid(r)
  <2>1. /\ counters' = Count(<<"permission_denied", n, p>>) /\ stats' = stats
        /\ stage[r] = "handler" /\ MovesTo(r, "forbidden")
    BY <1>9, <1>a DEF Forbid
  <2>2. ASSUME n \in Names, p \in Permissions PROVE CountedOK(n, p)'
    <3>1. Cardinality(Answered(n, p, {"forbidden"}))' = Cardinality(Answered(n, p, {"forbidden"})) + 1
      BY <2>1, AnsweredEnters
    <3>2. /\ Answered(n, p, {"record_received", "ok"})' = Answered(n, p, {"record_received", "ok"})
          /\ Answered(n, p, {"ok"})' = Answered(n, p, {"ok"})
      BY <2>1, AnsweredStays
    <3>3. /\ counters'[<<"received", n, p>>] = counters[<<"received", n, p>>]
          /\ counters'[<<"permission_denied", n, p>>] = counters[<<"permission_denied", n, p>>] + 1
      <4>1. /\ <<"received", n, p>> \in CounterLabels /\ <<"permission_denied", n, p>> \in CounterLabels
            /\ <<"received", n, p>> # <<"permission_denied", n, p>>
        BY <2>2, Labels
      <4> QED  BY <2>1, <4>1, CountAdds DEF CountInv
    <3>4. CountedOK(n, p)
      BY <2>2 DEF CountInv
    <3> QED  BY <2>1, <3>1, <3>2, <3>3, <3>4 DEF CountedOK
  <2>3. counters' \in [CounterLabels -> Nat] /\ SameThrottled
    BY <2>1, Labels, CountAdds DEF CountInv, SameThrottled
  <2>4. ASSUME NEW v \in Names, NEW t \in Permissions, v # n \/ t # p PROVE SameCounts(v, t)
    BY <2>1, <2>4, Labels, CountAdds DEF CountInv, SameCounts
  <2> QED  BY <1>b, <2>1, <2>2, <2>3, <2>4 DEF CountInv
<1>10. CASE RecordStats(r)
  <2>1. /\ stats' = [stats EXCEPT ![<<n, p>>] = [total |-> @.total + 1, lastHour |-> @.lastHour + 1]]
        /\ counters' = counters
        /\ stage[r] = "record_stats" /\ MovesTo(r, "record_received")
    BY <1>10, <1>a DEF RecordStats
  <2>2. /\ stats \in [Names \X Permissions -> [total : Nat, lastHour : Nat]]
        /\ counters \in [CounterLabels -> Nat]
    BY DEF CountInv
  <2>3. /\ stats' \in [Names \X Permissions -> [total : Nat, lastHour : Nat]]
        /\ \A v \in Names, t \in Permissions : v # n \/ t # p => stats'[<<v, t>>] = stats[<<v, t>>]
        /\ n \in Names /\ p \in Permissions =>
             /\ stats'[<<n, p>>].total = stats[<<n, p>>].total + 1
             /\ stats'[<<n, p>>].lastHour = stats[<<n, p>>].lastHour + 1
             /\ stats[<<n, p>>].total \in Nat /\ stats[<<n, p>>].lastHour \in Nat
    <3> DEFINE K == Names \X Permissions
    <3>1. \A v \in Names, t \in Permissions : <<v, t>> \in K
      OBVIOUS
    <3>2. PICK k : k = <<n, p>>
      OBVIOUS
    <3>3. stats \in [K -> [total : Nat, lastHour : Nat]]
      BY <2>2
    <3> HIDE DEF K
    <3>4. /\ stats' \in [K -> [total : Nat, lastHour : Nat]]
          /\ \A j \in K : j # k => stats'[j] = stats[j]
          /\ k \in K => /\ stats'[k].total = stats[k].total + 1
                        /\ stats'[k].lastHour = stats[k].lastHour + 1
                        /\ stats[k].total \in Nat /\ stats[k].lastHour \in Nat
      <4>1. stats' = Recorded(stats, k)
        BY <2>1, <3>2 DEF Recorded
      <4> QED  BY <3>3, <4>1, RecordAdds
    <3>5. \A v, t : v # n \/ t # p => <<v, t>> # k
      BY <3>2
    <3>6. stats' \in [Names \X Permissions -> [total : Nat, lastHour : Nat]]
      BY <3>4 DEF K
    <3>7. ASSUME NEW v \in Names, NEW t \in Permissions, v # n \/ t # p PROVE stats'[<<v, t>>] = stats[<<v, t>>]
      BY <3>1, <3>4, <3>5, <3>7
    <3> QED  BY <3>1, <3>2, <3>4, <3>6, <3>7
  <2>4. ASSUME n \in Names, p \in Permissions PROVE CountedOK(n, p)'
    <3>1. Cardinality(Answered(n, p, {"record_received", "ok"}))'
            = Cardinality(Answered(n, p, {"record_received", "ok"})) + 1
      BY <2>1, AnsweredEnters
    <3>2. /\ Answered(n, p, {"ok"})' = Answered(n, p, {"ok"})
          /\ Answered(n, p, {"forbidden"})' = Answered(n, p, {"forbidden"})
      BY <2>1, AnsweredStays
    <3>4. CountedOK(n, p)
      BY <2>4 DEF CountInv
    <3> QED  BY <2>1, <2>3, <2>4, <3>1, <3>2, <3>4 DEF CountedOK
  <2>5. SameThrottled /\ \A v, t : SameCounts(v, t)
    BY <2>1 DEF SameThrottled, SameCounts
  <2> QED  BY <1>b, <2>1, <2>2, <2>3, <2>4, <2>5
<1>11. CASE RecordReceived(r)
  <2>1. /\ counters' = Count(<<"received", n, p>>) /\ stats' = stats
        /\ stage[r] = "record_received" /\ MovesTo(r, "ok")
    BY <1>11, <1>a DEF RecordReceived
  <2>2. ASSUME n \in Names, p \in Permissions PROVE CountedOK(n, p)'
    <3>1. Cardinality(Answered(n, p, {"ok"}))' = Cardinality(Answered(n, p, {"ok"})) + 1
      BY <2>1, AnsweredEnters
    <3>2. /\ Answered(n, p, {"record_received", "ok"})' = Answered(n, p, {"record_received", "ok"})
          /\ Answered(n, p, {"forbidden"})' = Answered(n, p, {"forbidden"})
      BY <2>1, AnsweredStays
    <3>3. /\ counters'[<<"received", n, p>>] = counters[<<"received", n, p>>] + 1
          /\ counters'[<<"permission_denied", n, p>>] = counters[<<"permission_denied", n, p>>]
      <4>1. /\ <<"received", n, p>> \in CounterLabels /\ <<"permission_denied", n, p>> \in CounterLabels
            /\ <<"received", n, p>> # <<"permission_denied", n, p>>
        BY <2>2, Labels
      <4> QED  BY <2>1, <4>1, CountAdds DEF CountInv
    <3>4. CountedOK(n, p)
      BY <2>2 DEF CountInv
    <3> QED  BY <2>1, <3>1, <3>2, <3>3, <3>4 DEF CountedOK
  <2>3. counters' \in [CounterLabels -> Nat] /\ SameThrottled
    BY <2>1, Labels, CountAdds DEF CountInv, SameThrottled
  <2>4. ASSUME NEW v \in Names, NEW t \in Permissions, v # n \/ t # p PROVE SameCounts(v, t)
    BY <2>1, <2>4, Labels, CountAdds DEF CountInv, SameCounts
  <2> QED  BY <1>b, <2>1, <2>2, <2>3, <2>4 DEF CountInv
<1> QED  BY <1>2, <1>3, <1>4, <1>5, <1>6, <1>7, <1>8, <1>9, <1>10, <1>11 DEF Handler

LEMMA CountInvStep == AuthTypeOK /\ HandlerInv /\ CountInv /\ [Next]_vars => CountInv'
<1> SUFFICES ASSUME AuthTypeOK, HandlerInv, CountInv, [Next]_vars PROVE CountInv'
  OBVIOUS
<1>1. ASSUME NEW r \in Reqs, Handler(r) PROVE CountInv'
  BY <1>1, CountHandlerStep
<1>2. ASSUME UNCHANGED <<payload, stage, counters>>,
             stats' \in [Names \X Permissions -> [total : Nat, lastHour : Nat]],
             \A k \in Names \X Permissions :
               stats'[k].total = stats[k].total /\ stats'[k].lastHour <= stats[k].lastHour
      PROVE  CountInv'
  <2>1. \A r \in Reqs : stage[r] # "limit" =>
          pc[r] = "next" /\ pc'[r] = "next" /\ entry'[r] = entry[r]
    BY PastIsFinal DEF HandlerInv, PathOK
  <2>2. ASSUME NEW v PROVE Throttled(v)' = Throttled(v)
    BY <1>2, <2>1 DEF Throttled, Validator
  <2>3. ASSUME NEW v, NEW t, NEW S, "limit" \notin S PROVE Answered(v, t, S)' = Answered(v, t, S)
    BY <1>2, <2>1, <2>3 DEF Answered, Validator, Permission
  <2>4. ASSUME NEW v \in Names, NEW t \in Permissions PROVE CountedOK(v, t)'
    <3>1. /\ Answered(v, t, {"record_received", "ok"})' = Answered(v, t, {"record_received", "ok"})
          /\ Answered(v, t, {"ok"})' = Answered(v, t, {"ok"})
          /\ Answered(v, t, {"forbidden"})' = Answered(v, t, {"forbidden"})
      BY <2>3
    <3>2. /\ stats'[<<v, t>>].total = stats[<<v, t>>].total
          /\ stats'[<<v, t>>].lastHour <= stats[<<v, t>>].lastHour
          /\ stats[<<v, t>>] \in [total : Nat, lastHour : Nat]
          /\ stats'[<<v, t>>] \in [total : Nat, lastHour : Nat]
      BY <1>2, Labels DEF CountInv
    <3>3. CountedOK(v, t)
      BY DEF CountInv
    <3> QED  BY <1>2, <3>1, <3>2, <3>3 DEF CountedOK
  <2> QED  BY <1>2, <2>2, <2>4 DEF CountInv, ThrottledOK
<1>3. CASE Snapshot
  BY <1>2, <1>3 DEF Snapshot, CountInv
<1>4. CASE UNCHANGED handlerVars
  BY <1>2, <1>4 DEF handlerVars, CountInv
<1> QED  BY <1>1, <1>3, <1>4 DEF Next, vars

(* What Stats and the metrics say was received, forbidden or throttled is  *)
(* what the handlers answered: reloads and snapshots between a request's   *)
(* steps move no count to another name or type, and lose none.             *)
THEOREM BooksAreExact == Spec => []CountsMatchAnswers
<1>1. Init => CountInv
  <2> SUFFICES ASSUME Init PROVE CountInv
    OBVIOUS
  <2>1. \A v, t : /\ Answered(v, t, {"record_received", "ok"}) = {} /\ Answered(v, t, {"ok"}) = {}
                  /\ Answered(v, t, {"forbidden"}) = {} /\ Throttled(v) = {}
    BY DEF Init, Answered, Throttled
  <2>2. Cardinality({}) = 0
    BY FS_EmptySet
  <2>3. /\ counters \in [CounterLabels -> Nat]
        /\ stats \in [Names \X Permissions -> [total : Nat, lastHour : Nat]]
        /\ \A l \in CounterLabels : counters[l] = 0
        /\ \A k \in Names \X Permissions : stats[k].total = 0 /\ stats[k].lastHour = 0
    BY DEF Init
  <2>4. ASSUME NEW v \in Names PROVE ThrottledOK(v) /\ \A t \in Permissions : CountedOK(v, t)
    <3>1. ThrottledOK(v)
      BY <2>1, <2>2, <2>3, Labels DEF ThrottledOK
    <3>2. ASSUME NEW t \in Permissions PROVE CountedOK(v, t)
      <4>1. /\ counters[<<"received", v, t>>] = 0 /\ counters[<<"permission_denied", v, t>>] = 0
        BY <2>3, Labels
      <4>2. stats[<<v, t>>].total = 0 /\ stats[<<v, t>>].lastHour = 0
        BY DEF Init
      <4> QED  BY <2>1, <2>2, <4>1, <4>2 DEF CountedOK
    <3> QED  BY <3>1, <3>2
  <2> QED  BY <2>3, <2>4 DEF CountInv
<1>2. CountInv => CountsMatchAnswers
  BY DEF CountInv, CountedOK, ThrottledOK, CountsMatchAnswers
<1> QED  BY <1>1, <1>2, CountInvStep, HandlerInvariant, PTL DEF Spec
-----------------------------------------------------------------------------
(***************************************************************************)
(* The SIGHUP reload loop.                                                 *)
(***************************************************************************)
LEMMA ReloadTypeStep == ReloadTypeOK /\ [ReloadNext]_reloadVars => ReloadTypeOK'
<1> SUFFICES ASSUME ReloadTypeOK, [ReloadNext]_reloadVars PROVE ReloadTypeOK'
  OBVIOUS
<1> USE DEF ReloadTypeOK
<1>1. ASSUME NEW c \in Tables \cup {Invalid}, EditFile(c) PROVE ReloadTypeOK'
  BY <1>1 DEF EditFile
<1>2. CASE Sighup \/ Cancel
  BY <1>2 DEF Sighup, Cancel
<1>3. CASE Goroutine
  BY <1>3 DEF Goroutine, TakeSignal, Exit, LoadFails, LoadSucceeds, Apply
<1>4. CASE UNCHANGED reloadVars
  BY <1>4 DEF reloadVars
<1> QED  BY <1>1, <1>2, <1>3, <1>4 DEF ReloadNext, Operator

(* The table in force, and the one about to be, are always ones config.Load*)
(* accepted: a broken file never reaches the authenticator.                *)
THEOREM ReloadTypeCorrect == ReloadSpec => []ReloadTypeOK
<1>1. ReloadInit => ReloadTypeOK
  BY DEF ReloadInit, ReloadTypeOK
<1> QED  BY <1>1, ReloadTypeStep, PTL DEF ReloadSpec

(* ReloadNotLost is not inductive: a goroutine about to apply an older     *)
(* file would undo a table that happens to be the file's already.  That    *)
(* the table is already right counts only once the goroutine is back in    *)
(* its select.                                                             *)
SignalPending ==
  signalled /\ file # Invalid /\ reloader # "stopped" =>
    \/ hup
    \/ reloader = "load"
    \/ reloader = "apply" /\ newCfg = file
    \/ reloader = "select" /\ table = file

LEMMA SignalPendingStep ==
  ReloadTypeOK /\ SignalPending /\ [ReloadNext]_reloadVars => SignalPending'
<1> SUFFICES ASSUME ReloadTypeOK, SignalPending, [ReloadNext]_reloadVars PROVE SignalPending'
  OBVIOUS
<1> USE DEF SignalPending, ReloadTypeOK
<1>1. ASSUME NEW c \in Tables \cup {Invalid}, EditFile(c) PROVE SignalPending'
  BY <1>1 DEF EditFile
<1>2. CASE Sighup \/ Cancel
  BY <1>2 DEF Sighup, Cancel
<1>3. CASE TakeSignal \/ Exit
  BY <1>3 DEF TakeSignal, Exit
<1>4. CASE LoadFails \/ LoadSucceeds
  BY <1>4 DEF LoadFails, LoadSucceeds
<1>5. CASE Apply
  BY <1>5 DEF Apply
<1>6. CASE UNCHANGED reloadVars
  BY <1>6 DEF reloadVars
<1> QED  BY <1>1, <1>2, <1>3, <1>4, <1>5, <1>6 DEF ReloadNext, Operator, Goroutine

(* An edit that was signalled is never lost to a coalesced signal.         *)
THEOREM ReloadsAreNotLost == ReloadSpec => []ReloadNotLost
<1>1. ReloadInit => SignalPending
  BY DEF ReloadInit, SignalPending
<1>2. SignalPending => ReloadNotLost
  BY DEF SignalPending, ReloadNotLost
<1> QED  BY <1>1, <1>2, SignalPendingStep, ReloadTypeCorrect, PTL DEF ReloadSpec
=============================================================================
