---------------------------- MODULE MCWatchtower ----------------------------
(* Small instances of Watchtower for TLC.                                  *)
EXTENDS Watchtower, TLC

CONSTANTS v1, v2, good, other, bad

Table(v, t, perms, min) == v :> [token |-> t, permissions |-> perms, logsMinLevel |-> min]

(* Two tables: a token moves from one validator to another with other      *)
(* permissions and another log level, and its owner gets a new token.      *)
MCConfigs ==
  { Table(v1, good, {"rpc", "logs"}, "info"),
    Table(v2, good, {"logs"}, "") @@ Table(v1, other, {"rpc"}, "") }

(* One table, for runs in which no reload matters.                         *)
MCOneConfig == { Table(v1, good, {"rpc"}, "") }

MCPayloads ==
  { [path |-> "rpc", level |-> "", content |-> "full"],
    [path |-> "rpc", level |-> "", content |-> "empty"],
    [path |-> "logs", level |-> "debug", content |-> "full"],
    [path |-> "logs", level |-> "debug", content |-> "malformed"],
    [path |-> "auth_check", level |-> "", content |-> "full"] }

(* The cheapest endpoint, for the bans and the limiter.                    *)
MCAuthCheckOnly == { [path |-> "auth_check", level |-> "", content |-> "full"] }

ReqSymmetry == Permutations(Reqs)
=============================================================================
