---------------------------- MODULE MCForwarder ----------------------------
(* A small instance of Forwarder for TLC.                                  *)
EXTENDS Forwarder

Status(height, catching, address) ==
  [ok |-> TRUE, height |-> height, catching_up |-> catching, validator_info |-> address # NotInt,
   address |-> IF address = NotInt THEN Empty ELSE address, power |-> 3, node |-> 1]

Member(address, power) == [address |-> address, power |-> power, pub_key |-> "encodes"]
Validated(members) == [ok |-> TRUE, validators |-> members]
Reachable(n) == [ok |-> TRUE, value |-> n]

(* Every endpoint, everything well formed.                                 *)
Full ==
  [status |-> Status(5, FALSE, 1),
   net_info |-> [ok |-> TRUE, n_peers |-> 2],
   num_unconfirmed_txs |-> [ok |-> TRUE, n_txs |-> 0, total_bytes |-> NotInt],
   dump_consensus_state |-> [ok |-> TRUE, height |-> 6, round |-> 0, step |-> 1],
   validators |-> Validated(<<Member(1, 3), [Member(2, 2) EXCEPT !.pub_key = "fails"]>>),
   block |-> [ok |-> TRUE, num_txs |-> 0],
   genesis |-> [ok |-> TRUE, chain |-> 1, app_hash |-> [quoted |-> FALSE, text |-> 1],
                params |-> [max_gas |-> 1, time_iota_ms |-> Empty],
                validators |-> <<[address |-> 1, power |-> 3]>>],
   sentry_status |-> [ok |-> TRUE, node |-> 2],
   sentry_net_info |-> [ok |-> TRUE, n_peers |-> 1],
   sentry_config |-> [ok |-> TRUE, values |-> [pex |-> 1]],
   unknown_key |-> [ok |-> TRUE],
   rpc_reachable |-> Reachable(1)]

(* A node that is catching up, has a member without an address, and one    *)
(* whose power does not parse; a status of the wrong shape; no answer.     *)
Answers ==
  {Full,
   [status |-> Status(NotInt, TRUE, 1), validators |-> Validated(<<Member(1, 3), Member(Empty, 1)>>),
    rpc_reachable |-> Reachable(1)],
   [status |-> Status(6, FALSE, NotInt), validators |-> Validated(<<Member(1, 3), Member(2, NotInt)>>),
    rpc_reachable |-> Reachable(1)],
   [status |-> [ok |-> FALSE], genesis |-> [ok |-> FALSE], rpc_reachable |-> Reachable(1)],
   [rpc_reachable |-> Reachable(0)]}

Container(usage, inactive, name) ==
  [ok |-> TRUE, name |-> name, cpu |-> 1, memory |-> [usage |-> usage, limit |-> 8, inactive_file |-> inactive],
   networks |-> <<[rx |-> 5, tx |-> 1], [rx |-> 4, tx |-> 1]>>]

Host ==
  [cpu |-> [ok |-> TRUE, percents |-> <<7>>],
   memory |-> [ok |-> TRUE, total |-> 8, available |-> 4, used |-> 4, free |-> 2],
   disk |-> [ok |-> TRUE, path |-> 1, total |-> 8, free |-> 4, used |-> 4],
   network |-> [ok |-> TRUE, nics |-> <<[name |-> 1, recv |-> 1, sent |-> 1]>>],
   container |-> Container(4, 1, 9)]

Config == [config |-> [ok |-> TRUE, values |-> [pex |-> 1]]]
SelfStats ==
  [self_stats |-> [ok |-> TRUE, types |-> [rpc |-> [uncompressed |-> 2, wire |-> 2, drops |-> [buffer_full |-> 1]]]]]

Metrics ==
  {Host, Config, SelfStats,
   [container |-> Container(2, 3, Empty), cpu |-> [ok |-> TRUE, percents |-> <<>>]],
   [container |-> Container(2, NotInt, Empty), memory |-> [ok |-> FALSE]]}

Line(ts, at) == [object |-> TRUE, module |-> 1, ts |-> ts, at |-> at]

(* Lines without a time, within the window, at its edges and outside, on   *)
(* either side; one that is no object, one whose module is no string.      *)
LogLines ==
  {Line("none", 0), Line("string", 0), Line("number", -2), Line("number", -3), Line("number", 1),
   Line("number", 2), [Line("number", 0) EXCEPT !.object = FALSE], [Line("number", -1) EXCEPT !.module = NotInt]}

(* Each before a line without a time, and before one with an earlier time. *)
TwoLines == {<<a, b>> : a \in LogLines, b \in {Line("none", 0), Line("number", -1)}}
=============================================================================
