------------------------ MODULE MCMetadataCollector ------------------------
(* Two keys.  Number("1") and Text have the same text.                     *)
EXTENDS MetadataCollector, TLC

TwoKeys == <<"p2p.pex", "mempool.size">>

Number(n) == <<"int", n>>
Text == <<"string", "1">>

(* Empty, cut short on the way, with a value of another type, and whole.   *)
SmallConfigurations ==
  {Nothing, "p2p.pex" :> Number("1"), "p2p.pex" :> Text,
   "p2p.pex" :> Number("1") @@ "mempool.size" :> Number("1"),
   "p2p.pex" :> Number("2") @@ "mempool.size" :> Number("1"),
   "p2p.pex" :> Number("1") @@ "mempool.size" :> Number("2"),
   "p2p.pex" :> Number("2") @@ "mempool.size" :> Number("2")}
=============================================================================
