------------------------- MODULE MetadataCollector -------------------------
(***************************************************************************)
(* The sentinel's metadata collector (internal/sentinel/metadata): a loop  *)
(* that reads gnoland's configuration key by key, when a ticker fires or   *)
(* the file's watch reports a write, and emits it through the delta        *)
(* filter, or past it when the force ticker fires.  Meanwhile the operator *)
(* rewrites the configuration, and what is emitted may be lost behind the  *)
(* channel (Pipeline).                                                     *)
(*                                                                         *)
(* A configuration is a function from the keys it has to TOML values, each *)
(* a pair of a type and a text.  Time is left out: a ticker may fire at    *)
(* any select.                                                             *)
(***************************************************************************)
EXTENDS Naturals, Sequences

CONSTANTS
  ConfigKeys,    \* the keys, in the order they are read
  Configurations,\* what the configuration may be
  MaxWrites,     \* bound: changes of the configuration
  MaxFailures,   \* bound: reads that fail
  MaxLosses      \* bound: payloads lost behind the channel

Keys == {ConfigKeys[k] : k \in DOMAIN ConfigKeys}

ASSUME MetadataAssumption ==
  /\ ConfigKeys \in Seq(STRING)
  /\ \A m, n \in DOMAIN ConfigKeys : ConfigKeys[m] = ConfigKeys[n] => m = n
  /\ \A c \in Configurations : DOMAIN c \subseteq Keys /\ c = [k \in DOMAIN c |-> c[k]]
  /\ {MaxWrites, MaxFailures, MaxLosses} \subseteq Nat

VARIABLES
  mode,        \* what is set: ConfigPath, ConfigGetCmd or neither
  file,        \* the configuration
  watched,     \* the watch on the file is in place
  event,       \* a write event is pending in watcher.Events
  cancelled,   \* ctx is done
  pc,          \* start, select, read, send or done
  force,       \* collectAndSend's argument
  i,           \* the key about to be read
  values,      \* collectConfig's values
  hash,        \* delta.hashes["config"]; a hash stands for its content
  view,        \* history: the last configuration that got through
  missed,      \* history: the keys this collection failed to read
  gaps,        \* history: those that the last unforced collection did
  writes, failures, losses   \* how often

vars == <<mode, file, watched, event, cancelled, pc, force, i, values, hash, view,
          missed, gaps, writes, failures, losses>>
histories == <<view, missed, gaps>>
environment == <<mode, file, writes>>
-----------------------------------------------------------------------------
Nothing == [k \in {} |-> ""]

(* fmt.Sprintf("%v", v): values of different types may have the same text. *)
Sprintf(v) == v[2]

(* What a complete read of a configuration gives.                          *)
Rendered(c) == [k \in DOMAIN c |-> Sprintf(c[k])]

Init ==
  /\ mode \in {"file", "cmd", "neither"}
  /\ file \in Configurations
  /\ watched = FALSE
  /\ event = FALSE
  /\ cancelled = FALSE
  /\ pc = "start"
  /\ force = FALSE
  /\ i = 1
  /\ values = Nothing
  /\ hash = Nothing
  /\ view = Nothing
  /\ missed = {}
  /\ gaps = {}
  /\ writes = 0
  /\ failures = 0
  /\ losses = 0
-----------------------------------------------------------------------------
(* The file is written in place, maybe truncated on the way to its next    *)
(* content: the watch reports it.                                          *)
Write(c) ==
  /\ writes < MaxWrites
  /\ writes' = writes + 1
  /\ file' = c
  /\ event' = (event \/ watched)
  /\ UNCHANGED <<mode, watched, cancelled, pc, force, i, values, hash, histories, failures, losses>>

(* Another file is renamed over it: the watch goes with the old file, and  *)
(* the event for that is no Write or Create.                               *)
Replace(c) ==
  /\ writes < MaxWrites
  /\ writes' = writes + 1
  /\ file' = c
  /\ watched' = FALSE
  /\ UNCHANGED <<mode, event, cancelled, pc, force, i, values, hash, histories, failures, losses>>

Cancel ==
  /\ ~cancelled
  /\ cancelled' = TRUE
  /\ UNCHANGED <<environment, watched, event, pc, force, i, values, hash, histories, failures, losses>>
-----------------------------------------------------------------------------
(* The locals of a collection, before it and after.                        *)
Fresh ==
  /\ i' = 1
  /\ values' = Nothing
  /\ missed' = {}

(* collectAndSend(ctx, f) begins; with nothing configured it ends at once. *)
CollectAndSend(f) ==
  /\ pc' = IF mode = "neither" THEN "select" ELSE "read"
  /\ force' = (f /\ mode # "neither")
  /\ Fresh

CollectEnds ==
  /\ pc' = "select"
  /\ force' = FALSE
  /\ Fresh

(* The watch, in file mode, then the first collection.  A watch that fails *)
(* is only logged; without a watcher Run gives up.                         *)
Start ==
  /\ pc = "start"
  /\ \/ /\ watched' \in {FALSE, mode = "file"}
        /\ CollectAndSend(FALSE)
     \/ /\ pc' = "done"
        /\ UNCHANGED <<watched, force, i, values, missed>>
  /\ UNCHANGED <<environment, event, cancelled, hash, view, gaps, failures, losses>>

CheckTick ==
  /\ pc = "select"
  /\ CollectAndSend(FALSE)
  /\ UNCHANGED <<environment, watched, event, cancelled, hash, view, gaps, failures, losses>>

(* Mutant: the forced collection passes through the filter too.            *)
ForceTickFiltered ==
  /\ pc = "select"
  /\ CollectAndSend(FALSE)
  /\ UNCHANGED <<environment, watched, event, cancelled, hash, view, gaps, failures, losses>>

ForceTick ==
  /\ pc = "select"
  /\ CollectAndSend(TRUE)
  /\ UNCHANGED <<environment, watched, event, cancelled, hash, view, gaps, failures, losses>>

(* Mutant: only Create events count.                                       *)
WatchEventCreate ==
  /\ pc = "select"
  /\ event
  /\ event' = FALSE
  /\ UNCHANGED <<environment, watched, cancelled, pc, force, i, values, hash, histories, failures, losses>>

WatchEvent ==
  /\ pc = "select"
  /\ event
  /\ event' = FALSE
  /\ CollectAndSend(FALSE)
  /\ UNCHANGED <<environment, watched, cancelled, hash, view, gaps, failures, losses>>

Return ==
  /\ pc = "select"
  /\ cancelled
  /\ pc' = "done"
  /\ watched' = FALSE            \* defer watcher.Close()
  /\ UNCHANGED <<environment, event, cancelled, force, i, values, hash, histories, failures, losses>>

(* A channel of the watcher is closed, although nobody closed it.  A mere  *)
(* error is logged: when the watch's queue overflows, the events in it are *)
(* still to come, and one is as good as many.                              *)
WatcherCloses ==
  /\ pc = "select"
  /\ pc' = "done"
  /\ watched' = FALSE
  /\ UNCHANGED <<environment, event, cancelled, force, i, values, hash, histories, failures, losses>>
-----------------------------------------------------------------------------
(* One key, read from the file as it is now, or by a command.  A key that  *)
(* is not there is passed over, and so is one whose read fails, as any may *)
(* and a command does once ctx is done.                                    *)
KeyRead ==
  LET key == ConfigKeys[i]
  IN  IF key \in DOMAIN file
      THEN values' = [k \in DOMAIN values \cup {key} |-> IF k = key THEN Sprintf(file[key]) ELSE values[k]]
      ELSE UNCHANGED values

ReadKey ==
  /\ pc = "read"
  /\ i <= Len(ConfigKeys)
  /\ i' = i + 1
  /\ \/ /\ mode = "cmd" => ~cancelled
        /\ KeyRead
        /\ UNCHANGED <<missed, failures>>
     \/ /\ mode = "cmd" /\ cancelled
        /\ missed' = missed \cup {ConfigKeys[i]}
        /\ UNCHANGED <<values, failures>>
     \/ /\ failures < MaxFailures
        /\ failures' = failures + 1
        /\ missed' = missed \cup {ConfigKeys[i]}
        /\ UNCHANGED values
  /\ UNCHANGED <<environment, watched, event, cancelled, pc, force, hash, view, gaps, losses>>

(* delta.Changed("config", values), called only when not forced.           *)
Changed == hash # values

(* All keys are read: nothing to say, nothing new, or a payload.           *)
Decide ==
  LET emits == values # Nothing /\ (force \/ Changed)
  IN  /\ pc = "read"
      /\ i > Len(ConfigKeys)
      /\ IF emits THEN pc' = "send" /\ UNCHANGED <<force, i, values, missed>> ELSE CollectEnds
      /\ hash' = IF emits /\ ~force THEN values ELSE hash
      /\ gaps' = IF force THEN gaps ELSE missed
      /\ UNCHANGED <<environment, watched, event, cancelled, view, failures, losses>>

(* The channel takes the payload, which gets through or is lost behind it. *)
Send ==
  /\ pc = "send"
  /\ CollectEnds
  /\ \/ view' = values /\ UNCHANGED losses
     \/ losses < MaxLosses /\ losses' = losses + 1 /\ UNCHANGED view
  /\ UNCHANGED <<environment, watched, event, cancelled, hash, gaps, failures>>

Abandon ==
  /\ pc = "send"
  /\ cancelled
  /\ CollectEnds
  /\ UNCHANGED <<environment, watched, event, cancelled, hash, view, gaps, failures, losses>>

Next ==
  \/ \E c \in Configurations : Write(c) \/ Replace(c)
  \/ Cancel
  \/ Start \/ CheckTick \/ ForceTick \/ WatchEvent \/ Return \/ WatcherCloses
  \/ ReadKey \/ Decide \/ Send \/ Abandon

Spec == Init /\ [][Next]_vars

(* The loop runs on, and its select, which picks among the ready cases at  *)
(* random, takes the force ticker again and again.                         *)
FairSpec ==
  /\ Spec
  /\ WF_vars(Start) /\ WF_vars(ReadKey) /\ WF_vars(Decide) /\ WF_vars(Send)
  /\ SF_vars(ForceTick)
-----------------------------------------------------------------------------
TypeOK ==
  /\ mode \in {"file", "cmd", "neither"}
  /\ file \in Configurations
  /\ {watched, event, cancelled, force} \subseteq BOOLEAN
  /\ pc \in {"start", "select", "read", "send", "done"}
  /\ i \in 1..(Len(ConfigKeys) + 1)
  /\ DOMAIN values \subseteq Keys /\ DOMAIN hash \subseteq Keys /\ DOMAIN view \subseteq Keys
  /\ missed \subseteq Keys /\ gaps \subseteq Keys
  /\ writes \in 0..MaxWrites /\ failures \in 0..MaxFailures /\ losses \in 0..MaxLosses

(* What a read of the configuration gives when these keys fail.            *)
RenderedWithout(c, keys) == [k \in DOMAIN c \ keys |-> Sprintf(c[k])]

(* No write is missed: whenever the collector is back at its select with   *)
(* the watch in place and no event waiting, the filter holds exactly what  *)
(* the file says, but for the keys that the last unforced collection       *)
(* failed to read, although it reads the file once per key, in the middle  *)
(* of writes, passes over a file it can read nothing of, and does not      *)
(* store what it emits by force.                                           *)
FilterKnowsFile ==
  pc = "select" /\ watched /\ ~event /\ ~(DOMAIN file \subseteq gaps) =>
    hash = RenderedWithout(file, gaps)

(* Once the configuration, the reads and the delivery are stable, the      *)
(* watchtower ends up with the configuration and keeps it, whatever was    *)
(* torn, lost after its hash was stored, or replaced without an event.     *)
ViewConverges ==
  <>[](view = Rendered(file) \/ file = Nothing \/ cancelled \/ pc = "done" \/ mode = "neither")
=============================================================================
