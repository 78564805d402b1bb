---------------------------- MODULE ConfigReload ----------------------------
(***************************************************************************)
(* The watchtower's SIGHUP reload loop (cmd/watchtower/main.go): an        *)
(* operator edits the configuration file and signals the process; a        *)
(* goroutine takes signals from a channel of capacity one, loads the file  *)
(* and swaps the authenticator's validator table.  Signals that arrive     *)
(* while one is already queued are discarded by os/signal.                 *)
(***************************************************************************)
EXTENDS Naturals

CONSTANTS
  Tables,    \* validator tables of the files config.Load accepts
  Invalid    \* content config.Load rejects: unreadable, half-written, not valid

ASSUME InvalidAssumption == Invalid \notin Tables

VARIABLES
  file,      \* content of the configuration file
  hup,       \* sighupCh holds a signal
  reloader,  \* where the reload goroutine is
  newCfg,    \* the configuration it has loaded
  table,     \* the validator table in force
  cancelled, \* ctx: SIGINT or SIGTERM received
  signalled  \* history: a SIGHUP was sent since the last edit

reloadVars == <<file, hup, reloader, newCfg, table, cancelled, signalled>>
-----------------------------------------------------------------------------
(* runCmd loads the file before it starts the goroutine, and exits if that *)
(* fails.                                                                  *)
ReloadInit ==
  /\ file \in Tables
  /\ table = file
  /\ newCfg = file
  /\ hup = FALSE
  /\ reloader = "select"
  /\ cancelled = FALSE
  /\ signalled = FALSE

(* The operator, or a deploy script, rewrites the file.                    *)
EditFile(content) ==
  /\ file' = content
  /\ signalled' = FALSE
  /\ UNCHANGED <<hup, reloader, newCfg, table, cancelled>>

(* Mutant: an unbuffered channel, so a signal finds the goroutine waiting  *)
(* or is gone.                                                             *)
SighupUnbuffered ==
  /\ hup' = (hup \/ reloader = "select")
  /\ signalled' = TRUE
  /\ UNCHANGED <<file, reloader, newCfg, table, cancelled>>

(* signal.Notify's non-blocking send to the buffered channel.              *)
Sighup ==
  /\ hup' = TRUE
  /\ signalled' = TRUE
  /\ UNCHANGED <<file, reloader, newCfg, table, cancelled>>

Cancel ==
  /\ ~cancelled
  /\ cancelled' = TRUE
  /\ UNCHANGED <<file, hup, reloader, newCfg, table, signalled>>

(* The select: a queued signal, or ctx.Done; either when both are ready.   *)
TakeSignal ==
  /\ reloader = "select"
  /\ hup
  /\ hup' = FALSE
  /\ reloader' = "load"
  /\ UNCHANGED <<file, newCfg, table, cancelled, signalled>>

Exit ==
  /\ reloader = "select"
  /\ cancelled
  /\ reloader' = "stopped"
  /\ UNCHANGED <<file, hup, newCfg, table, cancelled, signalled>>

(* config.Load: the file as it is now, or an error that keeps the table.   *)
LoadFails ==
  /\ reloader = "load"
  /\ file = Invalid
  /\ reloader' = "select"
  /\ UNCHANGED <<file, hup, newCfg, table, cancelled, signalled>>

LoadSucceeds ==
  /\ reloader = "load"
  /\ file # Invalid
  /\ newCfg' = file
  /\ reloader' = "apply"
  /\ UNCHANGED <<file, hup, table, cancelled, signalled>>

(* Mutant: signals queued during the load are discarded as duplicates.     *)
ApplyAndClearSignals ==
  /\ reloader = "apply"
  /\ table' = newCfg
  /\ hup' = FALSE
  /\ reloader' = "select"
  /\ UNCHANGED <<file, newCfg, cancelled, signalled>>

(* a.Reload(newCfg.Validators).                                            *)
Apply ==
  /\ reloader = "apply"
  /\ table' = newCfg
  /\ reloader' = "select"
  /\ UNCHANGED <<file, hup, newCfg, cancelled, signalled>>

Operator == (\E c \in Tables \cup {Invalid} : EditFile(c)) \/ Sighup \/ Cancel

Goroutine == TakeSignal \/ Exit \/ LoadFails \/ LoadSucceeds \/ Apply

ReloadNext == Operator \/ Goroutine

(* The goroutine never blocks outside its select: os.ReadFile and Reload   *)
(* return, so each of its steps is taken once it stays enabled.            *)
ReloadSpec == ReloadInit /\ [][ReloadNext]_reloadVars /\ WF_reloadVars(Goroutine)
-----------------------------------------------------------------------------
ReloadTypeOK ==
  /\ file \in Tables \cup {Invalid}
  /\ hup \in BOOLEAN
  /\ reloader \in {"select", "load", "apply", "stopped"}
  /\ newCfg \in Tables
  /\ table \in Tables
  /\ cancelled \in BOOLEAN
  /\ signalled \in BOOLEAN

(* No reload is lost, whatever signals are coalesced and whatever the      *)
(* goroutine was doing when they came: once the file was edited and then   *)
(* signalled, its table is in force, or a signal is still queued, or the   *)
(* goroutine is about to read the file or to apply what it read of it.     *)
ReloadNotLost ==
  signalled /\ file # Invalid /\ reloader # "stopped" =>
    \/ table = file
    \/ hup
    \/ reloader = "load"
    \/ reloader = "apply" /\ newCfg = file

(* An edit followed by a SIGHUP takes effect, unless the operator edits    *)
(* the file again or stops the watchtower first.                           *)
EditTakesEffect ==
  signalled /\ file # Invalid ~> table = file \/ ~signalled \/ cancelled
=============================================================================
