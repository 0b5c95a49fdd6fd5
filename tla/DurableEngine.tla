--------------------------- MODULE DurableEngine ---------------------------
(***************************************************************************)
(* What persistence promises: an engine with a state and the state a crash *)
(* takes it back to.  It knows nothing of logs, snapshots, sequence        *)
(* numbers or replay.                                                      *)
(***************************************************************************)
CONSTANTS
  Command,
  EmptyState,      \* the state of a new engine
  ApplyCommand(_, _)  \* the state after a command in a state

VARIABLES
  state,           \* what the commands so far have led to
  kept,            \* what is left after a crash
  gap              \* has a command been executed that `kept' does not have?

vars == <<state, kept, gap>>

Init == state = EmptyState /\ kept = EmptyState /\ gap = FALSE

(* A command is executed and kept. *)
Execute(c) ==
  /\ UNCHANGED gap
  /\ kept' = ApplyCommand(kept, c)
  /\ state' = ApplyCommand(state, c)

(* A command is executed although it could not be kept. *)
ExecuteUnkept(c) ==
  /\ gap' = TRUE /\ UNCHANGED kept
  /\ state' = ApplyCommand(state, c)

(* Everything executed so far is kept, commands that were not kept too.    *)
Save == kept' = state /\ gap' = FALSE /\ UNCHANGED state

Crash == state' = kept /\ gap' = FALSE /\ UNCHANGED kept

Next ==
  \/ \E c \in Command : Execute(c) \/ ExecuteUnkept(c)
  \/ Save \/ Crash

Spec == Init /\ [][Next]_vars

-----------------------------------------------------------------------------
(* Only commands that could not be logged, and no snapshot covered since,  *)
(* are lost in a crash.                                                    *)
OnlyUnkeptIsLost == gap \/ kept = state

=============================================================================
