---------------------------- MODULE ConfigStore ----------------------------
(***************************************************************************)
(* What internal/checkpoint promises about the web server's configuration: *)
(* a run changes it as a whole, in one step, or not at all; every change   *)
(* can be undone, the last one first; and the user may edit it between     *)
(* runs.  It promises less where a run tidies up after itself, and nothing *)
(* while the store is disturbed.                                           *)
(***************************************************************************)
EXTENDS Naturals, Sequences, SequencesExt

CONSTANTS
  File,    \* the configuration files
  Content, \* what a file can hold, a missing file included
  First,   \* First[f]: what f holds at first
  Without, \* Without[c]: content c less what a challenge had put into it
  Lost     \* what is left of a file

VARIABLES
  config,   \* config[f]: what f holds once nothing is half done
  undo,     \* a stack: undo[i][f] is what change i found in file f
  taken,    \* files that the rollback under way has taken back
  running,  \* a run is under way
  disturbed \* two have worked on the store at once, or half a checkpoint is about

vars == <<config, undo, taken, running, disturbed>>

Init ==
  /\ config = First /\ undo = <<>> /\ taken = {}
  /\ running = FALSE /\ disturbed = FALSE

StartRun ==
  /\ ~running /\ running' = TRUE
  /\ disturbed' \in {FALSE, disturbed}
  /\ UNCHANGED <<config, undo, taken>>

\* A run ends.
EndRun ==
  /\ running /\ running' = FALSE
  /\ taken' = {}
  /\ disturbed' \in BOOLEAN
  /\ UNCHANGED <<config, undo>>

\* It is killed as it tidies up, and a file is lost,
Lose(f) ==
  /\ running /\ running' = FALSE
  /\ taken' = {}
  /\ config' = [config EXCEPT ![f] = Lost]
  /\ UNCHANGED <<undo, disturbed>>

\* Any content is put into f.
Put(f) == config' \in [File -> Content] /\ \A g \in File \ {f} : config'[g] = config[g]

\* Between two runs.
Edit(f) ==
  /\ ~running
  /\ Put(f)
  /\ UNCHANGED <<undo, taken, running, disturbed>>

\* A run's change to the files of S, all at once.
Change(S) ==
  /\ running
  /\ undo' = Append(undo, [f \in S |-> config[f]])
  /\ config' \in [File -> Content] /\ \A f \in File \ S : config'[f] = config[f]
  /\ UNCHANGED <<taken, running, disturbed>>

\* What a challenge has left in a file is taken out, and that cannot be undone.
Tidy(f) ==
  /\ running
  /\ config' = [config EXCEPT ![f] = Without[@]]
  /\ UNCHANGED <<undo, taken, running, disturbed>>

\* A rollback works on the files of the last change, one at a time,
UndoFile(f) ==
  /\ running
  /\ undo # <<>> /\ f \in DOMAIN Last(undo)
  /\ Put(f)
  /\ UNCHANGED <<undo, taken, running, disturbed>>

\* All of it is taken back, or was with a later one.
Undone == undo # <<>> /\ \A f \in DOMAIN Last(undo) \ taken : config[f] = Last(undo)[f]

\* and forgets it when all of it is undone, or half of it, whichever, if it is killed.
Forget ==
  /\ running /\ Undone
  /\ undo' = Front(undo)
  /\ \E S \in SUBSET DOMAIN Last(undo) : taken' = taken \cup S
  /\ UNCHANGED <<config, running, disturbed>>

ForgetHalf ==
  /\ running /\ Undone
  /\ \E S \in SUBSET DOMAIN Last(undo) :
       \E h \in [S -> Content] : undo' = Append(Front(undo), h)
  /\ running' = FALSE /\ taken' = {}
  /\ UNCHANGED <<config, disturbed>>

\* Nothing is said of a run that is disturbed, nor of its end.
Disturb == running /\ (disturbed \/ disturbed') /\ running' \in BOOLEAN

Next ==
  \/ StartRun \/ EndRun \/ Forget \/ ForgetHalf \/ Disturb
  \/ \E f \in File : Edit(f) \/ UndoFile(f) \/ Tidy(f) \/ Lose(f)
  \/ \E S \in SUBSET File : Change(S)

Spec == Init /\ [][Next]_vars
=============================================================================
