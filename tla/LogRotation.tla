---------------------------- MODULE LogRotation ----------------------------
(***************************************************************************)
(* internal/logfile/logfile.go as cmd.Main uses it: every invocation       *)
(* rotates letsencrypt.log (the cascade of rotate, unconditionally), opens *)
(* a new one and only THEN asks for the process locks, so that invocations *)
(* which will be turned away rotate under the one that runs, and several   *)
(* may rotate at once.  One action is one system call; the locks are what  *)
(* LockTable promises of them: one invocation runs at a time.              *)
(***************************************************************************)
EXTENDS Integers, FiniteSets

CONSTANTS
  Proc,      \* the processes
  Backups,   \* the values of max_log_backups considered
  None,
  MaxStarts  \* bound: how many invocations there are

ASSUME LogRotationAssumption ==
  /\ Backups \subseteq Nat /\ IsFiniteSet(Backups)
  /\ MaxStarts \in Nat
  /\ None \notin Nat

VARIABLES
  max,   \* max_log_backups
  file,  \* file[0] is letsencrypt.log, file[k] letsencrypt.log.k: a log, or None
  text,  \* text[l]: the invocations that have lines in log l
  pc,    \* pc[p]: the system call process p makes next
  i,     \* i[p]: the counter of rotate's loop
  fd,    \* fd[p]: the log process p has open
  run,   \* run[p]: the number of p's invocation
  made,  \* [starts |-> invocations so far, logs |-> logs created so far]
  met    \* history: the invocations that were in Setup while another one was

vars == <<max, file, text, pc, i, fd, run, made, met>>

\* Logs and invocations are numbered as they come: a smaller one is older.
Number == 1..MaxStarts
Slot == UNION {0..b : b \in Backups \cup {1}}

Init ==
  /\ max \in Backups
  /\ file = [k \in Slot |-> None]
  /\ text = [l \in Number |-> {}]
  /\ pc = [p \in Proc |-> "idle"]
  /\ i = [p \in Proc |-> 0]
  /\ fd = [p \in Proc |-> None]
  /\ run = [p \in Proc |-> None]
  /\ made = [starts |-> 0, logs |-> 0]
  /\ met = {}

Goto(p, label) == pc' = [pc EXCEPT ![p] = label]

\* rename(2), as the next name k+1 of a log; it fails if the log is gone.
Rename(k) ==
  file' = IF file[k] = None THEN file
          ELSE [file EXCEPT ![k + 1] = file[k], ![k] = None]

-----------------------------------------------------------------------------

\* p is in Setup and has files left to touch.
InSetup(p) == pc[p] \in {"truncate", "stat", "rename", "open"}

\* Setup up to the Stat of rotate, which decides between its three branches.
Begin(p) ==
  /\ pc[p] = "idle"
  /\ made.starts < MaxStarts
  /\ made' = [made EXCEPT !.starts = @ + 1]
  /\ run' = [run EXCEPT ![p] = made.starts + 1]
  /\ met' = LET others == {q \in Proc : InSetup(q)}
            IN  IF others = {} THEN met
                ELSE met \cup {made.starts + 1} \cup {run[q] : q \in others}
  /\ i' = [i EXCEPT ![p] = max - 1]
  /\ Goto(p, IF file[0] = None THEN "open" ELSE IF max = 0 THEN "truncate" ELSE "stat")
  /\ UNCHANGED <<max, file, text, fd>>

Truncate(p) ==
  /\ pc[p] = "truncate"
  /\ text' = IF file[0] = None THEN text ELSE [text EXCEPT ![file[0]] = {}]
  /\ Goto(p, "open")
  /\ UNCHANGED <<max, file, i, fd, run, made, met>>

\* Stat of backup i: a missing one is passed over.
StatBackup(p) ==
  /\ pc[p] = "stat" /\ i[p] >= 1
  /\ IF file[i[p]] = None
       THEN i' = [i EXCEPT ![p] = @ - 1] /\ UNCHANGED pc
       ELSE Goto(p, "rename") /\ UNCHANGED i
  /\ UNCHANGED <<max, file, text, fd, run, made, met>>

\* Slip: the log is renamed to the name two further on.
RenameBackupTooFar(p) ==
  /\ pc[p] = "rename"
  /\ file' = IF file[i[p]] = None THEN file
             ELSE [file EXCEPT ![IF i[p] + 2 \in Slot THEN i[p] + 2 ELSE i[p] + 1] = file[i[p]],
                               ![i[p]] = None]
  /\ i' = [i EXCEPT ![p] = @ - 1]
  /\ Goto(p, "stat")
  /\ UNCHANGED <<max, text, fd, run, made, met>>

\* Slip: the counter goes down in the header and in the body of the loop.
RenameBackupSkips(p) ==
  /\ pc[p] = "rename"
  /\ Rename(i[p])
  /\ i' = [i EXCEPT ![p] = @ - 2]
  /\ Goto(p, "stat")
  /\ UNCHANGED <<max, text, fd, run, made, met>>

RenameBackup(p) ==
  /\ pc[p] = "rename"
  /\ Rename(i[p])
  /\ i' = [i EXCEPT ![p] = @ - 1]
  /\ Goto(p, "stat")
  /\ UNCHANGED <<max, text, fd, run, made, met>>

\* The loop is over: letsencrypt.log becomes .1 (an error is only printed).
RenameLog(p) ==
  /\ pc[p] = "stat" /\ i[p] < 1
  /\ Rename(0)
  /\ Goto(p, "open")
  /\ UNCHANGED <<max, text, i, fd, run, made, met>>

\* OpenFile(O_CREATE|O_APPEND) and the first lines.
Open(p) ==
  /\ pc[p] = "open"
  /\ LET log == IF file[0] = None THEN made.logs + 1 ELSE file[0]
     IN  /\ file' = [file EXCEPT ![0] = log]
         /\ made' = [made EXCEPT !.logs = IF file[0] = None THEN @ + 1 ELSE @]
         /\ text' = [text EXCEPT ![log] = @ \cup {run[p]}]
         /\ fd' = [fd EXCEPT ![p] = log]
  /\ Goto(p, "acquire")
  /\ UNCHANGED <<max, i, run, met>>

\* AcquireDirs: one invocation runs, the others are turned away.
Acquire(p) ==
  /\ pc[p] = "acquire"
  /\ IF \E q \in Proc : pc[q] = "run"
       THEN Goto(p, "idle") /\ fd' = [fd EXCEPT ![p] = None]
       ELSE Goto(p, "run") /\ UNCHANGED fd
  /\ UNCHANGED <<max, file, text, i, run, made, met>>

\* The invocation returns, or is killed, here or anywhere in Setup.
Stop(p) ==
  /\ pc[p] # "idle"
  /\ Goto(p, "idle")
  /\ fd' = [fd EXCEPT ![p] = None]
  /\ UNCHANGED <<max, file, text, i, run, made, met>>

Next == \E p \in Proc :
  \/ Begin(p) \/ Truncate(p) \/ StatBackup(p) \/ RenameBackup(p) \/ RenameLog(p)
  \/ Open(p) \/ Acquire(p) \/ Stop(p)

Spec == Init /\ [][Next]_vars

-----------------------------------------------------------------------------
(* Properties.                                                             *)

Kept == {file[k] : k \in Slot} \ {None}

\* Every variable has its type, no slot beyond max_log_backups is used, and
\* no log has two names.
TypeOK ==
  /\ max \in Backups
  /\ file \in [Slot -> Number \cup {None}]
  /\ \A k \in Slot : k > max => file[k] = None
  /\ \A j, k \in Slot : j # k /\ file[j] # None => file[j] # file[k]
  /\ text \in [Number -> SUBSET Number]
  /\ pc \in [Proc -> {"idle", "truncate", "stat", "rename", "open", "acquire", "run"}]
  /\ i \in [Proc -> Int]
  /\ fd \in [Proc -> Number \cup {None}]
  /\ run \in [Proc -> Number \cup {None}]
  /\ made \in [starts : 0..MaxStarts, logs : 0..MaxStarts]
  /\ met \subseteq Number

\* A log gives way only to a newer one, which takes its name, and unless several
\* invocations are in Setup at once it is the oldest there is (rotate's cascade from
\* the highest backup down, and cmd.Main's order of Setup and locks).
LogSurvivesRotation ==
  [][\A k \in Slot : file[k] \in Kept \ Kept' =>
       /\ file'[k] # None /\ file[k] < file'[k]
       /\ \/ \A l \in Kept' : file[k] < l
          \/ \E p \in Proc : pc'[p] # pc[p] /\ run[p] \in met]_vars

\* Invocations that are turned away push the log of the running one down by one name
\* each: it is there until max_log_backups of them have been, unless some of them were
\* in Setup at once (rotate).
RunningLogLasts ==
  \A p \in Proc :
    /\ pc[p] = "run" /\ max > 0 /\ made.starts - run[p] <= max
    /\ met \cap (run[p]..made.starts) = {}
    => fd[p] \in Kept
=============================================================================
