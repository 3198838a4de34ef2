---------------------------- MODULE Checkpoint -----------------------------
(***************************************************************************)
(* Snapshots of the web server's configuration (internal/checkpoint) and   *)
(* everyone who uses them in one invocation: the recovery at startup and   *)
(* the signal goroutine of cmd.Main, the installers and the http-01        *)
(* authenticators of plugins/nginx and plugins/apache, verbs.Rollback.     *)
(*                                                                         *)
(* Two goroutines run: Main, which dispatches the verb, and Signal, which  *)
(* wakes up on SIGINT or SIGTERM and restores the open checkpoint while    *)
(* the verb goes on.  They share the files, the in-progress directory and  *)
(* inFlightDir.  One action is one file-system call or one critical        *)
(* section of inFlightMu; calls nobody can tell apart from one are one     *)
(* action.  The process may die between any two of them.                   *)
(***************************************************************************)
EXTENDS Naturals, Sequences, FiniteSets, SequencesExt

CONSTANTS
  File,         \* the configuration files
  Shipped,      \* those that exist at first
  Plugins,      \* the plugins that authenticate: "nginx", "apache"
  RootConf,     \* Apache's root configuration file
  MaxRollback,  \* bound: --checkpoints
  MaxTexts,     \* bound: texts that installers and users ever write
  MaxBackups,   \* bound: checkpoints kept in backups/
  None          \* no file, no directory

Main == "main"
Signal == "signal"
Thread == {Main, Signal}

\* A configuration file: the text a user or an installer wrote, with or without
\* an authenticator's injected challenge snippet.  A file that is being rewritten
\* is cut short until the rewriting is through.
Torn == MaxTexts + 1
Conf == [text : 0..Torn, challenge : BOOLEAN]
Content == Conf \cup {None}
CutShort == [text |-> Torn, challenge |-> FALSE]

\* A checkpoint directory: the paths in FILEPATHS, the backup copies (None where
\* there is none) and the paths in NEW_FILES.
Empty == [files |-> {}, copy |-> [f \in File |-> None], new |-> {}]
Directory == [files : SUBSET File, copy : [File -> Content], new : SUBSET File]

ASSUME CheckpointAssumption ==
  /\ Shipped \subseteq File /\ RootConf \in File /\ Plugins \subseteq {"nginx", "apache"}
  /\ MaxRollback \in Nat \ {0} /\ MaxTexts \in Nat /\ MaxBackups \in Nat
  /\ None \notin [text : Nat, challenge : BOOLEAN] /\ None \notin Directory
  /\ None \notin [at : File, new : [text : Nat, challenge : BOOLEAN]]

VARIABLES
  file,     \* file[f]: what configuration file f holds
  dir,      \* <work_dir>/in-progress/, or None
  backups,  \* <work_dir>/backups/, the oldest first
  inFlight, \* inFlightDir is set (in memory)
  pc, left, \* per goroutine: where it is, and the files its loop has not reached
  op,       \* what Main is doing
  job,      \* job[f]: what the operation has read in each file f it is to rewrite
  open,     \* the file Main has truncated, and what it is to hold
  injected, \* injected[p]: files the authenticator of p has injected its snippet into
  failing,  \* an operation has returned an error
  undone,   \* rollback: [n |-> checkpoints to go, seen |-> files of those undone]
  texts,    \* texts written so far (bounded by MaxTexts)
  cut,      \* history: dir is what an interrupted RemoveAll has left of it
  raced     \* history: Signal has restored while Main saved or rewrote, in this run
            \* or in an earlier one whose checkpoint is still about

vars == <<file, dir, backups, inFlight, pc, left, op, job, open, injected, failing, undone,
          texts, cut, raced>>
memory == <<op, job, open, injected, failing, undone, raced>>
disk == <<file, dir, backups, texts, cut>>

Init ==
  /\ file = [f \in File |->
               IF f \in Shipped THEN [text |-> 0, challenge |-> FALSE] ELSE None]
  /\ dir = None
  /\ backups = <<>>
  /\ inFlight = FALSE
  /\ pc = [t \in Thread |-> IF t = Main THEN "off" ELSE "wait"]
  /\ left = [t \in Thread |-> {}]
  /\ op = "none" /\ job = <<>> /\ open = None
  /\ injected = [p \in Plugins |-> {}] /\ failing = FALSE
  /\ undone = [n |-> 0, seen |-> {}]
  /\ texts = 0
  /\ cut = FALSE /\ raced = FALSE

Goto(t, label) == pc' = [pc EXCEPT ![t] = label]
Loop(t, label, S) == Goto(t, label) /\ left' = [left EXCEPT ![t] = S]
Done(t, f) == left' = [left EXCEPT ![t] = @ \ {f}]

\* The process is gone, and what it had in memory with it.
Off ==
  /\ inFlight' = FALSE
  /\ pc' = [t \in Thread |-> IF t = Main THEN "off" ELSE "wait"]
  /\ left' = [t \in Thread |-> {}]
  /\ op' = "none" /\ job' = <<>> /\ open' = None
  /\ injected' = [p \in Plugins |-> {}] /\ failing' = FALSE
  /\ undone' = [n |-> 0, seen |-> {}]
  /\ UNCHANGED raced

\* Main's operation returns an error.
Fail ==
  /\ Loop(Main, "ready", {})
  /\ failing' = TRUE
  /\ UNCHANGED <<inFlight, op, job, open, injected, undone, raced>>

\* The goroutine puts files back.
Restores == pc[Signal] \in {"restore", "unlink"}

-----------------------------------------------------------------------------
(* restoreDir and Restore: one checkpoint is put back.                     *)

\* The checkpoint goroutine t restores.
Source(t) == IF t = Main /\ op = "rollback" THEN Last(backups)
             ELSE IF dir = None THEN Empty ELSE dir

\* A missing directory reads as an empty one.
FilesOf(d) == IF d = None THEN {} ELSE d.files

\* A file that is renamed over or unlinked is no longer the one Main has open.
Unlinked(f) == open' = IF open # None /\ open.at = f THEN None ELSE open

\* restoreFile: a temporary file renamed over f.
RestoreFile(t, f) ==
  /\ pc[t] = "restore"
  /\ f \in left[t]
  /\ Source(t).copy[f] # None
  /\ file' = [file EXCEPT ![f] = Source(t).copy[f]]
  /\ Unlinked(f)
  /\ Done(t, f)
  /\ UNCHANGED <<dir, backups, inFlight, pc, op, job, injected, failing, undone, texts,
                 cut, raced>>

\* Slip: NEW_FILES is forgotten.
RestoreNewForgotten(t) ==
  /\ pc[t] = "restore"
  /\ left[t] = {}
  /\ Loop(t, "unlink", {})
  /\ UNCHANGED <<disk, inFlight, memory>>

\* FILEPATHS is through: NEW_FILES is read.
RestoreNew(t) ==
  /\ pc[t] = "restore"
  /\ left[t] = {}
  /\ Loop(t, "unlink", Source(t).new)
  /\ UNCHANGED <<disk, inFlight, memory>>

UnlinkNew(t, f) ==
  /\ pc[t] = "unlink"
  /\ f \in left[t]
  /\ file' = [file EXCEPT ![f] = None]
  /\ Unlinked(f)
  /\ Done(t, f)
  /\ UNCHANGED <<dir, backups, inFlight, pc, op, job, injected, failing, undone, texts,
                 cut, raced>>

Recovers(t) == op # "rollback" \/ t = Signal

\* Slip: the directory stays after a recovery.
RemoveDirForgotten(t) ==
  /\ pc[t] = "unlink" /\ left[t] = {} /\ Recovers(t)
  /\ Goto(t, IF t = Main THEN "ready" ELSE "restored")
  /\ UNCHANGED <<disk, inFlight, left, memory>>

\* RemoveAll of the in-progress directory ends a recovery.
RemoveDir(t) ==
  /\ pc[t] = "unlink" /\ left[t] = {} /\ Recovers(t)
  /\ dir' = None /\ cut' = FALSE
  /\ raced' = (raced /\ t = Signal)
  /\ Goto(t, IF t = Main THEN "ready" ELSE "restored")
  /\ UNCHANGED <<file, backups, texts, inFlight, left, op, job, open, injected, failing,
                 undone>>

\* A backup copy is missing: the error ends the recovery (cmd.Main warns and
\* goes on) or the rollback.
RestoreFails(t) ==
  /\ pc[t] = "restore"
  /\ \E f \in left[t] : Source(t).copy[f] = None
  /\ IF Recovers(t)
       THEN Loop(t, IF t = Main THEN "ready" ELSE "restored", {})
            /\ UNCHANGED <<inFlight, memory>>
       ELSE Off
  /\ UNCHANGED disk

-----------------------------------------------------------------------------
(* cmd.Main: startup, RecoverInterrupted, and the ways out.                *)

StartRun ==
  /\ pc[Main] = "off"
  /\ op' = "startup"
  /\ IF dir = None THEN Loop(Main, "ready", {})
                   ELSE Loop(Main, "restore", FilesOf(dir))
  /\ raced' = (raced /\ dir # None)
  /\ UNCHANGED <<disk, inFlight, job, open, injected, failing, undone>>

\* The verb returns without an error, or with one.
Finish ==
  /\ pc[Main] = "ready"
  /\ Off
  /\ UNCHANGED disk

\* The process dies.
Crash ==
  /\ pc[Main] # "off"
  /\ Off
  /\ UNCHANGED disk

\* What is left of directory d when its removal is cut short: some of its files, the
\* two lists among them.  Without FILEPATHS nobody reads the copies.
Remains(d) ==
  UNION {{[d EXCEPT !.copy = [f \in File |-> IF f \in S THEN None ELSE @[f]], !.new = W] :
            S \in SUBSET d.files}
         \cup {[Empty EXCEPT !.new = W]} : W \in {{}, d.new}}

\* It dies in the RemoveAll that ends a recovery or the undoing of a checkpoint.
CrashInRemoveAll(t) ==
  /\ pc[t] = "unlink" /\ left[t] = {}
  /\ \/ /\ Recovers(t) /\ dir # None
        /\ dir' \in Remains(dir) /\ cut' = TRUE
        /\ UNCHANGED backups
     \/ /\ ~Recovers(t)
        /\ \E d \in Remains(Last(backups)) : backups' = Append(Front(backups), d)
        /\ UNCHANGED <<dir, cut>>
  /\ Off
  /\ UNCHANGED <<file, texts>>

\* Between runs the user edits a file.
UserEdits ==
  /\ pc[Main] = "off"
  /\ texts < MaxTexts
  /\ texts' = texts + 1
  /\ \E f \in File :
       file' = [file EXCEPT ![f] = [text |-> texts', challenge |-> FALSE]]
  /\ UNCHANGED <<dir, backups, cut, inFlight, pc, left, memory>>

-----------------------------------------------------------------------------
(* checkpoint.Save.                                                        *)

\* An installer is about to rewrite the files of S, of which it has read at least
\* one, and to create the others.
BeginInstall(S) ==
  /\ pc[Main] = "ready" /\ op # "rollback" /\ ~failing
  /\ texts < MaxTexts /\ Len(backups) < MaxBackups
  /\ \E f \in S : file[f] # None
  /\ op' = "install" /\ job' = [f \in S |-> file[f]]
  /\ Goto(Main, "snapshot")
  /\ raced' = (raced \/ Restores)
  /\ UNCHANGED <<disk, inFlight, left, open, injected, failing, undone>>

\* An http-01 authenticator is about to inject its snippet into the files of S;
\* nginx's has noted them already.  Only renew goes on when a lineage has failed, and
\* it never installs.
BeginAuthenticate(S, p) ==
  /\ pc[Main] = "ready" /\ op # "rollback" /\ (failing => op \in Plugins)
  /\ Len(backups) < MaxBackups
  /\ S # {} /\ \A f \in S : file[f] # None
  /\ op' = p /\ job' = [f \in S |-> file[f]]
  /\ injected' = IF p = "nginx" THEN [injected EXCEPT ![p] = @ \cup S] ELSE injected
  /\ Goto(Main, "snapshot")
  /\ raced' = (raced \/ Restores)
  /\ UNCHANGED <<disk, inFlight, left, open, failing, undone>>

\* What Save makes of the directory when it copies the files of S.
Copied(S) ==
  LET d == IF dir = None THEN Empty ELSE dir
  IN  [d EXCEPT !.copy = [f \in File |-> IF f \in S THEN file[f] ELSE @[f]]]

\* Slips: files in FILEPATHS are copied again; FILEPATHS is never written.
SaveCopiesAgain ==
  /\ pc[Main] = "snapshot"
  /\ dir' = Copied(DOMAIN job)
  /\ Loop(Main, "record", DOMAIN job)
  /\ UNCHANGED <<file, backups, inFlight, memory, texts, cut>>

SaveCopiesOnly ==
  /\ pc[Main] = "snapshot"
  /\ dir' = Copied(DOMAIN job)
  /\ Loop(Main, "record", {})
  /\ UNCHANGED <<file, backups, inFlight, memory, texts, cut>>

\* The directory is made and every file not in FILEPATHS yet is copied into it.
SaveCopies ==
  /\ pc[Main] = "snapshot"
  /\ LET unseen == DOMAIN job \ FilesOf(dir)
     IN dir' = Copied(unseen) /\ Loop(Main, "record", unseen)
  /\ UNCHANGED <<file, backups, inFlight, memory, texts, cut>>

\* One line of FILEPATHS, or of NEW_FILES for a file that was not there.
SaveLine(f) ==
  /\ pc[Main] = "record" /\ dir # None
  /\ f \in left[Main]
  /\ dir' = IF dir.copy[f] # None THEN [dir EXCEPT !.files = @ \cup {f}]
                                  ELSE [dir EXCEPT !.new = @ \cup {f}]
  /\ Done(Main, f)
  /\ UNCHANGED <<file, backups, inFlight, pc, memory, texts, cut>>

\* The other goroutine removed the directory: appendLine fails.
SaveFails ==
  /\ pc[Main] = "record" /\ dir = None
  /\ left[Main] # {}
  /\ Fail
  /\ UNCHANGED disk

\* markInFlight; apache's authenticator notes the files.
SaveMark ==
  /\ pc[Main] = "record"
  /\ left[Main] = {}
  /\ inFlight' = TRUE
  /\ injected' = IF op = "apache" THEN [injected EXCEPT ![op] = @ \cup DOMAIN job]
                                  ELSE injected
  /\ Loop(Main, "write", DOMAIN job)
  /\ UNCHANGED <<disk, op, job, open, failing, undone, raced>>

-----------------------------------------------------------------------------
(* The plugins: write, test and reload, clean up.                          *)

\* os.WriteFile: the file is truncated, and then filled.
Truncate(f, content) ==
  /\ open = None
  /\ file' = [file EXCEPT ![f] = CutShort]
  /\ open' = [at |-> f, new |-> content]
  /\ Done(Main, f)

FillFile ==
  /\ open # None
  /\ file' = [file EXCEPT ![open.at] = open.new]
  /\ open' = None
  /\ UNCHANGED <<dir, backups, inFlight, pc, left, op, job, injected, failing, undone,
                 texts, cut, raced>>

WriteFile(f) ==
  /\ pc[Main] = "write"
  /\ f \in left[Main]
  /\ \/ /\ op = "install"
        /\ Truncate(f, [text |-> texts + 1,
                        challenge |-> job[f] # None /\ job[f].challenge])
     \/ /\ op \in Plugins
        /\ Truncate(f, [job[f] EXCEPT !.challenge = TRUE])
  /\ UNCHANGED <<dir, backups, inFlight, pc, op, job, injected, failing, undone, texts,
                 cut, raced>>

WritesDone ==
  /\ pc[Main] = "write"
  /\ left[Main] = {} /\ open = None
  /\ texts' = IF op = "install" THEN texts + 1 ELSE texts
  /\ job' = <<>>
  /\ Goto(Main, "reload")
  /\ UNCHANGED <<file, dir, backups, cut, inFlight, left, op, open, injected, failing,
                 undone, raced>>

\* testAndReload: its commands are killed when the context is cancelled.
ReloadWorks ==
  /\ pc[Main] = "reload"
  /\ pc[Signal] = "wait"
  /\ Goto(Main, IF op = "install" THEN "clean" ELSE "challenge")
  /\ UNCHANGED <<disk, inFlight, left, memory>>

\* Install returns the error.  So does Prepare, whose Cleanup is not deferred yet.
ReloadFails ==
  /\ pc[Main] = "reload"
  /\ Fail
  /\ UNCHANGED disk

\* The order is through, or it has failed (as it does when the context is
\* cancelled): the deferred Cleanup, for all that this plugin ever injected in the
\* run; apache's takes the root configuration as well.
ChallengeDone ==
  /\ pc[Main] = "challenge"
  /\ Loop(Main, "strip", injected[op] \cup (IF op = "apache" THEN {RootConf} ELSE {}))
  /\ \/ pc[Signal] = "wait" /\ failing' = failing
     \/ failing' = TRUE
  /\ raced' = (raced \/ Restores)
  /\ UNCHANGED <<disk, inFlight, op, job, open, injected, undone>>

\* A file of Cleanup's is read,
ReadBack(f) ==
  /\ pc[Main] = "strip"
  /\ f \in left[Main] /\ job = <<>> /\ open = None
  /\ file[f] # None
  /\ job' = [g \in {f} |-> file[g]]
  /\ UNCHANGED <<disk, inFlight, pc, left, op, open, injected, failing, undone, raced>>

\* or cannot be, or not be parsed: apache passes on to the next, nginx gives up.
ReadBackFails(f) ==
  /\ pc[Main] = "strip"
  /\ f \in left[Main] /\ job = <<>> /\ open = None
  /\ file[f] = None \/ file[f].text = Torn
  /\ left' = [left EXCEPT ![Main] = IF op = "nginx" THEN {} ELSE @ \ {f}]
  /\ UNCHANGED <<disk, inFlight, pc, memory>>

\* and written back without the snippet, by os.WriteFile and with no checkpoint.
WriteBack(f) ==
  /\ pc[Main] = "strip"
  /\ f \in DOMAIN job
  /\ Truncate(f, [job[f] EXCEPT !.challenge = FALSE])
  /\ job' = <<>>
  /\ UNCHANGED <<dir, backups, inFlight, pc, op, injected, failing, undone, texts, cut,
                 raced>>

StripsDone ==
  /\ pc[Main] = "strip"
  /\ left[Main] = {} /\ job = <<>> /\ open = None
  /\ Goto(Main, IF op = "nginx" THEN "ready" ELSE "clean")
  /\ UNCHANGED <<disk, inFlight, left, memory>>

-----------------------------------------------------------------------------
(* MarkClean and RestoreInFlight: whoever takes inFlightDir has it.        *)

TakeClean ==
  /\ pc[Main] = "clean"
  /\ inFlight' = FALSE
  /\ Goto(Main, IF inFlight THEN "promote" ELSE "ready")
  /\ UNCHANGED <<disk, left, memory>>

\* The directory, if it is there, is renamed to the latest timestamp.
Promote ==
  /\ pc[Main] = "promote"
  /\ IF dir = None THEN UNCHANGED <<dir, backups, cut>>
                   ELSE backups' = Append(backups, dir) /\ dir' = None /\ cut' = FALSE
  /\ Goto(Main, "ready")
  /\ UNCHANGED <<file, texts, inFlight, left, memory>>

\* The handler is installed after the recovery; before that a signal is a crash.
SignalArrives ==
  /\ pc[Signal] = "wait"
  /\ op # "none" /\ (op = "startup" => pc[Main] = "ready")
  /\ Goto(Signal, "take")
  /\ UNCHANGED <<disk, inFlight, left, memory>>

\* Where Main reads files, snapshots them and writes them.
Rewriting == {"snapshot", "record", "write", "strip"}

TakeRestore ==
  /\ pc[Signal] = "take"
  /\ inFlight' = FALSE
  /\ IF inFlight THEN Loop(Signal, "restore", FilesOf(dir))
                 ELSE Loop(Signal, "restored", {})
  /\ raced' = (raced \/ (inFlight /\ pc[Main] \in Rewriting))
  /\ UNCHANGED <<disk, op, job, open, injected, failing, undone>>

-----------------------------------------------------------------------------
(* checkpoint.Restore(n), for verbs.Rollback.                              *)

LeastOf(m, n) == IF m < n THEN m ELSE n

BeginRollback(n) ==
  /\ pc[Main] = "ready" /\ op = "startup"
  /\ backups # <<>>
  /\ op' = "rollback"
  /\ undone' = [n |-> LeastOf(n, Len(backups)), seen |-> {}]
  /\ Loop(Main, "restore", Last(backups).files)
  /\ UNCHANGED <<disk, inFlight, job, open, injected, failing, raced>>

\* One checkpoint is undone and removed; on to the one before it, if asked to,
\* for the files not seen yet.
DropCheckpoint ==
  /\ pc[Main] = "unlink" /\ left[Main] = {}
  /\ op = "rollback"
  /\ backups' = Front(backups)
  /\ LET seen == undone.seen \cup Last(backups).files
     IN  IF undone.n = 1
         THEN Loop(Main, "ready", {}) /\ UNCHANGED undone
         ELSE /\ undone' = [n |-> undone.n - 1, seen |-> seen]
              /\ Loop(Main, "restore", Last(backups').files \ seen)
  /\ UNCHANGED <<file, dir, texts, cut, inFlight, op, job, open, injected, failing, raced>>

-----------------------------------------------------------------------------
Restoring(t) ==
  \/ RestoreNew(t) \/ RemoveDir(t) \/ RestoreFails(t)
  \/ \E f \in File : RestoreFile(t, f) \/ UnlinkNew(t, f)

SignalStep == TakeRestore \/ Restoring(Signal)

\* What Main does by itself, apart from waiting for the CA.
MainStep ==
  \/ Restoring(Main) \/ DropCheckpoint
  \/ SaveCopies \/ SaveFails \/ SaveMark \/ \E f \in File : SaveLine(f)
  \/ WritesDone \/ ReloadWorks \/ ReloadFails \/ FillFile
  \/ \E f \in File : WriteFile(f) \/ WriteBack(f) \/ ReadBack(f) \/ ReadBackFails(f)
  \/ StripsDone \/ TakeClean \/ Promote

Choose ==
  \/ StartRun \/ Finish
  \/ \E S \in SUBSET File : BeginInstall(S)
  \/ \E S \in SUBSET File, p \in Plugins : BeginAuthenticate(S, p)
  \/ \E n \in 1..MaxRollback : BeginRollback(n)

Next ==
  \/ Choose \/ MainStep \/ ChallengeDone \/ SignalArrives \/ SignalStep
  \/ Crash \/ UserEdits \/ \E t \in Thread : CrashInRemoveAll(t)

Spec == Init /\ [][Next]_vars
-----------------------------------------------------------------------------
(* Properties.                                                             *)

Labels == {"off", "ready", "restore", "unlink", "snapshot", "record", "write",
           "reload", "challenge", "strip", "clean", "promote", "wait", "take",
           "restored"}

TypeOK ==
  /\ file \in [File -> Content]
  /\ dir = None \/ dir \in Directory
  /\ backups \in Seq(Directory)
  /\ inFlight \in BOOLEAN
  /\ pc \in [Thread -> Labels]
  /\ left \in [Thread -> SUBSET File]
  /\ op \in {"none", "startup", "install", "rollback"} \cup Plugins
  /\ \E S \in SUBSET File : job \in [S -> Content]
  /\ open = None \/ open \in [at : File, new : Conf]
  /\ injected \in [Plugins -> SUBSET File] /\ failing \in BOOLEAN
  /\ undone \in [n : 0..MaxRollback, seen : SUBSET File]
  /\ texts \in 0..MaxTexts
  /\ cut \in BOOLEAN /\ raced \in BOOLEAN

\* What a checkpoint puts back into the files it has a copy of or has as new.
Snapshot(d) ==
  [f \in {g \in d.files : d.copy[g] # None} \cup d.new |->
     IF f \in d.new THEN None ELSE d.copy[f]]

\* The in-progress directory has file f.
Covered(f) == dir # None /\ f \in DOMAIN Snapshot(dir)

\* What file f will hold once the next startup has recovered.
Recovered(f) == IF Covered(f) THEN Snapshot(dir)[f] ELSE file[f]

\* Whatever a run writes, and wherever it stops, the configuration the next
\* startup comes up with changes only in the rename of MarkClean, in a rollback
\* and by the user's hand: every write comes after its snapshot, every restoring
\* step leads to the same configuration, and starting over does too.  Three things
\* the code leaves open.  An authenticator's Cleanup rewrites files that no checkpoint
\* has (apache's root configuration, and the files of earlier lineages, after
\* MarkClean): a kill there leaves one cut short.  A signal's goroutine restores while
\* the verb still saves and writes: the rest of that run is not undone.  And a
\* directory half removed is still taken for a checkpoint.
CrashSafe ==
  [][\A f \in File : Recovered(f)' # Recovered(f) =>
       \/ UserEdits \/ Promote \/ op = "rollback"
       \/ pc[Main] = "strip" /\ ~Covered(f)
       \/ raced \/ cut]_vars

\* RecoverInterrupted "restores from it and clears it" (checkpoint.go:16): however the
\* runs before have ended, the verb begins without a checkpoint, unless a removal
\* that was cut short has left one without its copies.
RecoveryClears == pc[Main] = "ready" /\ op = "startup" => dir = None \/ cut

\* "Restore replays the most recent n checkpoints in reverse and removes them"
\* (checkpoint.go:262): a checkpoint goes only when its files are as it has them, the
\* new ones gone.  Of a file that two of them have, only the later copy is put back.
RollbackReplays ==
  [][Len(backups') < Len(backups) =>
       \A f \in DOMAIN Snapshot(Last(backups)) :
         \/ file[f] = Snapshot(Last(backups))[f]
         \/ f \in undone.seen \ Last(backups).new]_vars

\* What f will hold when the write under way is through, or undone.
Settled(f) ==
  IF ~Covered(f) /\ open # None /\ open.at = f THEN open.new ELSE Recovered(f)

\* The checkpoints implement a store that changes in one step or not at all, but
\* where the code leaves it open (see CrashSafe).
Store == INSTANCE ConfigStore WITH
  First <- [f \in File |-> IF f \in Shipped THEN [text |-> 0, challenge |-> FALSE]
                                            ELSE None],
  Without <- [c \in Content |-> IF c = None THEN None ELSE [c EXCEPT !.challenge = FALSE]],
  Lost <- CutShort,
  config <- [f \in File |-> Settled(f)],
  undo <- [i \in DOMAIN backups |-> Snapshot(backups[i])],
  taken <- undone.seen,
  running <- pc[Main] # "off",
  disturbed <- raced \/ cut

ImplementsConfigStore == Store!Spec
=============================================================================
