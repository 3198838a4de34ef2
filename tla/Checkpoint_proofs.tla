------------------------- MODULE Checkpoint_proofs --------------------------
(***************************************************************************)
(* What the checkpoints promise whatever stops a run, for any files,       *)
(* plugins and bounds.  The properties are about the configuration that    *)
(* the next startup would make of what is on disk, so the invariant says   *)
(* what a run has read and what the open checkpoint has of the files at    *)
(* every point of a save, a write and a cleanup (Working, Guarded), how    *)
(* far each restoration has come (Replaying, Clearing) and that no file is *)
(* both in FILEPATHS and in NEW_FILES when a removal is cut short          *)
(* (OneList).                                                              *)
(***************************************************************************)
EXTENDS Checkpoint, SequenceTheorems, TLAPS

MainLabel == {"off", "ready", "restore", "unlink", "snapshot", "record", "write",
              "reload", "challenge", "strip", "clean", "promote"}
SignalLabel == {"wait", "take", "restore", "unlink", "restored"}

\* What each goroutine can be at; the signal goroutine restores only what Main has
\* marked, so never while Main restores.
Phases ==
  /\ pc[Main] \in MainLabel /\ pc[Signal] \in SignalLabel
  /\ pc[Main] = "off" <=> op = "none"
  /\ op = "none" => pc[Signal] = "wait"
  /\ op \in {"none", "startup", "rollback"} =>
       /\ ~inFlight
       /\ pc[Signal] \in {"wait", "take", "restored"}
       /\ pc[Main] \in {"off", "restore", "unlink", "ready"}
  /\ pc[Main] \in {"restore", "unlink"} => op \in {"startup", "rollback"}
  /\ pc[Main] \in {"challenge", "strip"} => op \in Plugins
  /\ pc[Main] \in {"restore", "unlink"} /\ op = "rollback" =>
       backups # <<>> /\ undone.n \in 1..Len(backups)
  /\ op # "rollback" => undone.seen = {}
  /\ pc[Main] = "promote" => ~inFlight

\* What an operation has in hand: what it has read, and the file that is cut short.
Working ==
  /\ pc[Main] \in {"record", "write"} => left[Main] \subseteq DOMAIN job
  /\ pc[Main] \in {"snapshot", "record", "write"} =>
       /\ op = "install" => texts < MaxTexts
       /\ op \in Plugins => \A f \in DOMAIN job : job[f] # None
  /\ pc[Main] \in {"reload", "challenge"} => job = <<>>
  /\ pc[Main] = "strip" => \A f \in DOMAIN job : job[f] # None
  /\ open # None =>
       /\ pc[Main] \in {"write", "strip"}
       /\ pc[Main] = "write" => open.at \in DOMAIN job
       /\ pc[Main] = "strip" => job = <<>>
       /\ file[open.at] = CutShort

\* How far goroutine t's restoration has come: FILEPATHS is put back in the first loop,
\* NEW_FILES is removed in the second.
PutBack(t, f) ==
  \/ Source(t).copy[f] # None /\ file[f] = Source(t).copy[f]
  \/ t = Main /\ f \in undone.seen

Replayed(t) ==
  /\ pc[t] = "restore" =>
       /\ left[t] \subseteq Source(t).files
       /\ \A f \in Source(t).files \ left[t] : PutBack(t, f)
  /\ pc[t] = "unlink" =>
       /\ left[t] \subseteq Source(t).new
       /\ \A f \in Source(t).files :
            \/ Source(t).copy[f] # None
            \/ t = Main /\ f \in undone.seen
       /\ \A f \in Source(t).files \ Source(t).new : PutBack(t, f)
       /\ \A f \in Source(t).new \ left[t] : file[f] = None

Replaying == Replayed(Main) /\ (~raced => Replayed(Signal))

\* Every path in FILEPATHS has its copy, and the recovery works.
Clearing ==
  ~cut =>
    /\ dir # None => \A f \in dir.files : dir.copy[f] # None
    /\ (op = "startup" /\ pc[Main] = "ready") \/ op = "rollback" => dir = None

\* While the goroutines are not in each other's way, what is written is covered first.
Guarded ==
  ~raced =>
    /\ Restores => pc[Main] \notin Rewriting \cup {"promote"} /\ ~inFlight
    /\ pc[Main] = "record" =>
         /\ dir # None
         /\ \A f \in left[Main] : dir.copy[f] = file[f]
         /\ ~cut => \A f \in DOMAIN job : f \in left[Main] \/ Covered(f)
    /\ pc[Main] = "write" /\ ~cut => \A f \in DOMAIN job : Covered(f)
    /\ pc[Main] \in {"snapshot", "record", "strip"} =>
         \A f \in DOMAIN job : job[f] = file[f]

\* A file is in one of the two lists: nobody saves once an installer has.
OneList ==
  ~raced /\ ~cut /\ dir # None =>
    /\ dir.files \cap dir.new = {}
    /\ pc[Main] = "snapshot" \/ op \in Plugins => dir.new = {}
    /\ pc[Main] = "record" => left[Main] \cap (dir.files \cup dir.new) = {}
    /\ pc[Main] = "ready" /\ op = "install" => failing \/ Restores
    /\ pc[Main] \in {"write", "reload", "challenge", "strip", "clean"} =>
         inFlight \/ Restores

IInv == TypeOK /\ Phases /\ Working /\ Replaying /\ Clearing /\ Guarded /\ OneList

-----------------------------------------------------------------------------
USE DEF Main, Signal

LEMMA Contents ==
  /\ None \notin Conf /\ None \notin Directory
  /\ Thread = {Main, Signal} /\ Main # Signal
  /\ "install" \notin Plugins /\ "startup" \notin Plugins /\ "rollback" \notin Plugins
  /\ "none" \notin Plugins
<1>1. None \notin Conf
  <2>1. 0..MaxTexts \subseteq Nat
    OBVIOUS
  <2>2. Conf \subseteq [text : Nat, challenge : BOOLEAN]
    BY <2>1 DEF Conf
  <2> QED BY <2>2, CheckpointAssumption
<1> QED BY <1>1, CheckpointAssumption DEF Thread

LEMMA NoJob == \E S \in SUBSET File : <<>> \in [S -> Content]
<1>1. <<>> \in [{} -> Content]
  OBVIOUS
<1> QED BY <1>1

LEMMA EmptyTyped ==
  /\ Empty \in Directory
  /\ Empty.files = {} /\ Empty.new = {} /\ \A f \in File : Empty.copy[f] = None
<1>1. [f \in File |-> None] \in [File -> Content]
  BY DEF Content
<1> QED BY <1>1 DEF Empty, Directory

\* A checkpoint that is restored, and the loop over its FILEPATHS.
LEMMA SourceTyped ==
  ASSUME TypeOK, Phases, NEW t \in Thread, pc[t] \in {"restore", "unlink"}
  PROVE  Source(t) \in Directory
<1>1. CASE t = Main /\ op = "rollback"
  <2>1. backups # <<>> /\ backups \in Seq(Directory)
    BY <1>1 DEF TypeOK, Phases
  <2>2. Len(backups) \in 1..Len(backups) /\ Len(backups) \in DOMAIN backups
    BY <2>1, EmptySeq
  <2> QED BY <1>1, <2>1, <2>2 DEF Source, Last
<1>2. CASE ~ (t = Main /\ op = "rollback")
  BY <1>2, EmptyTyped DEF Source, TypeOK
<1> QED BY <1>1, <1>2

\* TypeOK by what it types: the disk, the loops and the rest of the memory.
DiskOK ==
  /\ file \in [File -> Content]
  /\ dir = None \/ dir \in Directory
  /\ backups \in Seq(Directory)

PlaceOK == pc \in [Thread -> Labels] /\ left \in [Thread -> SUBSET File]

OperationOK ==
  /\ op \in {"none", "startup", "install", "rollback"} \cup Plugins
  /\ \E S \in SUBSET File : job \in [S -> Content]
  /\ open = None \/ open \in [at : File, new : Conf]
  /\ injected \in [Plugins -> SUBSET File] /\ failing \in BOOLEAN
  /\ inFlight \in BOOLEAN /\ cut \in BOOLEAN /\ raced \in BOOLEAN

CountOK ==
  /\ undone \in [n : 0..MaxRollback, seen : SUBSET File]
  /\ texts \in 0..MaxTexts

LEMMA TypeParts == TypeOK <=> DiskOK /\ PlaceOK /\ OperationOK /\ CountOK
BY DEF TypeOK, DiskOK, PlaceOK, OperationOK, CountOK

\* A file is given a content.
LEMMA PutFile ==
  ASSUME DiskOK, NEW f \in File, NEW c \in Content,
         file' = [file EXCEPT ![f] = c], UNCHANGED <<dir, backups>>
  PROVE  DiskOK'
BY DEF DiskOK

\* The next text there is room for, and a file that is cut short.
LEMMA NewText ==
  ASSUME CountOK, texts < MaxTexts, NEW b \in BOOLEAN
  PROVE  [text |-> texts + 1, challenge |-> b] \in Conf
<1>1. texts + 1 \in 0..Torn
  BY CheckpointAssumption DEF CountOK, Torn
<1> QED BY <1>1 DEF Conf

LEMMA CutShortTyped == CutShort \in Conf /\ CutShort \in Content
<1>1. Torn \in 0..Torn
  BY CheckpointAssumption DEF Torn
<1> QED BY <1>1 DEF CutShort, Conf, Content

\* The in-progress directory as Save finds it.
LEMMA OpenTyped ==
  ASSUME DiskOK
  PROVE  (IF dir = None THEN Empty ELSE dir) \in Directory
BY EmptyTyped DEF DiskOK

\* A sequence without its last element.
LEMMA FrontTyped ==
  ASSUME NEW S, NEW b \in Seq(S), Len(b) \in Nat \ {0}
  PROVE  /\ SubSeq(b, 1, Len(b) - 1) \in Seq(S)
         /\ Len(SubSeq(b, 1, Len(b) - 1)) = Len(b) - 1
         /\ \A i \in 1..(Len(b) - 1) : SubSeq(b, 1, Len(b) - 1)[i] = b[i]
<1>1. \A i \in 1..(Len(b) - 1) : b[i] \in S
  OBVIOUS
<1>2. 1 \in Int /\ Len(b) - 1 \in Int
  OBVIOUS
<1>3. /\ SubSeq(b, 1, Len(b) - 1) \in Seq(S)
      /\ Len(SubSeq(b, 1, Len(b) - 1)) = IF 1 <= Len(b) - 1 THEN (Len(b) - 1) - 1 + 1 ELSE 0
      /\ \A i \in 1..(Len(b) - 1) - 1 + 1 : SubSeq(b, 1, Len(b) - 1)[i] = b[1 + i - 1]
  BY <1>1, <1>2, SubSeqProperties
<1>4. Len(SubSeq(b, 1, Len(b) - 1)) = Len(b) - 1
  <2>1. ASSUME NEW n \in Nat \ {0}
        PROVE  (IF 1 <= n - 1 THEN (n - 1) - 1 + 1 ELSE 0) = n - 1
    OBVIOUS
  <2> QED BY <1>3, <2>1, Zenon
<1>5. ASSUME NEW i \in 1..(Len(b) - 1)
      PROVE  SubSeq(b, 1, Len(b) - 1)[i] = b[i]
  <2>1. i \in 1..(Len(b) - 1) - 1 + 1 /\ 1 + i - 1 = i
    OBVIOUS
  <2> QED BY <1>3, <2>1
<1> QED BY <1>3, <1>4, <1>5

\* The last checkpoint is taken off the list.
LEMMA DropTyped ==
  ASSUME NEW b \in Seq(Directory), b # <<>>
  PROVE  /\ Len(b) \in Nat \ {0} /\ Last(b) \in Directory
         /\ Front(b) \in Seq(Directory) /\ Len(Front(b)) = Len(b) - 1
         /\ \A i \in 1..(Len(b) - 1) : Front(b)[i] = b[i]
<1>1. Len(b) \in Nat \ {0}
  BY EmptySeq
<1>2. Len(b) \in DOMAIN b
  BY <1>1
<1> QED BY <1>1, <1>2, FrontTyped DEF Last, Front

\* What Save makes of the in-progress directory.
LEMMA CopiedTyped ==
  ASSUME TypeOK, NEW S \in SUBSET File
  PROVE  LET d == IF dir = None THEN Empty ELSE dir
         IN  /\ Copied(S) \in Directory /\ d \in Directory
             /\ Copied(S).files = d.files /\ Copied(S).new = d.new
             /\ \A f \in File : Copied(S).copy[f] = IF f \in S THEN file[f] ELSE d.copy[f]
<1> DEFINE d == IF dir = None THEN Empty ELSE dir
           c == [f \in File |-> IF f \in S THEN file[f] ELSE d.copy[f]]
<1>1. d \in Directory
  BY OpenTyped, TypeParts
<1>2. c \in [File -> Content]
  BY <1>1, TypeParts DEF DiskOK, Directory
<1>3. Copied(S) = [d EXCEPT !.copy = c]
  BY <1>1 DEF Copied, Directory
<1>4. \A f \in File : c[f] = IF f \in S THEN file[f] ELSE d.copy[f]
  OBVIOUS
<1> HIDE DEF c, d
<1>5. /\ Copied(S) \in Directory /\ Copied(S).files = d.files /\ Copied(S).new = d.new
      /\ Copied(S).copy = c
  BY <1>1, <1>2, <1>3 DEF Directory
<1> QED BY <1>1, <1>4, <1>5 DEF d

\* What a removal that is cut short leaves of a checkpoint.
LEMMA RemainsTyped ==
  ASSUME NEW d \in Directory, NEW e \in Remains(d)
  PROVE  /\ e \in Directory
         /\ e.files \subseteq d.files /\ e.new \subseteq d.new
         /\ \A f \in e.files : e.copy[f] = None \/ e.copy[f] = d.copy[f]
<1>1. PICK W \in {{}, d.new} :
        e \in {[d EXCEPT !.copy = [f \in File |-> IF f \in S THEN None ELSE @[f]], !.new = W] :
                 S \in SUBSET d.files}
              \cup {[Empty EXCEPT !.new = W]}
  BY DEF Remains
<1>2. W \subseteq d.new
  OBVIOUS
<1>3. CASE e = [Empty EXCEPT !.new = W]
  <2>1. e \in Directory /\ e.files = {} /\ e.new = W
    BY <1>3, EmptyTyped DEF Directory
  <2> QED BY <1>2, <2>1
<1>4. CASE e \in {[d EXCEPT !.copy = [f \in File |-> IF f \in S THEN None ELSE @[f]], !.new = W] :
                    S \in SUBSET d.files}
  <2>1. PICK S \in SUBSET d.files :
          e = [d EXCEPT !.copy = [f \in File |-> IF f \in S THEN None ELSE @[f]], !.new = W]
    BY <1>4
  <2> DEFINE c == [f \in File |-> IF f \in S THEN None ELSE d.copy[f]]
  <2>2. c \in [File -> Content] /\ \A f \in File : c[f] = None \/ c[f] = d.copy[f]
    BY DEF Directory, Content
  <2>3. e = [d EXCEPT !.copy = c, !.new = W]
    BY <2>1
  <2> HIDE DEF c
  <2> QED BY <1>2, <2>2, <2>3 DEF Directory
<1> QED BY <1>1, <1>3, <1>4

-----------------------------------------------------------------------------
(* Every step keeps the types.                                             *)

LEMMA DiskStep ==
  ASSUME IInv, [Next]_vars
  PROVE  DiskOK'
<1>1. ASSUME NEW t \in Thread, RestoreNew(t) PROVE DiskOK'
  BY <1>1, TypeParts DEF RestoreNew, disk, IInv, DiskOK
<1>2. ASSUME NEW t \in Thread, RemoveDir(t) PROVE DiskOK'
  BY <1>2, TypeParts DEF RemoveDir, IInv, DiskOK
<1>3. ASSUME NEW t \in Thread, RestoreFails(t) PROVE DiskOK'
  BY <1>3, TypeParts DEF RestoreFails, disk, Recovers, Off, IInv, DiskOK
<1>4. ASSUME NEW t \in Thread, NEW f \in File, RestoreFile(t, f) PROVE DiskOK'
  <2>1. Source(t).copy[f] \in Content
    BY <1>4, SourceTyped DEF RestoreFile, Directory, IInv
  <2> QED BY <1>4, <2>1, PutFile, TypeParts DEF RestoreFile, IInv
<1>5. ASSUME NEW t \in Thread, NEW f \in File, UnlinkNew(t, f) PROVE DiskOK'
  <2>1. None \in Content
    BY DEF Content
  <2> QED BY <1>5, <2>1, PutFile, TypeParts DEF UnlinkNew, IInv
<1>6. ASSUME DropCheckpoint PROVE DiskOK'
  <2>1. backups # <<>>
    BY <1>6 DEF DropCheckpoint, IInv, Phases
  <2> QED BY <1>6, <2>1, DropTyped, TypeParts DEF DropCheckpoint, IInv, DiskOK
<1>7. ASSUME SaveCopies PROVE DiskOK'
  <2>1. \E S \in SUBSET File : dir' = Copied(S)
    BY <1>7, TypeParts DEF SaveCopies, IInv, OperationOK
  <2> QED BY <1>7, <2>1, CopiedTyped, TypeParts DEF SaveCopies, IInv, DiskOK
<1>8. ASSUME SaveFails PROVE DiskOK'
  BY <1>8, TypeParts DEF SaveFails, disk, IInv, DiskOK
<1>9. ASSUME SaveMark PROVE DiskOK'
  BY <1>9, TypeParts DEF SaveMark, disk, IInv, DiskOK
<1>10. ASSUME NEW f \in File, SaveLine(f) PROVE DiskOK'
  <2>1. dir \in Directory
    BY <1>10, TypeParts DEF SaveLine, IInv, DiskOK
  <2>2. [dir EXCEPT !.files = @ \cup {f}] \in Directory /\ [dir EXCEPT !.new = @ \cup {f}] \in Directory
    BY <2>1 DEF Directory
  <2> QED BY <1>10, <2>2, TypeParts DEF SaveLine, IInv, DiskOK
<1>11. ASSUME WritesDone PROVE DiskOK'
  BY <1>11, TypeParts DEF WritesDone, IInv, DiskOK
<1>12. ASSUME ReloadWorks PROVE DiskOK'
  BY <1>12, TypeParts DEF ReloadWorks, disk, IInv, DiskOK
<1>13. ASSUME ReloadFails PROVE DiskOK'
  BY <1>13, TypeParts DEF ReloadFails, disk, IInv, DiskOK
<1>14. ASSUME FillFile PROVE DiskOK'
  <2>1. open.at \in File /\ open.new \in Content
    BY <1>14, TypeParts DEF FillFile, IInv, OperationOK, Content
  <2> QED BY <1>14, <2>1, PutFile, TypeParts DEF FillFile, IInv
<1>15. ASSUME NEW f \in File, WriteFile(f) PROVE DiskOK'
  <2>1. file' = [file EXCEPT ![f] = CutShort]
    BY <1>15 DEF WriteFile, Truncate
  <2> QED BY <1>15, <2>1, CutShortTyped, PutFile, TypeParts DEF WriteFile, IInv
<1>16. ASSUME NEW f \in File, WriteBack(f) PROVE DiskOK'
  <2>1. file' = [file EXCEPT ![f] = CutShort]
    BY <1>16 DEF WriteBack, Truncate
  <2> QED BY <1>16, <2>1, CutShortTyped, PutFile, TypeParts DEF WriteBack, IInv
<1>17. ASSUME NEW f \in File, ReadBack(f) PROVE DiskOK'
  BY <1>17, TypeParts DEF ReadBack, disk, IInv, DiskOK
<1>18. ASSUME NEW f \in File, ReadBackFails(f) PROVE DiskOK'
  BY <1>18, TypeParts DEF ReadBackFails, disk, IInv, DiskOK
<1>19. ASSUME StripsDone PROVE DiskOK'
  BY <1>19, TypeParts DEF StripsDone, disk, IInv, DiskOK
<1>20. ASSUME TakeClean PROVE DiskOK'
  BY <1>20, TypeParts DEF TakeClean, disk, IInv, DiskOK
<1>21. ASSUME Promote PROVE DiskOK'
  <2>1. dir # None => backups' \in Seq(Directory)
    BY <1>21, TypeParts DEF Promote, IInv, DiskOK
  <2> QED BY <1>21, <2>1, TypeParts DEF Promote, IInv, DiskOK
<1>22. ASSUME ChallengeDone PROVE DiskOK'
  BY <1>22, TypeParts DEF ChallengeDone, disk, IInv, DiskOK
<1>23. ASSUME StartRun PROVE DiskOK'
  BY <1>23, TypeParts DEF StartRun, disk, IInv, DiskOK
<1>24. ASSUME NEW S \in SUBSET File, BeginInstall(S) PROVE DiskOK'
  BY <1>24, TypeParts DEF BeginInstall, disk, IInv, DiskOK
<1>25. ASSUME NEW S \in SUBSET File, NEW p \in Plugins, BeginAuthenticate(S, p) PROVE DiskOK'
  BY <1>25, TypeParts DEF BeginAuthenticate, disk, IInv, DiskOK
<1>26. ASSUME NEW n \in 1..MaxRollback, BeginRollback(n) PROVE DiskOK'
  BY <1>26, TypeParts DEF BeginRollback, disk, IInv, DiskOK
<1>27. ASSUME Finish PROVE DiskOK'
  BY <1>27, TypeParts DEF Finish, disk, IInv, DiskOK
<1>28. ASSUME Crash PROVE DiskOK'
  BY <1>28, TypeParts DEF Crash, disk, IInv, DiskOK
<1>29. ASSUME NEW t \in Thread, CrashInRemoveAll(t) PROVE DiskOK'
  <2>1. CASE dir # None /\ dir' \in Remains(dir) /\ UNCHANGED backups
    BY <1>29, <2>1, RemainsTyped, TypeParts DEF CrashInRemoveAll, IInv, DiskOK
  <2>2. CASE ~Recovers(t) /\ UNCHANGED dir
              /\ \E d \in Remains(Last(backups)) : backups' = Append(Front(backups), d)
    <3>1. backups # <<>>
      BY <1>29, <2>2, Contents DEF CrashInRemoveAll, Recovers, IInv, Phases, Thread
    <3>2. Front(backups) \in Seq(Directory) /\ Last(backups) \in Directory
      BY <3>1, DropTyped, TypeParts DEF IInv, DiskOK
    <3> QED BY <1>29, <2>2, <3>2, RemainsTyped, TypeParts DEF CrashInRemoveAll, IInv, DiskOK
  <2> QED BY <1>29, <2>1, <2>2 DEF CrashInRemoveAll
<1>30. ASSUME SignalArrives PROVE DiskOK'
  BY <1>30, TypeParts DEF SignalArrives, disk, IInv, DiskOK
<1>31. ASSUME TakeRestore PROVE DiskOK'
  BY <1>31, TypeParts DEF TakeRestore, disk, IInv, DiskOK
<1>32. ASSUME UserEdits PROVE DiskOK'
  <2>1. PICK f \in File : file' = [file EXCEPT ![f] = [text |-> texts', challenge |-> FALSE]]
    BY <1>32 DEF UserEdits
  <2>2. [text |-> texts', challenge |-> FALSE] \in Content
    BY <1>32, NewText, TypeParts DEF UserEdits, IInv, Content
  <2> QED BY <1>32, <2>1, <2>2, PutFile, TypeParts DEF UserEdits, IInv
<1>33. CASE UNCHANGED vars
  BY <1>33, TypeParts DEF vars, IInv, DiskOK
<1> QED BY <1>1, <1>2, <1>3, <1>4, <1>5, <1>6, <1>7, <1>8, <1>9, <1>10, <1>11, <1>12, <1>13,
    <1>14, <1>15, <1>16, <1>17, <1>18, <1>19, <1>20, <1>21, <1>22, <1>23, <1>24, <1>25,
    <1>26, <1>27, <1>28, <1>29, <1>30, <1>31, <1>32, <1>33, Contents DEF Next, Choose,
    MainStep, SignalStep, Restoring

LEMMA PlaceStep ==
  ASSUME IInv, [Next]_vars
  PROVE  PlaceOK'
<1>1. ASSUME NEW t \in Thread, RestoreNew(t) PROVE PlaceOK'
  BY <1>1, TypeParts, SourceTyped DEF RestoreNew, Loop, Goto, IInv, PlaceOK, Labels,
      Directory
<1>2. ASSUME NEW t \in Thread, RemoveDir(t) PROVE PlaceOK'
  BY <1>2, TypeParts DEF RemoveDir, Recovers, Goto, IInv, PlaceOK, Labels
<1>3. ASSUME NEW t \in Thread, RestoreFails(t) PROVE PlaceOK'
  BY <1>3, TypeParts DEF RestoreFails, Recovers, Loop, Goto, Off, IInv, PlaceOK, Labels
<1>4. ASSUME NEW t \in Thread, NEW f \in File, RestoreFile(t, f) PROVE PlaceOK'
  BY <1>4, TypeParts DEF RestoreFile, Done, IInv, PlaceOK, Labels
<1>5. ASSUME NEW t \in Thread, NEW f \in File, UnlinkNew(t, f) PROVE PlaceOK'
  BY <1>5, TypeParts DEF UnlinkNew, Done, IInv, PlaceOK, Labels
<1>6. ASSUME DropCheckpoint PROVE PlaceOK'
  <2> DEFINE b == Last(Front(backups))
  <2>1. backups # <<>> /\ undone.n \in 1..Len(backups)
    BY <1>6 DEF DropCheckpoint, IInv, Phases
  <2>2. CASE undone.n = 1
    BY <1>6, <2>2, TypeParts DEF DropCheckpoint, Loop, Goto, IInv, PlaceOK, Labels
  <2>3. CASE undone.n # 1
    <3>1. Front(backups) \in Seq(Directory) /\ Len(Front(backups)) > 0
      BY <2>1, <2>3, DropTyped, TypeParts DEF IInv, DiskOK
    <3>2. Front(backups) # <<>>
      BY <3>1
    <3>3. b \in Directory
      BY <3>1, <3>2, DropTyped
    <3>4. /\ pc' = [pc EXCEPT ![Main] = "restore"]
          /\ left' = [left EXCEPT ![Main] = b.files \ (undone.seen \cup Last(backups).files)]
      BY <1>6, <2>3 DEF DropCheckpoint, Loop, Goto
    <3> HIDE DEF b
    <3> QED BY <3>3, <3>4, TypeParts DEF IInv, PlaceOK, Labels, Thread, Directory
  <2> QED BY <2>2, <2>3
<1>7. ASSUME SaveCopies PROVE PlaceOK'
  BY <1>7, TypeParts DEF SaveCopies, Loop, Goto, IInv, PlaceOK, Labels, OperationOK
<1>8. ASSUME SaveFails PROVE PlaceOK'
  BY <1>8, TypeParts DEF SaveFails, Fail, Loop, Goto, IInv, PlaceOK, Labels
<1>9. ASSUME SaveMark PROVE PlaceOK'
  BY <1>9, TypeParts DEF SaveMark, Loop, Goto, IInv, PlaceOK, Labels, OperationOK
<1>10. ASSUME NEW f \in File, SaveLine(f) PROVE PlaceOK'
  BY <1>10, TypeParts DEF SaveLine, Done, IInv, PlaceOK, Labels
<1>11. ASSUME WritesDone PROVE PlaceOK'
  BY <1>11, TypeParts DEF WritesDone, Goto, IInv, PlaceOK, Labels
<1>12. ASSUME ReloadWorks PROVE PlaceOK'
  BY <1>12, TypeParts DEF ReloadWorks, Goto, IInv, PlaceOK, Labels
<1>13. ASSUME ReloadFails PROVE PlaceOK'
  BY <1>13, TypeParts DEF ReloadFails, Fail, Loop, Goto, IInv, PlaceOK, Labels
<1>14. ASSUME FillFile PROVE PlaceOK'
  BY <1>14, TypeParts DEF FillFile, IInv, PlaceOK, Labels
<1>15. ASSUME NEW f \in File, WriteFile(f) PROVE PlaceOK'
  BY <1>15, TypeParts DEF WriteFile, Truncate, Done, IInv, PlaceOK, Labels
<1>16. ASSUME NEW f \in File, WriteBack(f) PROVE PlaceOK'
  BY <1>16, TypeParts DEF WriteBack, Truncate, Done, IInv, PlaceOK, Labels
<1>17. ASSUME NEW f \in File, ReadBack(f) PROVE PlaceOK'
  BY <1>17, TypeParts DEF ReadBack, IInv, PlaceOK, Labels
<1>18. ASSUME NEW f \in File, ReadBackFails(f) PROVE PlaceOK'
  BY <1>18, TypeParts DEF ReadBackFails, IInv, PlaceOK, Labels
<1>19. ASSUME StripsDone PROVE PlaceOK'
  BY <1>19, TypeParts DEF StripsDone, Goto, IInv, PlaceOK, Labels
<1>20. ASSUME TakeClean PROVE PlaceOK'
  BY <1>20, TypeParts DEF TakeClean, Goto, IInv, PlaceOK, Labels
<1>21. ASSUME Promote PROVE PlaceOK'
  BY <1>21, TypeParts DEF Promote, Goto, IInv, PlaceOK, Labels
<1>22. ASSUME ChallengeDone PROVE PlaceOK'
  <2>1. left' = [left EXCEPT ![Main] = injected[op] \cup (IF op = "apache" THEN {RootConf} ELSE {})]
        /\ pc' = [pc EXCEPT ![Main] = "strip"] /\ op \in Plugins
    BY <1>22 DEF ChallengeDone, Loop, Goto, IInv, Phases
  <2>2. injected[op] \subseteq File
    BY <2>1, TypeParts DEF IInv, OperationOK
  <2> QED BY <2>1, <2>2, CheckpointAssumption, TypeParts DEF IInv, PlaceOK, Labels, Thread
<1>23. ASSUME StartRun PROVE PlaceOK'
  <2>1. FilesOf(dir) \in SUBSET File
    BY TypeParts DEF IInv, DiskOK, FilesOf, Directory
  <2> QED BY <1>23, <2>1, TypeParts DEF StartRun, Loop, Goto, IInv, PlaceOK, Labels, Thread
<1>24. ASSUME NEW S \in SUBSET File, BeginInstall(S) PROVE PlaceOK'
  BY <1>24, TypeParts DEF BeginInstall, Goto, IInv, PlaceOK, Labels
<1>25. ASSUME NEW S \in SUBSET File, NEW p \in Plugins, BeginAuthenticate(S, p) PROVE PlaceOK'
  BY <1>25, TypeParts DEF BeginAuthenticate, Goto, IInv, PlaceOK, Labels
<1>26. ASSUME NEW n \in 1..MaxRollback, BeginRollback(n) PROVE PlaceOK'
  <2>1. Last(backups) \in Directory
    BY <1>26, DropTyped, TypeParts DEF BeginRollback, IInv, DiskOK
  <2> QED BY <1>26, <2>1, TypeParts
      DEF BeginRollback, Loop, Goto, IInv, PlaceOK, Labels, Thread, Directory
<1>27. ASSUME Finish PROVE PlaceOK'
  BY <1>27 DEF Finish, Off, IInv, PlaceOK, Labels
<1>28. ASSUME Crash PROVE PlaceOK'
  BY <1>28 DEF Crash, Off, IInv, PlaceOK, Labels
<1>29. ASSUME NEW t \in Thread, CrashInRemoveAll(t) PROVE PlaceOK'
  BY <1>29 DEF CrashInRemoveAll, Off, IInv, PlaceOK, Labels
<1>30. ASSUME SignalArrives PROVE PlaceOK'
  BY <1>30, TypeParts DEF SignalArrives, Goto, IInv, PlaceOK, Labels
<1>31. ASSUME TakeRestore PROVE PlaceOK'
  BY <1>31, TypeParts DEF TakeRestore, Loop, Goto, IInv, PlaceOK, Labels, DiskOK, Directory,
      FilesOf
<1>32. ASSUME UserEdits PROVE PlaceOK'
  BY <1>32, TypeParts DEF UserEdits, IInv, PlaceOK, Labels
<1>33. CASE UNCHANGED vars
  BY <1>33, TypeParts DEF vars, IInv, PlaceOK, Labels
<1> QED BY <1>1, <1>2, <1>3, <1>4, <1>5, <1>6, <1>7, <1>8, <1>9, <1>10, <1>11, <1>12, <1>13,
    <1>14, <1>15, <1>16, <1>17, <1>18, <1>19, <1>20, <1>21, <1>22, <1>23, <1>24, <1>25,
    <1>26, <1>27, <1>28, <1>29, <1>30, <1>31, <1>32, <1>33, Contents DEF Next, Choose,
    MainStep, SignalStep, Restoring

LEMMA OperationStep ==
  ASSUME IInv, [Next]_vars
  PROVE  OperationOK'
<1>1. ASSUME NEW t \in Thread, RestoreNew(t) PROVE OperationOK'
  BY <1>1, TypeParts DEF RestoreNew, memory, disk, IInv, OperationOK
<1>2. ASSUME NEW t \in Thread, RemoveDir(t) PROVE OperationOK'
  BY <1>2, TypeParts DEF RemoveDir, Recovers, IInv, OperationOK
<1>3. ASSUME NEW t \in Thread, RestoreFails(t) PROVE OperationOK'
  BY <1>3, TypeParts, NoJob DEF RestoreFails, Recovers, Off, memory, disk, IInv, OperationOK
<1>4. ASSUME NEW t \in Thread, NEW f \in File, RestoreFile(t, f) PROVE OperationOK'
  BY <1>4, TypeParts DEF RestoreFile, Unlinked, IInv, OperationOK
<1>5. ASSUME NEW t \in Thread, NEW f \in File, UnlinkNew(t, f) PROVE OperationOK'
  BY <1>5, TypeParts DEF UnlinkNew, Unlinked, IInv, OperationOK
<1>6. ASSUME DropCheckpoint PROVE OperationOK'
  BY <1>6, TypeParts DEF DropCheckpoint, IInv, OperationOK
<1>7. ASSUME SaveCopies PROVE OperationOK'
  BY <1>7, TypeParts DEF SaveCopies, memory, IInv, OperationOK
<1>8. ASSUME SaveFails PROVE OperationOK'
  BY <1>8, TypeParts DEF SaveFails, Fail, disk, IInv, OperationOK
<1>9. ASSUME SaveMark PROVE OperationOK'
  BY <1>9, TypeParts DEF SaveMark, disk, IInv, OperationOK
<1>10. ASSUME NEW f \in File, SaveLine(f) PROVE OperationOK'
  BY <1>10, TypeParts DEF SaveLine, memory, IInv, OperationOK
<1>11. ASSUME WritesDone PROVE OperationOK'
  BY <1>11, TypeParts, NoJob DEF WritesDone, IInv, OperationOK
<1>12. ASSUME ReloadWorks PROVE OperationOK'
  BY <1>12, TypeParts DEF ReloadWorks, disk, memory, IInv, OperationOK
<1>13. ASSUME ReloadFails PROVE OperationOK'
  BY <1>13, TypeParts DEF ReloadFails, Fail, disk, IInv, OperationOK
<1>14. ASSUME FillFile PROVE OperationOK'
  BY <1>14, TypeParts DEF FillFile, IInv, OperationOK
<1>15. ASSUME NEW f \in File, WriteFile(f) PROVE OperationOK'
  <2>1. f \in DOMAIN job /\ pc[Main] = "write" /\ job[f] \in Content
    BY <1>15, TypeParts DEF WriteFile, IInv, Working, OperationOK
  <2>2. open' \in [at : File, new : Conf]
    <3>1. CASE op = "install"
      <4>1. texts < MaxTexts
        BY <2>1, <3>1 DEF IInv, Working
      <4>2. (job[f] # None /\ job[f].challenge) \in BOOLEAN
        BY <2>1 DEF Content, Conf
      <4>3. [text |-> texts + 1, challenge |-> job[f] # None /\ job[f].challenge] \in Conf
        BY <4>1, <4>2, NewText, TypeParts DEF IInv
      <4> QED BY <1>15, <3>1, <4>3, Contents DEF WriteFile, Truncate
    <3>2. CASE op \in Plugins
      <4>1. job[f] # None
        BY <2>1, <3>2 DEF IInv, Working
      <4>2. [job[f] EXCEPT !.challenge = TRUE] \in Conf
        BY <2>1, <4>1 DEF Content, Conf
      <4>3. op # "install"
        BY <3>2, Contents
      <4>4. open' = [at |-> f, new |-> [job[f] EXCEPT !.challenge = TRUE]]
        BY <1>15, <4>3 DEF WriteFile, Truncate
      <4> QED BY <4>2, <4>4
    <3> QED BY <1>15, <3>1, <3>2 DEF WriteFile
  <2> QED BY <1>15, <2>2, TypeParts DEF WriteFile, IInv, OperationOK
<1>16. ASSUME NEW f \in File, WriteBack(f) PROVE OperationOK'
  <2>1. job[f] # None /\ job[f] \in Content
    BY <1>16, TypeParts DEF WriteBack, IInv, Working, OperationOK
  <2>2. [job[f] EXCEPT !.challenge = FALSE] \in Conf
    BY <2>1 DEF Content, Conf
  <2> QED BY <1>16, <2>2, NoJob, TypeParts DEF WriteBack, Truncate, IInv, OperationOK
<1>17. ASSUME NEW f \in File, ReadBack(f) PROVE OperationOK'
  <2>1. job' \in [{f} -> Content] /\ {f} \in SUBSET File
    BY <1>17, TypeParts DEF ReadBack, IInv, DiskOK
  <2> QED BY <1>17, <2>1, TypeParts DEF ReadBack, disk, IInv, OperationOK
<1>18. ASSUME NEW f \in File, ReadBackFails(f) PROVE OperationOK'
  BY <1>18, TypeParts DEF ReadBackFails, disk, memory, IInv, OperationOK
<1>19. ASSUME StripsDone PROVE OperationOK'
  BY <1>19, TypeParts DEF StripsDone, disk, memory, IInv, OperationOK
<1>20. ASSUME TakeClean PROVE OperationOK'
  BY <1>20, TypeParts DEF TakeClean, disk, memory, IInv, OperationOK
<1>21. ASSUME Promote PROVE OperationOK'
  BY <1>21, TypeParts DEF Promote, memory, IInv, OperationOK
<1>22. ASSUME ChallengeDone PROVE OperationOK'
  BY <1>22, TypeParts DEF ChallengeDone, disk, IInv, OperationOK
<1>23. ASSUME StartRun PROVE OperationOK'
  BY <1>23, TypeParts DEF StartRun, disk, IInv, OperationOK
<1>24. ASSUME NEW S \in SUBSET File, BeginInstall(S) PROVE OperationOK'
  BY <1>24, TypeParts DEF BeginInstall, disk, IInv, OperationOK, DiskOK
<1>25. ASSUME NEW S \in SUBSET File, NEW p \in Plugins, BeginAuthenticate(S, p)
       PROVE  OperationOK'
  BY <1>25, TypeParts DEF BeginAuthenticate, disk, IInv, OperationOK, DiskOK
<1>26. ASSUME NEW n \in 1..MaxRollback, BeginRollback(n) PROVE OperationOK'
  BY <1>26, TypeParts DEF BeginRollback, disk, IInv, OperationOK
<1>27. ASSUME Finish PROVE OperationOK'
  BY <1>27, TypeParts, NoJob DEF Finish, Off, disk, IInv, OperationOK
<1>28. ASSUME Crash PROVE OperationOK'
  BY <1>28, TypeParts, NoJob DEF Crash, Off, disk, IInv, OperationOK
<1>29. ASSUME NEW t \in Thread, CrashInRemoveAll(t) PROVE OperationOK'
  BY <1>29, TypeParts, NoJob DEF CrashInRemoveAll, Off, IInv, OperationOK
<1>30. ASSUME SignalArrives PROVE OperationOK'
  BY <1>30, TypeParts DEF SignalArrives, disk, memory, IInv, OperationOK
<1>31. ASSUME TakeRestore PROVE OperationOK'
  BY <1>31, TypeParts DEF TakeRestore, disk, IInv, OperationOK
<1>32. ASSUME UserEdits PROVE OperationOK'
  BY <1>32, TypeParts DEF UserEdits, memory, IInv, OperationOK
<1>33. CASE UNCHANGED vars
  BY <1>33, TypeParts DEF vars, IInv, OperationOK
<1> QED BY <1>1, <1>2, <1>3, <1>4, <1>5, <1>6, <1>7, <1>8, <1>9, <1>10, <1>11, <1>12, <1>13,
    <1>14, <1>15, <1>16, <1>17, <1>18, <1>19, <1>20, <1>21, <1>22, <1>23, <1>24, <1>25,
    <1>26, <1>27, <1>28, <1>29, <1>30, <1>31, <1>32, <1>33, Contents DEF Next, Choose,
    MainStep, SignalStep, Restoring

LEMMA CountStep ==
  ASSUME IInv, [Next]_vars
  PROVE  CountOK'
<1>1. ASSUME NEW t \in Thread, RestoreNew(t) PROVE CountOK'
  BY <1>1, TypeParts DEF RestoreNew, memory, disk, IInv, CountOK
<1>2. ASSUME NEW t \in Thread, RemoveDir(t) PROVE CountOK'
  BY <1>2, TypeParts DEF RemoveDir, Recovers, IInv, CountOK
<1>3. ASSUME NEW t \in Thread, RestoreFails(t) PROVE CountOK'
  BY <1>3, TypeParts, CheckpointAssumption DEF RestoreFails, Recovers, Off, memory, disk,
      IInv, CountOK
<1>4. ASSUME NEW t \in Thread, NEW f \in File, RestoreFile(t, f) PROVE CountOK'
  BY <1>4, TypeParts DEF RestoreFile, IInv, CountOK
<1>5. ASSUME NEW t \in Thread, NEW f \in File, UnlinkNew(t, f) PROVE CountOK'
  BY <1>5, TypeParts DEF UnlinkNew, IInv, CountOK
<1>6. ASSUME DropCheckpoint PROVE CountOK'
  <2>1. backups # <<>> /\ undone.n \in 1..Len(backups)
    BY <1>6 DEF DropCheckpoint, IInv, Phases
  <2>2. Last(backups).files \subseteq File
    BY <2>1, DropTyped, TypeParts DEF IInv, DiskOK, Directory
  <2>3. undone \in [n : 0..MaxRollback, seen : SUBSET File] /\ undone.n \in Nat \ {0}
    BY <2>1, TypeParts DEF IInv, CountOK
  <2>4. CASE undone.n = 1
    BY <1>6, <2>4, TypeParts DEF DropCheckpoint, IInv, CountOK
  <2>5. CASE undone.n # 1
    <3>1. undone.n - 1 \in 0..MaxRollback
      BY <2>3, CheckpointAssumption
    <3> QED BY <1>6, <2>2, <2>3, <2>5, <3>1, TypeParts DEF DropCheckpoint, IInv, CountOK
  <2> QED BY <2>4, <2>5
<1>7. ASSUME SaveCopies PROVE CountOK'
  BY <1>7, TypeParts DEF SaveCopies, memory, IInv, CountOK
<1>8. ASSUME SaveFails PROVE CountOK'
  BY <1>8, TypeParts DEF SaveFails, Fail, disk, IInv, CountOK
<1>9. ASSUME SaveMark PROVE CountOK'
  BY <1>9, TypeParts DEF SaveMark, disk, IInv, CountOK
<1>10. ASSUME NEW f \in File, SaveLine(f) PROVE CountOK'
  BY <1>10, TypeParts DEF SaveLine, memory, IInv, CountOK
<1>11. ASSUME WritesDone PROVE CountOK'
  <2>1. texts' \in 0..MaxTexts
    BY <1>11, CheckpointAssumption, TypeParts DEF WritesDone, IInv, Working, CountOK
  <2> QED BY <1>11, <2>1, TypeParts DEF WritesDone, IInv, CountOK
<1>12. ASSUME ReloadWorks PROVE CountOK'
  BY <1>12, TypeParts DEF ReloadWorks, disk, memory, IInv, CountOK
<1>13. ASSUME ReloadFails PROVE CountOK'
  BY <1>13, TypeParts DEF ReloadFails, Fail, disk, IInv, CountOK
<1>14. ASSUME FillFile PROVE CountOK'
  BY <1>14, TypeParts DEF FillFile, IInv, CountOK
<1>15. ASSUME NEW f \in File, WriteFile(f) PROVE CountOK'
  BY <1>15, TypeParts DEF WriteFile, IInv, CountOK
<1>16. ASSUME NEW f \in File, WriteBack(f) PROVE CountOK'
  BY <1>16, TypeParts DEF WriteBack, IInv, CountOK
<1>17. ASSUME NEW f \in File, ReadBack(f) PROVE CountOK'
  BY <1>17, TypeParts DEF ReadBack, disk, IInv, CountOK
<1>18. ASSUME NEW f \in File, ReadBackFails(f) PROVE CountOK'
  BY <1>18, TypeParts DEF ReadBackFails, disk, memory, IInv, CountOK
<1>19. ASSUME StripsDone PROVE CountOK'
  BY <1>19, TypeParts DEF StripsDone, disk, memory, IInv, CountOK
<1>20. ASSUME TakeClean PROVE CountOK'
  BY <1>20, TypeParts DEF TakeClean, disk, memory, IInv, CountOK
<1>21. ASSUME Promote PROVE CountOK'
  BY <1>21, TypeParts DEF Promote, memory, IInv, CountOK
<1>22. ASSUME ChallengeDone PROVE CountOK'
  BY <1>22, TypeParts DEF ChallengeDone, disk, IInv, CountOK
<1>23. ASSUME StartRun PROVE CountOK'
  BY <1>23, TypeParts DEF StartRun, disk, IInv, CountOK
<1>24. ASSUME NEW S \in SUBSET File, BeginInstall(S) PROVE CountOK'
  BY <1>24, TypeParts DEF BeginInstall, disk, IInv, CountOK
<1>25. ASSUME NEW S \in SUBSET File, NEW p \in Plugins, BeginAuthenticate(S, p) PROVE CountOK'
  BY <1>25, TypeParts DEF BeginAuthenticate, disk, IInv, CountOK
<1>26. ASSUME NEW n \in 1..MaxRollback, BeginRollback(n) PROVE CountOK'
  <2>1. LeastOf(n, Len(backups)) \in 0..MaxRollback
    BY TypeParts, CheckpointAssumption DEF IInv, DiskOK, LeastOf
  <2> QED BY <1>26, <2>1, TypeParts DEF BeginRollback, disk, IInv, CountOK
<1>27. ASSUME Finish PROVE CountOK'
  BY <1>27, TypeParts, CheckpointAssumption DEF Finish, Off, disk, IInv, CountOK
<1>28. ASSUME Crash PROVE CountOK'
  BY <1>28, TypeParts, CheckpointAssumption DEF Crash, Off, disk, IInv, CountOK
<1>29. ASSUME NEW t \in Thread, CrashInRemoveAll(t) PROVE CountOK'
  BY <1>29, TypeParts, CheckpointAssumption DEF CrashInRemoveAll, Off, IInv, CountOK
<1>30. ASSUME SignalArrives PROVE CountOK'
  BY <1>30, TypeParts DEF SignalArrives, disk, memory, IInv, CountOK
<1>31. ASSUME TakeRestore PROVE CountOK'
  BY <1>31, TypeParts DEF TakeRestore, disk, IInv, CountOK
<1>32. ASSUME UserEdits PROVE CountOK'
  <2>1. texts' \in 0..MaxTexts
    BY <1>32, CheckpointAssumption, TypeParts DEF UserEdits, IInv, CountOK
  <2> QED BY <1>32, <2>1, TypeParts DEF UserEdits, memory, IInv, CountOK
<1>33. CASE UNCHANGED vars
  BY <1>33, TypeParts DEF vars, IInv, CountOK
<1> QED BY <1>1, <1>2, <1>3, <1>4, <1>5, <1>6, <1>7, <1>8, <1>9, <1>10, <1>11, <1>12, <1>13,
    <1>14, <1>15, <1>16, <1>17, <1>18, <1>19, <1>20, <1>21, <1>22, <1>23, <1>24, <1>25,
    <1>26, <1>27, <1>28, <1>29, <1>30, <1>31, <1>32, <1>33, Contents DEF Next, Choose,
    MainStep, SignalStep, Restoring
-----------------------------------------------------------------------------
(* Every step keeps the other parts of the invariant.                      *)

LEMMA PhasesStep ==
  ASSUME IInv, [Next]_vars
  PROVE  Phases'
<1>1. ASSUME NEW t \in Thread, RestoreNew(t) PROVE Phases'
  BY <1>1, TypeParts, Contents DEF RestoreNew, Loop, Goto, memory, disk, IInv, PlaceOK,
      Phases, MainLabel, SignalLabel
<1>2. ASSUME NEW t \in Thread, RemoveDir(t) PROVE Phases'
  BY <1>2, TypeParts, Contents DEF RemoveDir, Recovers, Goto, IInv, PlaceOK, Phases,
      MainLabel, SignalLabel
<1>3. ASSUME NEW t \in Thread, RestoreFails(t) PROVE Phases'
  BY <1>3, TypeParts, Contents DEF RestoreFails, Recovers, Loop, Goto, Off, memory, disk,
      IInv, PlaceOK, Phases, MainLabel, SignalLabel
<1>4. ASSUME NEW t \in Thread, NEW f \in File, RestoreFile(t, f) PROVE Phases'
  BY <1>4, TypeParts, Contents DEF RestoreFile, IInv, PlaceOK, Phases, MainLabel,
      SignalLabel
<1>5. ASSUME NEW t \in Thread, NEW f \in File, UnlinkNew(t, f) PROVE Phases'
  BY <1>5, TypeParts, Contents DEF UnlinkNew, IInv, PlaceOK, Phases, MainLabel, SignalLabel
<1>6. ASSUME DropCheckpoint PROVE Phases'
  BY <1>6, TypeParts, Contents, DropTyped DEF DropCheckpoint, Loop, Goto, IInv, PlaceOK,
      Phases, MainLabel, SignalLabel, DiskOK
<1>7. ASSUME SaveCopies PROVE Phases'
  BY <1>7, TypeParts, Contents DEF SaveCopies, Loop, Goto, memory, IInv, PlaceOK, Phases,
      MainLabel, SignalLabel
<1>8. ASSUME SaveFails PROVE Phases'
  BY <1>8, TypeParts, Contents DEF SaveFails, Fail, Loop, Goto, disk, IInv, PlaceOK, Phases,
      MainLabel, SignalLabel
<1>9. ASSUME SaveMark PROVE Phases'
  BY <1>9, TypeParts, Contents DEF SaveMark, Loop, Goto, disk, IInv, PlaceOK, Phases,
      MainLabel, SignalLabel
<1>10. ASSUME NEW f \in File, SaveLine(f) PROVE Phases'
  BY <1>10, TypeParts, Contents DEF SaveLine, memory, IInv, PlaceOK, Phases, MainLabel,
      SignalLabel
<1>11. ASSUME WritesDone PROVE Phases'
  BY <1>11, TypeParts, Contents DEF WritesDone, Goto, IInv, PlaceOK, Phases, MainLabel,
      SignalLabel
<1>12. ASSUME ReloadWorks PROVE Phases'
  BY <1>12, TypeParts, Contents DEF ReloadWorks, Goto, disk, memory, IInv, PlaceOK, Phases,
      MainLabel, SignalLabel, OperationOK
<1>13. ASSUME ReloadFails PROVE Phases'
  BY <1>13, TypeParts, Contents DEF ReloadFails, Fail, Loop, Goto, disk, IInv, PlaceOK,
      Phases, MainLabel, SignalLabel
<1>14. ASSUME FillFile PROVE Phases'
  BY <1>14, TypeParts, Contents DEF FillFile, IInv, PlaceOK, Phases, MainLabel, SignalLabel
<1>15. ASSUME NEW f \in File, WriteFile(f) PROVE Phases'
  BY <1>15, TypeParts, Contents DEF WriteFile, IInv, PlaceOK, Phases, MainLabel, SignalLabel
<1>16. ASSUME NEW f \in File, WriteBack(f) PROVE Phases'
  BY <1>16, TypeParts, Contents DEF WriteBack, IInv, PlaceOK, Phases, MainLabel, SignalLabel
<1>17. ASSUME NEW f \in File, ReadBack(f) PROVE Phases'
  BY <1>17, TypeParts, Contents DEF ReadBack, disk, IInv, PlaceOK, Phases, MainLabel,
      SignalLabel
<1>18. ASSUME NEW f \in File, ReadBackFails(f) PROVE Phases'
  BY <1>18, TypeParts, Contents DEF ReadBackFails, disk, memory, IInv, PlaceOK, Phases,
      MainLabel, SignalLabel
<1>19. ASSUME StripsDone PROVE Phases'
  BY <1>19, TypeParts, Contents DEF StripsDone, Goto, disk, memory, IInv, PlaceOK, Phases,
      MainLabel, SignalLabel
<1>20. ASSUME TakeClean PROVE Phases'
  BY <1>20, TypeParts, Contents DEF TakeClean, Goto, disk, memory, IInv, PlaceOK, Phases,
      MainLabel, SignalLabel
<1>21. ASSUME Promote PROVE Phases'
  BY <1>21, TypeParts, Contents DEF Promote, Goto, memory, IInv, PlaceOK, Phases, MainLabel,
      SignalLabel
<1>22. ASSUME ChallengeDone PROVE Phases'
  BY <1>22, TypeParts, Contents DEF ChallengeDone, Loop, Goto, disk, IInv, PlaceOK, Phases,
      MainLabel, SignalLabel
<1>23. ASSUME StartRun PROVE Phases'
  BY <1>23, TypeParts, Contents DEF StartRun, Loop, Goto, disk, IInv, PlaceOK, Phases,
      MainLabel, SignalLabel
<1>24. ASSUME NEW S \in SUBSET File, BeginInstall(S) PROVE Phases'
  BY <1>24, TypeParts, Contents DEF BeginInstall, Goto, disk, IInv, PlaceOK, Phases,
      MainLabel, SignalLabel
<1>25. ASSUME NEW S \in SUBSET File, NEW p \in Plugins, BeginAuthenticate(S, p) PROVE Phases'
  BY <1>25, TypeParts, Contents DEF BeginAuthenticate, Goto, disk, IInv, PlaceOK, Phases,
      MainLabel, SignalLabel
<1>26. ASSUME NEW n \in 1..MaxRollback, BeginRollback(n) PROVE Phases'
  BY <1>26, TypeParts, Contents DEF BeginRollback, Loop, Goto, disk, IInv, PlaceOK, Phases,
      MainLabel, SignalLabel, DiskOK, LeastOf
<1>27. ASSUME Finish PROVE Phases'
  BY <1>27, Contents DEF Finish, Off, disk, IInv, Phases, MainLabel, SignalLabel
<1>28. ASSUME Crash PROVE Phases'
  BY <1>28, Contents DEF Crash, Off, disk, IInv, Phases, MainLabel, SignalLabel
<1>29. ASSUME NEW t \in Thread, CrashInRemoveAll(t) PROVE Phases'
  BY <1>29, Contents DEF CrashInRemoveAll, Off, IInv, Phases, MainLabel, SignalLabel
<1>30. ASSUME SignalArrives PROVE Phases'
  BY <1>30, TypeParts, Contents DEF SignalArrives, Goto, disk, memory, IInv, PlaceOK,
      Phases, MainLabel, SignalLabel
<1>31. ASSUME TakeRestore PROVE Phases'
  BY <1>31, TypeParts, Contents DEF TakeRestore, Loop, Goto, disk, IInv, PlaceOK, Phases,
      MainLabel, SignalLabel
<1>32. ASSUME UserEdits PROVE Phases'
  BY <1>32, TypeParts, Contents DEF UserEdits, memory, IInv, PlaceOK, Phases, MainLabel,
      SignalLabel
<1>33. CASE UNCHANGED vars
  BY <1>33 DEF vars, IInv, Phases
<1> QED BY <1>1, <1>2, <1>3, <1>4, <1>5, <1>6, <1>7, <1>8, <1>9, <1>10, <1>11, <1>12, <1>13,
    <1>14, <1>15, <1>16, <1>17, <1>18, <1>19, <1>20, <1>21, <1>22, <1>23, <1>24, <1>25,
    <1>26, <1>27, <1>28, <1>29, <1>30, <1>31, <1>32, <1>33, Contents DEF Next, Choose,
    MainStep, SignalStep, Restoring

LEMMA WorkingStep ==
  ASSUME IInv, [Next]_vars
  PROVE  Working'
<1>1. ASSUME NEW t \in Thread, RestoreNew(t) PROVE Working'
  BY <1>1, TypeParts, Contents DEF RestoreNew, Loop, Goto, memory, disk, IInv, PlaceOK,
      Phases, Working
<1>2. ASSUME NEW t \in Thread, RemoveDir(t) PROVE Working'
  BY <1>2, TypeParts, Contents DEF RemoveDir, Recovers, Goto, IInv, PlaceOK, Phases, Working
<1>3. ASSUME NEW t \in Thread, RestoreFails(t) PROVE Working'
  BY <1>3, TypeParts, Contents DEF RestoreFails, Recovers, Loop, Goto, Off, memory, disk,
      IInv, PlaceOK, Phases, Working
<1>4. ASSUME NEW t \in Thread, NEW f \in File, RestoreFile(t, f) PROVE Working'
  BY <1>4, TypeParts, Contents DEF RestoreFile, Done, Unlinked, IInv, PlaceOK, Phases,
      Working
<1>5. ASSUME NEW t \in Thread, NEW f \in File, UnlinkNew(t, f) PROVE Working'
  BY <1>5, TypeParts, Contents DEF UnlinkNew, Done, Unlinked, IInv, PlaceOK, Phases, Working
<1>6. ASSUME DropCheckpoint PROVE Working'
  BY <1>6, TypeParts, Contents DEF DropCheckpoint, Loop, Goto, IInv, PlaceOK, Phases,
      Working
<1>7. ASSUME SaveCopies PROVE Working'
  BY <1>7, TypeParts, Contents DEF SaveCopies, Loop, Goto, memory, IInv, PlaceOK, Phases,
      Working
<1>8. ASSUME SaveFails PROVE Working'
  BY <1>8, TypeParts, Contents DEF SaveFails, Fail, Loop, Goto, disk, IInv, PlaceOK, Phases,
      Working
<1>9. ASSUME SaveMark PROVE Working'
  BY <1>9, TypeParts, Contents DEF SaveMark, Loop, Goto, disk, IInv, PlaceOK, Phases,
      Working
<1>10. ASSUME NEW f \in File, SaveLine(f) PROVE Working'
  BY <1>10, TypeParts, Contents DEF SaveLine, Done, memory, IInv, PlaceOK, Phases, Working
<1>11. ASSUME WritesDone PROVE Working'
  BY <1>11, TypeParts, Contents DEF WritesDone, Goto, IInv, PlaceOK, Phases, Working
<1>12. ASSUME ReloadWorks PROVE Working'
  BY <1>12, TypeParts, Contents DEF ReloadWorks, Goto, disk, memory, IInv, PlaceOK, Phases,
      Working
<1>13. ASSUME ReloadFails PROVE Working'
  BY <1>13, TypeParts, Contents DEF ReloadFails, Fail, Loop, Goto, disk, IInv, PlaceOK,
      Phases, Working
<1>14. ASSUME FillFile PROVE Working'
  BY <1>14, TypeParts, Contents DEF FillFile, IInv, PlaceOK, Phases, Working
<1>15. ASSUME NEW f \in File, WriteFile(f) PROVE Working'
  <2>1. /\ file' = [file EXCEPT ![f] = CutShort] /\ open'.at = f
        /\ pc[Main] = "write" /\ f \in left[Main]
        /\ left' = [left EXCEPT ![Main] = @ \ {f}]
        /\ UNCHANGED <<pc, op, job, texts>>
    BY <1>15 DEF WriteFile, Truncate, Done
  <2> QED BY <2>1, TypeParts, Contents DEF IInv, DiskOK, PlaceOK, Working
<1>16. ASSUME NEW f \in File, WriteBack(f) PROVE Working'
  <2>1. /\ file' = [file EXCEPT ![f] = CutShort] /\ open'.at = f
        /\ pc[Main] = "strip" /\ job' = <<>>
        /\ UNCHANGED <<pc, op, texts>>
    BY <1>16 DEF WriteBack, Truncate
  <2>2. f \in File
    OBVIOUS
  <2> QED BY <2>1, TypeParts, Contents DEF IInv, DiskOK, Working
<1>17. ASSUME NEW f \in File, ReadBack(f) PROVE Working'
  BY <1>17, TypeParts, Contents DEF ReadBack, disk, IInv, PlaceOK, Phases, Working
<1>18. ASSUME NEW f \in File, ReadBackFails(f) PROVE Working'
  BY <1>18, TypeParts, Contents DEF ReadBackFails, disk, memory, IInv, PlaceOK, Phases,
      Working
<1>19. ASSUME StripsDone PROVE Working'
  BY <1>19, TypeParts, Contents DEF StripsDone, Goto, disk, memory, IInv, PlaceOK, Phases,
      Working
<1>20. ASSUME TakeClean PROVE Working'
  BY <1>20, TypeParts, Contents DEF TakeClean, Goto, disk, memory, IInv, PlaceOK, Phases,
      Working
<1>21. ASSUME Promote PROVE Working'
  BY <1>21, TypeParts, Contents DEF Promote, Goto, memory, IInv, PlaceOK, Phases, Working
<1>22. ASSUME ChallengeDone PROVE Working'
  BY <1>22, TypeParts, Contents DEF ChallengeDone, Loop, Goto, disk, IInv, PlaceOK, Phases,
      Working
<1>23. ASSUME StartRun PROVE Working'
  BY <1>23, TypeParts, Contents DEF StartRun, Loop, Goto, disk, IInv, PlaceOK, Phases,
      Working
<1>24. ASSUME NEW S \in SUBSET File, BeginInstall(S) PROVE Working'
  BY <1>24, TypeParts, Contents DEF BeginInstall, Goto, disk, IInv, PlaceOK, Phases, Working
<1>25. ASSUME NEW S \in SUBSET File, NEW p \in Plugins, BeginAuthenticate(S, p) PROVE Working'
  BY <1>25, TypeParts, Contents DEF BeginAuthenticate, Goto, disk, IInv, PlaceOK, Phases,
      Working
<1>26. ASSUME NEW n \in 1..MaxRollback, BeginRollback(n) PROVE Working'
  BY <1>26, TypeParts, Contents DEF BeginRollback, Loop, Goto, disk, IInv, PlaceOK, Phases,
      Working
<1>27. ASSUME Finish PROVE Working'
  BY <1>27, TypeParts, Contents DEF Finish, Off, disk, IInv, PlaceOK, Phases, Working
<1>28. ASSUME Crash PROVE Working'
  BY <1>28, TypeParts, Contents DEF Crash, Off, disk, IInv, PlaceOK, Phases, Working
<1>29. ASSUME NEW t \in Thread, CrashInRemoveAll(t) PROVE Working'
  BY <1>29, TypeParts, Contents DEF CrashInRemoveAll, Off, IInv, PlaceOK, Phases, Working
<1>30. ASSUME SignalArrives PROVE Working'
  BY <1>30, TypeParts, Contents DEF SignalArrives, Goto, disk, memory, IInv, PlaceOK,
      Phases, Working
<1>31. ASSUME TakeRestore PROVE Working'
  BY <1>31, TypeParts, Contents DEF TakeRestore, Loop, Goto, disk, IInv, PlaceOK, Phases,
      Working
<1>32. ASSUME UserEdits PROVE Working'
  BY <1>32, TypeParts, Contents DEF UserEdits, memory, IInv, PlaceOK, Phases, Working
<1>33. CASE UNCHANGED vars
  BY <1>33 DEF vars, IInv, Working
<1> QED BY <1>1, <1>2, <1>3, <1>4, <1>5, <1>6, <1>7, <1>8, <1>9, <1>10, <1>11, <1>12, <1>13,
    <1>14, <1>15, <1>16, <1>17, <1>18, <1>19, <1>20, <1>21, <1>22, <1>23, <1>24, <1>25,
    <1>26, <1>27, <1>28, <1>29, <1>30, <1>31, <1>32, <1>33, Contents DEF Next, Choose,
    MainStep, SignalStep, Restoring
LEMMA MainReplayedStep ==
  ASSUME IInv, [Next]_vars
  PROVE  Replayed(Main)'
<1>1. ASSUME NEW t \in Thread, RestoreNew(t) PROVE Replayed(Main)'
  BY <1>1, TypeParts, Contents DEF RestoreNew, Loop, Goto, memory, disk, IInv, PlaceOK,
      Phases, Replaying, Replayed, PutBack, Source
<1>2. ASSUME NEW t \in Thread, RemoveDir(t) PROVE Replayed(Main)'
  BY <1>2, TypeParts, Contents DEF RemoveDir, Recovers, Goto, IInv, PlaceOK, Phases,
      Replaying, Replayed, PutBack, Source
<1>3. ASSUME NEW t \in Thread, RestoreFails(t) PROVE Replayed(Main)'
  BY <1>3, TypeParts, Contents DEF RestoreFails, Recovers, Loop, Goto, Off, memory, disk,
      IInv, PlaceOK, Phases, Replaying, Replayed, PutBack, Source
<1>4. ASSUME NEW t \in Thread, NEW f \in File, RestoreFile(t, f) PROVE Replayed(Main)'
  BY <1>4, TypeParts, Contents DEF RestoreFile, Done, IInv, PlaceOK, Phases, Replaying,
      Replayed, PutBack, Source, DiskOK
<1>5. ASSUME NEW t \in Thread, NEW f \in File, UnlinkNew(t, f) PROVE Replayed(Main)'
  BY <1>5, TypeParts, Contents DEF UnlinkNew, Done, IInv, PlaceOK, Phases, Replaying,
      Replayed, PutBack, Source, DiskOK
<1>6. ASSUME DropCheckpoint PROVE Replayed(Main)'
  BY <1>6, TypeParts, Contents DEF DropCheckpoint, Loop, Goto, IInv, PlaceOK, Phases,
      Replaying, Replayed, PutBack, Source
<1>7. ASSUME SaveCopies PROVE Replayed(Main)'
  BY <1>7, TypeParts, Contents DEF SaveCopies, Loop, Goto, memory, IInv, PlaceOK, Phases,
      Replaying, Replayed, PutBack, Source
<1>8. ASSUME SaveFails PROVE Replayed(Main)'
  BY <1>8, TypeParts, Contents DEF SaveFails, Fail, Loop, Goto, disk, IInv, PlaceOK, Phases,
      Replaying, Replayed, PutBack, Source
<1>9. ASSUME SaveMark PROVE Replayed(Main)'
  BY <1>9, TypeParts, Contents DEF SaveMark, Loop, Goto, disk, IInv, PlaceOK, Phases,
      Replaying, Replayed, PutBack, Source
<1>10. ASSUME NEW f \in File, SaveLine(f) PROVE Replayed(Main)'
  BY <1>10, TypeParts, Contents DEF SaveLine, Done, memory, IInv, PlaceOK, Phases,
      Replaying, Replayed, PutBack, Source
<1>11. ASSUME WritesDone PROVE Replayed(Main)'
  BY <1>11, TypeParts, Contents DEF WritesDone, Goto, IInv, PlaceOK, Phases, Replaying,
      Replayed, PutBack, Source
<1>12. ASSUME ReloadWorks PROVE Replayed(Main)'
  BY <1>12, TypeParts, Contents DEF ReloadWorks, Goto, disk, memory, IInv, PlaceOK, Phases,
      Replaying, Replayed, PutBack, Source
<1>13. ASSUME ReloadFails PROVE Replayed(Main)'
  BY <1>13, TypeParts, Contents DEF ReloadFails, Fail, Loop, Goto, disk, IInv, PlaceOK,
      Phases, Replaying, Replayed, PutBack, Source
<1>14. ASSUME FillFile PROVE Replayed(Main)'
  BY <1>14, TypeParts, Contents DEF FillFile, IInv, PlaceOK, Phases, Replaying, Replayed,
      PutBack, Source, Working
<1>15. ASSUME NEW f \in File, WriteFile(f) PROVE Replayed(Main)'
  BY <1>15, TypeParts, Contents DEF WriteFile, Done, IInv, PlaceOK, Phases, Replaying,
      Replayed, PutBack, Source
<1>16. ASSUME NEW f \in File, WriteBack(f) PROVE Replayed(Main)'
  BY <1>16, TypeParts, Contents DEF WriteBack, Done, IInv, PlaceOK, Phases, Replaying,
      Replayed, PutBack, Source
<1>17. ASSUME NEW f \in File, ReadBack(f) PROVE Replayed(Main)'
  BY <1>17, TypeParts, Contents DEF ReadBack, disk, IInv, PlaceOK, Phases, Replaying,
      Replayed, PutBack, Source
<1>18. ASSUME NEW f \in File, ReadBackFails(f) PROVE Replayed(Main)'
  BY <1>18, TypeParts, Contents DEF ReadBackFails, disk, memory, IInv, PlaceOK, Phases,
      Replaying, Replayed, PutBack, Source
<1>19. ASSUME StripsDone PROVE Replayed(Main)'
  BY <1>19, TypeParts, Contents DEF StripsDone, Goto, disk, memory, IInv, PlaceOK, Phases,
      Replaying, Replayed, PutBack, Source
<1>20. ASSUME TakeClean PROVE Replayed(Main)'
  BY <1>20, TypeParts, Contents DEF TakeClean, Goto, disk, memory, IInv, PlaceOK, Phases,
      Replaying, Replayed, PutBack, Source
<1>21. ASSUME Promote PROVE Replayed(Main)'
  BY <1>21, TypeParts, Contents DEF Promote, Goto, memory, IInv, PlaceOK, Phases, Replaying,
      Replayed, PutBack, Source
<1>22. ASSUME ChallengeDone PROVE Replayed(Main)'
  BY <1>22, TypeParts, Contents DEF ChallengeDone, Loop, Goto, disk, IInv, PlaceOK, Phases,
      Replaying, Replayed, PutBack, Source
<1>23. ASSUME StartRun PROVE Replayed(Main)'
  BY <1>23, TypeParts, Contents DEF StartRun, Loop, Goto, disk, IInv, PlaceOK, Phases,
      Replaying, Replayed, PutBack, Source, FilesOf
<1>24. ASSUME NEW S \in SUBSET File, BeginInstall(S) PROVE Replayed(Main)'
  BY <1>24, TypeParts, Contents DEF BeginInstall, Goto, disk, IInv, PlaceOK, Phases,
      Replaying, Replayed, PutBack, Source
<1>25. ASSUME NEW S \in SUBSET File, NEW p \in Plugins, BeginAuthenticate(S, p)
       PROVE  Replayed(Main)'
  BY <1>25, TypeParts, Contents DEF BeginAuthenticate, Goto, disk, IInv, PlaceOK, Phases,
      Replaying, Replayed, PutBack, Source
<1>26. ASSUME NEW n \in 1..MaxRollback, BeginRollback(n) PROVE Replayed(Main)'
  BY <1>26, TypeParts, Contents DEF BeginRollback, Loop, Goto, disk, IInv, PlaceOK, Phases,
      Replaying, Replayed, PutBack, Source
<1>27. ASSUME Finish PROVE Replayed(Main)'
  BY <1>27, TypeParts, Contents DEF Finish, Off, disk, IInv, PlaceOK, Phases, Replaying,
      Replayed, PutBack, Source
<1>28. ASSUME Crash PROVE Replayed(Main)'
  BY <1>28, TypeParts, Contents DEF Crash, Off, disk, IInv, PlaceOK, Phases, Replaying,
      Replayed, PutBack, Source
<1>29. ASSUME NEW t \in Thread, CrashInRemoveAll(t) PROVE Replayed(Main)'
  BY <1>29, TypeParts, Contents DEF CrashInRemoveAll, Off, IInv, PlaceOK, Phases, Replaying,
      Replayed, PutBack, Source
<1>30. ASSUME SignalArrives PROVE Replayed(Main)'
  BY <1>30, TypeParts, Contents DEF SignalArrives, Goto, disk, memory, IInv, PlaceOK,
      Phases, Replaying, Replayed, PutBack, Source
<1>31. ASSUME TakeRestore PROVE Replayed(Main)'
  BY <1>31, TypeParts, Contents DEF TakeRestore, Loop, Goto, disk, IInv, PlaceOK, Phases,
      Replaying, Replayed, PutBack, Source
<1>32. ASSUME UserEdits PROVE Replayed(Main)'
  BY <1>32, TypeParts, Contents DEF UserEdits, memory, IInv, PlaceOK, Phases, Replaying,
      Replayed, PutBack, Source
<1>33. CASE UNCHANGED vars
  BY <1>33 DEF vars, IInv, Replaying, Replayed, PutBack, Source
<1> QED BY <1>1, <1>2, <1>3, <1>4, <1>5, <1>6, <1>7, <1>8, <1>9, <1>10, <1>11, <1>12, <1>13,
    <1>14, <1>15, <1>16, <1>17, <1>18, <1>19, <1>20, <1>21, <1>22, <1>23, <1>24, <1>25,
    <1>26, <1>27, <1>28, <1>29, <1>30, <1>31, <1>32, <1>33, Contents DEF Next, Choose,
    MainStep, SignalStep, Restoring

LEMMA SignalReplayedStep ==
  ASSUME IInv, [Next]_vars
  PROVE  (~raced => Replayed(Signal))'
<1>1. ASSUME NEW t \in Thread, RestoreNew(t) PROVE (~raced => Replayed(Signal))'
  BY <1>1, TypeParts, Contents DEF RestoreNew, Loop, Goto, memory, disk, IInv, PlaceOK,
      Phases, Replaying, Replayed, PutBack, Source, Guarded, Restores, Rewriting
<1>2. ASSUME NEW t \in Thread, RemoveDir(t) PROVE (~raced => Replayed(Signal))'
  BY <1>2, TypeParts, Contents DEF RemoveDir, Recovers, Goto, IInv, PlaceOK, Phases,
      Replaying, Replayed, PutBack, Source, Guarded, Restores, Rewriting
<1>3. ASSUME NEW t \in Thread, RestoreFails(t) PROVE (~raced => Replayed(Signal))'
  BY <1>3, TypeParts, Contents DEF RestoreFails, Recovers, Loop, Goto, Off, memory, disk,
      IInv, PlaceOK, Phases, Replaying, Replayed, PutBack, Source, Guarded, Restores,
      Rewriting
<1>4. ASSUME NEW t \in Thread, NEW f \in File, RestoreFile(t, f)
      PROVE  (~raced => Replayed(Signal))'
  BY <1>4, TypeParts, Contents DEF RestoreFile, Done, IInv, PlaceOK, Phases, Replaying,
      Replayed, PutBack, Source, Guarded, Restores, Rewriting, DiskOK
<1>5. ASSUME NEW t \in Thread, NEW f \in File, UnlinkNew(t, f)
      PROVE  (~raced => Replayed(Signal))'
  BY <1>5, TypeParts, Contents DEF UnlinkNew, Done, IInv, PlaceOK, Phases, Replaying,
      Replayed, PutBack, Source, Guarded, Restores, Rewriting, DiskOK
<1>6. ASSUME DropCheckpoint PROVE (~raced => Replayed(Signal))'
  BY <1>6, TypeParts, Contents DEF DropCheckpoint, Loop, Goto, IInv, PlaceOK, Phases,
      Replaying, Replayed, PutBack, Source, Guarded, Restores, Rewriting
<1>7. ASSUME SaveCopies PROVE (~raced => Replayed(Signal))'
  BY <1>7, TypeParts, Contents DEF SaveCopies, Loop, Goto, memory, IInv, PlaceOK, Phases,
      Replaying, Replayed, PutBack, Source, Guarded, Restores, Rewriting
<1>8. ASSUME SaveFails PROVE (~raced => Replayed(Signal))'
  BY <1>8, TypeParts, Contents DEF SaveFails, Fail, Loop, Goto, disk, IInv, PlaceOK, Phases,
      Replaying, Replayed, PutBack, Source, Guarded, Restores, Rewriting
<1>9. ASSUME SaveMark PROVE (~raced => Replayed(Signal))'
  BY <1>9, TypeParts, Contents DEF SaveMark, Loop, Goto, disk, IInv, PlaceOK, Phases,
      Replaying, Replayed, PutBack, Source, Guarded, Restores, Rewriting
<1>10. ASSUME NEW f \in File, SaveLine(f) PROVE (~raced => Replayed(Signal))'
  BY <1>10, TypeParts, Contents DEF SaveLine, Done, memory, IInv, PlaceOK, Phases,
      Replaying, Replayed, PutBack, Source, Guarded, Restores, Rewriting
<1>11. ASSUME WritesDone PROVE (~raced => Replayed(Signal))'
  BY <1>11, TypeParts, Contents DEF WritesDone, Goto, IInv, PlaceOK, Phases, Replaying,
      Replayed, PutBack, Source, Guarded, Restores, Rewriting
<1>12. ASSUME ReloadWorks PROVE (~raced => Replayed(Signal))'
  BY <1>12, TypeParts, Contents DEF ReloadWorks, Goto, disk, memory, IInv, PlaceOK, Phases,
      Replaying, Replayed, PutBack, Source, Guarded, Restores, Rewriting
<1>13. ASSUME ReloadFails PROVE (~raced => Replayed(Signal))'
  BY <1>13, TypeParts, Contents DEF ReloadFails, Fail, Loop, Goto, disk, IInv, PlaceOK,
      Phases, Replaying, Replayed, PutBack, Source, Guarded, Restores, Rewriting
<1>14. ASSUME FillFile PROVE (~raced => Replayed(Signal))'
  BY <1>14, TypeParts, Contents DEF FillFile, IInv, PlaceOK, Phases, Replaying, Replayed,
      PutBack, Source, Guarded, Restores, Rewriting, Working
<1>15. ASSUME NEW f \in File, WriteFile(f) PROVE (~raced => Replayed(Signal))'
  BY <1>15, TypeParts, Contents DEF WriteFile, Done, IInv, PlaceOK, Phases, Replaying,
      Replayed, PutBack, Source, Guarded, Restores, Rewriting
<1>16. ASSUME NEW f \in File, WriteBack(f) PROVE (~raced => Replayed(Signal))'
  BY <1>16, TypeParts, Contents DEF WriteBack, Done, IInv, PlaceOK, Phases, Replaying,
      Replayed, PutBack, Source, Guarded, Restores, Rewriting
<1>17. ASSUME NEW f \in File, ReadBack(f) PROVE (~raced => Replayed(Signal))'
  BY <1>17, TypeParts, Contents DEF ReadBack, disk, IInv, PlaceOK, Phases, Replaying,
      Replayed, PutBack, Source, Guarded, Restores, Rewriting
<1>18. ASSUME NEW f \in File, ReadBackFails(f) PROVE (~raced => Replayed(Signal))'
  BY <1>18, TypeParts, Contents DEF ReadBackFails, disk, memory, IInv, PlaceOK, Phases,
      Replaying, Replayed, PutBack, Source, Guarded, Restores, Rewriting
<1>19. ASSUME StripsDone PROVE (~raced => Replayed(Signal))'
  BY <1>19, TypeParts, Contents DEF StripsDone, Goto, disk, memory, IInv, PlaceOK, Phases,
      Replaying, Replayed, PutBack, Source, Guarded, Restores, Rewriting
<1>20. ASSUME TakeClean PROVE (~raced => Replayed(Signal))'
  BY <1>20, TypeParts, Contents DEF TakeClean, Goto, disk, memory, IInv, PlaceOK, Phases,
      Replaying, Replayed, PutBack, Source, Guarded, Restores, Rewriting
<1>21. ASSUME Promote PROVE (~raced => Replayed(Signal))'
  BY <1>21, TypeParts, Contents DEF Promote, Goto, memory, IInv, PlaceOK, Phases, Replaying,
      Replayed, PutBack, Source, Guarded, Restores, Rewriting
<1>22. ASSUME ChallengeDone PROVE (~raced => Replayed(Signal))'
  BY <1>22, TypeParts, Contents DEF ChallengeDone, Loop, Goto, disk, IInv, PlaceOK, Phases,
      Replaying, Replayed, PutBack, Source, Guarded, Restores, Rewriting
<1>23. ASSUME StartRun PROVE (~raced => Replayed(Signal))'
  BY <1>23, TypeParts, Contents DEF StartRun, Loop, Goto, disk, IInv, PlaceOK, Phases,
      Replaying, Replayed, PutBack, Source, Guarded, Restores, Rewriting
<1>24. ASSUME NEW S \in SUBSET File, BeginInstall(S) PROVE (~raced => Replayed(Signal))'
  BY <1>24, TypeParts, Contents DEF BeginInstall, Goto, disk, IInv, PlaceOK, Phases,
      Replaying, Replayed, PutBack, Source, Guarded, Restores, Rewriting
<1>25. ASSUME NEW S \in SUBSET File, NEW p \in Plugins, BeginAuthenticate(S, p)
       PROVE  (~raced => Replayed(Signal))'
  BY <1>25, TypeParts, Contents DEF BeginAuthenticate, Goto, disk, IInv, PlaceOK, Phases,
      Replaying, Replayed, PutBack, Source, Guarded, Restores, Rewriting
<1>26. ASSUME NEW n \in 1..MaxRollback, BeginRollback(n) PROVE (~raced => Replayed(Signal))'
  BY <1>26, TypeParts, Contents DEF BeginRollback, Loop, Goto, disk, IInv, PlaceOK, Phases,
      Replaying, Replayed, PutBack, Source, Guarded, Restores, Rewriting
<1>27. ASSUME Finish PROVE (~raced => Replayed(Signal))'
  BY <1>27, TypeParts, Contents DEF Finish, Off, disk, IInv, PlaceOK, Phases, Replaying,
      Replayed, PutBack, Source, Guarded, Restores, Rewriting
<1>28. ASSUME Crash PROVE (~raced => Replayed(Signal))'
  BY <1>28, TypeParts, Contents DEF Crash, Off, disk, IInv, PlaceOK, Phases, Replaying,
      Replayed, PutBack, Source, Guarded, Restores, Rewriting
<1>29. ASSUME NEW t \in Thread, CrashInRemoveAll(t) PROVE (~raced => Replayed(Signal))'
  BY <1>29, TypeParts, Contents DEF CrashInRemoveAll, Off, IInv, PlaceOK, Phases, Replaying,
      Replayed, PutBack, Source, Guarded, Restores, Rewriting
<1>30. ASSUME SignalArrives PROVE (~raced => Replayed(Signal))'
  BY <1>30, TypeParts, Contents DEF SignalArrives, Goto, disk, memory, IInv, PlaceOK,
      Phases, Replaying, Replayed, PutBack, Source, Guarded, Restores, Rewriting
<1>31. ASSUME TakeRestore PROVE (~raced => Replayed(Signal))'
  BY <1>31, TypeParts, Contents, EmptyTyped DEF TakeRestore, Loop, Goto, disk, IInv,
      PlaceOK, Phases, Replaying, Replayed, PutBack, Source, Guarded, Restores, Rewriting,
      FilesOf
<1>32. ASSUME UserEdits PROVE (~raced => Replayed(Signal))'
  BY <1>32, TypeParts, Contents DEF UserEdits, memory, IInv, PlaceOK, Phases, Replaying,
      Replayed, PutBack, Source, Guarded, Restores, Rewriting
<1>33. CASE UNCHANGED vars
  BY <1>33 DEF vars, IInv, Replaying, Replayed, PutBack, Source
<1> QED BY <1>1, <1>2, <1>3, <1>4, <1>5, <1>6, <1>7, <1>8, <1>9, <1>10, <1>11, <1>12, <1>13,
    <1>14, <1>15, <1>16, <1>17, <1>18, <1>19, <1>20, <1>21, <1>22, <1>23, <1>24, <1>25,
    <1>26, <1>27, <1>28, <1>29, <1>30, <1>31, <1>32, <1>33, Contents DEF Next, Choose,
    MainStep, SignalStep, Restoring
LEMMA ClearingStep ==
  ASSUME IInv, [Next]_vars
  PROVE  Clearing'
<1>1. ASSUME NEW t \in Thread, RestoreNew(t) PROVE Clearing'
  BY <1>1, TypeParts, Contents DEF RestoreNew, Loop, Goto, memory, disk, IInv, PlaceOK,
      Phases, Clearing
<1>2. ASSUME NEW t \in Thread, RemoveDir(t) PROVE Clearing'
  BY <1>2, TypeParts, Contents DEF RemoveDir, Recovers, Goto, IInv, PlaceOK, Phases,
      Clearing
<1>3. ASSUME NEW t \in Thread, RestoreFails(t) PROVE Clearing'
  <2>1. CASE t = Main /\ op = "rollback"
    BY <1>3, <2>1, Contents DEF RestoreFails, Recovers, Off, disk, IInv, Clearing
  <2>2. CASE t = Signal
    BY <1>3, <2>2, TypeParts, Contents
        DEF RestoreFails, Recovers, Loop, Goto, memory, disk, IInv, Phases, PlaceOK, Clearing
  <2>3. CASE t = Main /\ op = "startup"
    <3>1. PICK f \in left[Main] : Source(Main).copy[f] = None
      BY <1>3, <2>3 DEF RestoreFails
    <3>2. f \in Source(Main).files
      BY <1>3, <2>3, <3>1 DEF RestoreFails, IInv, Replaying, Replayed
    <3>3. dir # None => cut
      BY <2>3, <3>1, <3>2 DEF IInv, Clearing, Source
    <3>4. dir # None
      BY <2>3, <3>2, EmptyTyped DEF Source
    <3> QED BY <1>3, <3>3, <3>4 DEF RestoreFails, disk, Clearing
  <2> QED BY <1>3, <2>1, <2>2, <2>3, Contents DEF RestoreFails, IInv, Phases, Thread
<1>4. ASSUME NEW t \in Thread, NEW f \in File, RestoreFile(t, f) PROVE Clearing'
  BY <1>4, TypeParts, Contents DEF RestoreFile, IInv, PlaceOK, Phases, Clearing
<1>5. ASSUME NEW t \in Thread, NEW f \in File, UnlinkNew(t, f) PROVE Clearing'
  BY <1>5, TypeParts, Contents DEF UnlinkNew, IInv, PlaceOK, Phases, Clearing
<1>6. ASSUME DropCheckpoint PROVE Clearing'
  BY <1>6, TypeParts, Contents DEF DropCheckpoint, Loop, Goto, IInv, PlaceOK, Phases,
      Clearing
<1>7. ASSUME SaveCopies PROVE Clearing'
  <2>1. DOMAIN job \ FilesOf(dir) \in SUBSET File /\ dir' = Copied(DOMAIN job \ FilesOf(dir))
    BY <1>7, TypeParts DEF SaveCopies, IInv, OperationOK
  <2>2. /\ dir = None => dir'.files = {}
        /\ dir # None =>
             /\ dir \in Directory /\ dir'.files = dir.files
             /\ \A f \in dir.files : dir'.copy[f] = dir.copy[f]
    BY <2>1, CopiedTyped, EmptyTyped, TypeParts DEF IInv, DiskOK, FilesOf, Directory
  <2>3. pc'[Main] = "record" /\ op' = op /\ op # "rollback" /\ cut' = cut
    BY <1>7, TypeParts, Contents DEF SaveCopies, Loop, Goto, memory, IInv, PlaceOK, Phases
  <2> QED BY <2>2, <2>3 DEF IInv, Clearing
<1>8. ASSUME SaveFails PROVE Clearing'
  BY <1>8, TypeParts, Contents DEF SaveFails, Fail, Loop, Goto, disk, IInv, PlaceOK, Phases,
      Clearing
<1>9. ASSUME SaveMark PROVE Clearing'
  BY <1>9, TypeParts, Contents DEF SaveMark, Loop, Goto, disk, IInv, PlaceOK, Phases,
      Clearing
<1>10. ASSUME NEW f \in File, SaveLine(f) PROVE Clearing'
  BY <1>10, TypeParts, Contents DEF SaveLine, memory, IInv, PlaceOK, Phases, Clearing,
      DiskOK, Directory
<1>11. ASSUME WritesDone PROVE Clearing'
  BY <1>11, TypeParts, Contents DEF WritesDone, Goto, IInv, PlaceOK, Phases, Clearing
<1>12. ASSUME ReloadWorks PROVE Clearing'
  BY <1>12, TypeParts, Contents DEF ReloadWorks, Goto, disk, memory, IInv, PlaceOK, Phases,
      Clearing
<1>13. ASSUME ReloadFails PROVE Clearing'
  BY <1>13, TypeParts, Contents DEF ReloadFails, Fail, Loop, Goto, disk, IInv, PlaceOK,
      Phases, Clearing
<1>14. ASSUME FillFile PROVE Clearing'
  BY <1>14, TypeParts, Contents DEF FillFile, IInv, PlaceOK, Phases, Clearing
<1>15. ASSUME NEW f \in File, WriteFile(f) PROVE Clearing'
  BY <1>15, TypeParts, Contents DEF WriteFile, IInv, PlaceOK, Phases, Clearing
<1>16. ASSUME NEW f \in File, WriteBack(f) PROVE Clearing'
  BY <1>16, TypeParts, Contents DEF WriteBack, IInv, PlaceOK, Phases, Clearing
<1>17. ASSUME NEW f \in File, ReadBack(f) PROVE Clearing'
  BY <1>17, TypeParts, Contents DEF ReadBack, disk, IInv, PlaceOK, Phases, Clearing
<1>18. ASSUME NEW f \in File, ReadBackFails(f) PROVE Clearing'
  BY <1>18, TypeParts, Contents DEF ReadBackFails, disk, memory, IInv, PlaceOK, Phases,
      Clearing
<1>19. ASSUME StripsDone PROVE Clearing'
  BY <1>19, TypeParts, Contents DEF StripsDone, Goto, disk, memory, IInv, PlaceOK, Phases,
      Clearing
<1>20. ASSUME TakeClean PROVE Clearing'
  BY <1>20, TypeParts, Contents DEF TakeClean, Goto, disk, memory, IInv, PlaceOK, Phases,
      Clearing
<1>21. ASSUME Promote PROVE Clearing'
  BY <1>21, TypeParts, Contents DEF Promote, Goto, memory, IInv, PlaceOK, Phases, Clearing
<1>22. ASSUME ChallengeDone PROVE Clearing'
  BY <1>22, TypeParts, Contents DEF ChallengeDone, Loop, Goto, disk, IInv, PlaceOK, Phases,
      Clearing
<1>23. ASSUME StartRun PROVE Clearing'
  BY <1>23, TypeParts, Contents DEF StartRun, Loop, Goto, disk, IInv, PlaceOK, Phases,
      Clearing
<1>24. ASSUME NEW S \in SUBSET File, BeginInstall(S) PROVE Clearing'
  BY <1>24, TypeParts, Contents DEF BeginInstall, Goto, disk, IInv, PlaceOK, Phases,
      Clearing
<1>25. ASSUME NEW S \in SUBSET File, NEW p \in Plugins, BeginAuthenticate(S, p) PROVE Clearing'
  BY <1>25, TypeParts, Contents DEF BeginAuthenticate, Goto, disk, IInv, PlaceOK, Phases,
      Clearing
<1>26. ASSUME NEW n \in 1..MaxRollback, BeginRollback(n) PROVE Clearing'
  BY <1>26, TypeParts, Contents DEF BeginRollback, Loop, Goto, disk, IInv, PlaceOK, Phases,
      Clearing
<1>27. ASSUME Finish PROVE Clearing'
  BY <1>27, TypeParts, Contents DEF Finish, Off, disk, IInv, PlaceOK, Phases, Clearing
<1>28. ASSUME Crash PROVE Clearing'
  BY <1>28, TypeParts, Contents DEF Crash, Off, disk, IInv, PlaceOK, Phases, Clearing
<1>29. ASSUME NEW t \in Thread, CrashInRemoveAll(t) PROVE Clearing'
  <2>1. cut' \/ (cut' = cut /\ dir' = dir)
    BY <1>29 DEF CrashInRemoveAll
  <2>2. op' = "none"
    BY <1>29 DEF CrashInRemoveAll, Off
  <2> QED BY <2>1, <2>2 DEF IInv, Clearing
<1>30. ASSUME SignalArrives PROVE Clearing'
  BY <1>30, TypeParts, Contents DEF SignalArrives, Goto, disk, memory, IInv, PlaceOK,
      Phases, Clearing
<1>31. ASSUME TakeRestore PROVE Clearing'
  BY <1>31, TypeParts, Contents DEF TakeRestore, Loop, Goto, disk, IInv, PlaceOK, Phases,
      Clearing
<1>32. ASSUME UserEdits PROVE Clearing'
  BY <1>32, TypeParts, Contents DEF UserEdits, memory, IInv, PlaceOK, Phases, Clearing
<1>33. CASE UNCHANGED vars
  BY <1>33 DEF vars, IInv, Clearing
<1> QED BY <1>1, <1>2, <1>3, <1>4, <1>5, <1>6, <1>7, <1>8, <1>9, <1>10, <1>11, <1>12, <1>13,
    <1>14, <1>15, <1>16, <1>17, <1>18, <1>19, <1>20, <1>21, <1>22, <1>23, <1>24, <1>25,
    <1>26, <1>27, <1>28, <1>29, <1>30, <1>31, <1>32, <1>33, Contents DEF Next, Choose,
    MainStep, SignalStep, Restoring
LEMMA GuardedStep ==
  ASSUME IInv, [Next]_vars
  PROVE  Guarded'
<1>1. ASSUME NEW t \in Thread, RestoreNew(t) PROVE Guarded'
  BY <1>1, TypeParts, Contents DEF RestoreNew, Loop, Goto, memory, disk, IInv, PlaceOK,
      Phases, Guarded, Restores, Rewriting, Covered
<1>2. ASSUME NEW t \in Thread, RemoveDir(t) PROVE Guarded'
  BY <1>2, TypeParts, Contents DEF RemoveDir, Recovers, Goto, IInv, PlaceOK, Phases,
      Guarded, Restores, Rewriting, Covered
<1>3. ASSUME NEW t \in Thread, RestoreFails(t) PROVE Guarded'
  BY <1>3, TypeParts, Contents DEF RestoreFails, Recovers, Loop, Goto, Off, memory, disk,
      IInv, PlaceOK, Phases, Guarded, Restores, Rewriting, Covered
<1>4. ASSUME NEW t \in Thread, NEW f \in File, RestoreFile(t, f) PROVE Guarded'
  BY <1>4, TypeParts, Contents DEF RestoreFile, Done, Unlinked, IInv, PlaceOK, Phases,
      Guarded, Restores, Rewriting, Covered
<1>5. ASSUME NEW t \in Thread, NEW f \in File, UnlinkNew(t, f) PROVE Guarded'
  BY <1>5, TypeParts, Contents DEF UnlinkNew, Done, Unlinked, IInv, PlaceOK, Phases,
      Guarded, Restores, Rewriting, Covered
<1>6. ASSUME DropCheckpoint PROVE Guarded'
  BY <1>6, TypeParts, Contents DEF DropCheckpoint, Loop, Goto, IInv, PlaceOK, Phases,
      Guarded, Restores, Rewriting, Covered
<1>7. ASSUME SaveCopies PROVE Guarded'
  <2>1. DOMAIN job \ FilesOf(dir) \in SUBSET File /\ dir' = Copied(DOMAIN job \ FilesOf(dir))
    BY <1>7, TypeParts DEF SaveCopies, IInv, OperationOK
  <2>2. dir' \in Directory
        /\ \A f \in DOMAIN job \ FilesOf(dir) : dir'.copy[f] = file[f]
    BY <2>1, CopiedTyped DEF IInv
  <2>3. ASSUME NEW f \in FilesOf(dir), ~cut PROVE Covered(f)'
    <3>1. dir # None /\ dir \in Directory /\ f \in dir.files /\ dir.copy[f] # None
      BY <2>3, TypeParts DEF IInv, DiskOK, Clearing, FilesOf
    <3>2. f \in dir'.files /\ dir'.copy[f] = dir.copy[f]
      BY <2>1, <3>1, CopiedTyped DEF IInv, FilesOf, Directory
    <3> QED BY <2>2, <3>1, <3>2, Contents DEF Covered, Snapshot
  <2>4. /\ pc[Main] = "snapshot" /\ pc' = [pc EXCEPT ![Main] = "record"]
        /\ left' = [left EXCEPT ![Main] = DOMAIN job \ FilesOf(dir)]
        /\ UNCHANGED <<file, job, inFlight, raced, cut>>
    BY <1>7 DEF SaveCopies, Loop, Goto, memory
  <2> QED BY <2>2, <2>3, <2>4, TypeParts, Contents
      DEF IInv, PlaceOK, Guarded, Restores, Rewriting
<1>8. ASSUME SaveFails PROVE Guarded'
  BY <1>8, TypeParts, Contents DEF SaveFails, Fail, Loop, Goto, disk, IInv, PlaceOK, Phases,
      Guarded, Restores, Rewriting, Covered
<1>9. ASSUME SaveMark PROVE Guarded'
  BY <1>9, TypeParts, Contents DEF SaveMark, Loop, Goto, disk, IInv, PlaceOK, Phases,
      Guarded, Restores, Rewriting, Covered
<1>10. ASSUME NEW f \in File, SaveLine(f) PROVE Guarded'
  <2>1. /\ dir \in Directory /\ f \in left[Main] /\ pc[Main] = "record"
        /\ left' = [left EXCEPT ![Main] = @ \ {f}]
        /\ UNCHANGED <<file, pc, job, inFlight, raced, cut>>
    BY <1>10, TypeParts, Contents DEF SaveLine, Done, memory, IInv, DiskOK
  <2>2. /\ dir' \in Directory /\ dir'.copy = dir.copy
        /\ dir'.files \cup dir'.new = dir.files \cup dir.new \cup {f}
        /\ dir.files \subseteq dir'.files /\ dir.new \subseteq dir'.new
        /\ dir.copy[f] = None => f \in dir'.new
    BY <1>10, <2>1 DEF SaveLine, Directory
  <2>3. \A g \in File : Covered(g) \/ g = f => Covered(g)'
    BY <2>1, <2>2, Contents DEF Covered, Snapshot
  <2>4. DOMAIN job \subseteq File
    BY TypeParts DEF IInv, OperationOK
  <2> QED BY <2>1, <2>2, <2>3, <2>4, TypeParts, Contents
      DEF IInv, PlaceOK, Guarded, Restores, Rewriting
<1>11. ASSUME WritesDone PROVE Guarded'
  BY <1>11, TypeParts, Contents DEF WritesDone, Goto, IInv, PlaceOK, Phases, Guarded,
      Restores, Rewriting, Covered
<1>12. ASSUME ReloadWorks PROVE Guarded'
  BY <1>12, TypeParts, Contents DEF ReloadWorks, Goto, disk, memory, IInv, PlaceOK, Phases,
      Guarded, Restores, Rewriting, Covered
<1>13. ASSUME ReloadFails PROVE Guarded'
  BY <1>13, TypeParts, Contents DEF ReloadFails, Fail, Loop, Goto, disk, IInv, PlaceOK,
      Phases, Guarded, Restores, Rewriting, Covered
<1>14. ASSUME FillFile PROVE Guarded'
  BY <1>14, TypeParts, Contents DEF FillFile, IInv, PlaceOK, Phases, Guarded, Restores,
      Rewriting, Covered, Working, DiskOK
<1>15. ASSUME NEW f \in File, WriteFile(f) PROVE Guarded'
  BY <1>15, TypeParts, Contents DEF WriteFile, Truncate, Done, IInv, PlaceOK, Phases,
      Guarded, Restores, Rewriting, Covered
<1>16. ASSUME NEW f \in File, WriteBack(f) PROVE Guarded'
  BY <1>16, TypeParts, Contents DEF WriteBack, Truncate, Done, IInv, PlaceOK, Phases,
      Guarded, Restores, Rewriting, Covered, Working
<1>17. ASSUME NEW f \in File, ReadBack(f) PROVE Guarded'
  BY <1>17, TypeParts, Contents DEF ReadBack, disk, IInv, PlaceOK, Phases, Guarded,
      Restores, Rewriting, Covered
<1>18. ASSUME NEW f \in File, ReadBackFails(f) PROVE Guarded'
  BY <1>18, TypeParts, Contents DEF ReadBackFails, disk, memory, IInv, PlaceOK, Phases,
      Guarded, Restores, Rewriting, Covered
<1>19. ASSUME StripsDone PROVE Guarded'
  BY <1>19, TypeParts, Contents DEF StripsDone, Goto, disk, memory, IInv, PlaceOK, Phases,
      Guarded, Restores, Rewriting, Covered
<1>20. ASSUME TakeClean PROVE Guarded'
  BY <1>20, TypeParts, Contents DEF TakeClean, Goto, disk, memory, IInv, PlaceOK, Phases,
      Guarded, Restores, Rewriting, Covered
<1>21. ASSUME Promote PROVE Guarded'
  BY <1>21, TypeParts, Contents DEF Promote, Goto, memory, IInv, PlaceOK, Phases, Guarded,
      Restores, Rewriting, Covered
<1>22. ASSUME ChallengeDone PROVE Guarded'
  <2>1. /\ pc[Main] = "challenge" /\ pc' = [pc EXCEPT ![Main] = "strip"]
        /\ raced' = (raced \/ Restores) /\ UNCHANGED <<job, cut, dir, inFlight>>
    BY <1>22 DEF ChallengeDone, Loop, Goto, disk
  <2>2. job = <<>> /\ DOMAIN job = {}
    BY <2>1 DEF IInv, Working
  <2>3. pc'[Main] = "strip" /\ pc'[Signal] = pc[Signal]
    BY <2>1, TypeParts, Contents DEF IInv, PlaceOK
  <2> QED BY <2>1, <2>2, <2>3 DEF Guarded, Restores
<1>23. ASSUME StartRun PROVE Guarded'
  BY <1>23, TypeParts, Contents DEF StartRun, Loop, Goto, disk, IInv, PlaceOK, Phases,
      Guarded, Restores, Rewriting, Covered
<1>24. ASSUME NEW S \in SUBSET File, BeginInstall(S) PROVE Guarded'
  BY <1>24, TypeParts, Contents DEF BeginInstall, Goto, disk, IInv, PlaceOK, Phases,
      Guarded, Restores, Rewriting, Covered, DiskOK
<1>25. ASSUME NEW S \in SUBSET File, NEW p \in Plugins, BeginAuthenticate(S, p) PROVE Guarded'
  BY <1>25, TypeParts, Contents DEF BeginAuthenticate, Goto, disk, IInv, PlaceOK, Phases,
      Guarded, Restores, Rewriting, Covered, DiskOK
<1>26. ASSUME NEW n \in 1..MaxRollback, BeginRollback(n) PROVE Guarded'
  BY <1>26, TypeParts, Contents DEF BeginRollback, Loop, Goto, disk, IInv, PlaceOK, Phases,
      Guarded, Restores, Rewriting, Covered
<1>27. ASSUME Finish PROVE Guarded'
  BY <1>27, TypeParts, Contents DEF Finish, Off, disk, IInv, PlaceOK, Phases, Guarded,
      Restores, Rewriting, Covered
<1>28. ASSUME Crash PROVE Guarded'
  BY <1>28, TypeParts, Contents DEF Crash, Off, disk, IInv, PlaceOK, Phases, Guarded,
      Restores, Rewriting, Covered
<1>29. ASSUME NEW t \in Thread, CrashInRemoveAll(t) PROVE Guarded'
  BY <1>29, TypeParts, Contents DEF CrashInRemoveAll, Off, IInv, PlaceOK, Phases, Guarded,
      Restores, Rewriting, Covered
<1>30. ASSUME SignalArrives PROVE Guarded'
  BY <1>30, TypeParts, Contents DEF SignalArrives, Goto, disk, memory, IInv, PlaceOK,
      Phases, Guarded, Restores, Rewriting, Covered
<1>31. ASSUME TakeRestore PROVE Guarded'
  BY <1>31, TypeParts, Contents DEF TakeRestore, Loop, Goto, disk, IInv, PlaceOK, Phases,
      Guarded, Restores, Rewriting, Covered
<1>32. ASSUME UserEdits PROVE Guarded'
  BY <1>32, TypeParts, Contents DEF UserEdits, memory, IInv, PlaceOK, Phases, Guarded,
      Restores, Rewriting, Covered
<1>33. CASE UNCHANGED vars
  BY <1>33 DEF vars, IInv, Guarded, Restores, Covered
<1> QED BY <1>1, <1>2, <1>3, <1>4, <1>5, <1>6, <1>7, <1>8, <1>9, <1>10, <1>11, <1>12, <1>13,
    <1>14, <1>15, <1>16, <1>17, <1>18, <1>19, <1>20, <1>21, <1>22, <1>23, <1>24, <1>25,
    <1>26, <1>27, <1>28, <1>29, <1>30, <1>31, <1>32, <1>33, Contents DEF Next, Choose,
    MainStep, SignalStep, Restoring
LEMMA OneListStep ==
  ASSUME IInv, [Next]_vars
  PROVE  OneList'
<1>1. ASSUME NEW t \in Thread, RestoreNew(t) PROVE OneList'
  BY <1>1, TypeParts, Contents DEF RestoreNew, Loop, Goto, memory, disk, IInv, PlaceOK,
      Phases, OneList, Restores
<1>2. ASSUME NEW t \in Thread, RemoveDir(t) PROVE OneList'
  BY <1>2, TypeParts, Contents DEF RemoveDir, Recovers, Goto, IInv, PlaceOK, Phases,
      OneList, Restores
<1>3. ASSUME NEW t \in Thread, RestoreFails(t) PROVE OneList'
  <2>1. CASE t = Main
    BY <1>3, <2>1, TypeParts, Contents
        DEF RestoreFails, Recovers, Loop, Goto, Off, memory, disk, IInv, PlaceOK, Phases,
        OneList, Restores
  <2>2. CASE t = Signal
    <3>1. PICK f \in left[Signal] : Source(Signal).copy[f] = None
      BY <1>3, <2>2 DEF RestoreFails
    <3>2. ~raced => f \in Source(Signal).files
      BY <1>3, <2>2, <3>1 DEF RestoreFails, IInv, Replaying, Replayed
    <3>3. ~raced => dir # None /\ cut
      BY <3>1, <3>2, EmptyTyped, Contents DEF IInv, Clearing, Source
    <3> QED BY <1>3, <2>2, <3>3, Contents DEF RestoreFails, Recovers, memory, disk, OneList
  <2> QED BY <2>1, <2>2 DEF Thread
<1>4. ASSUME NEW t \in Thread, NEW f \in File, RestoreFile(t, f) PROVE OneList'
  BY <1>4, TypeParts, Contents DEF RestoreFile, Done, IInv, PlaceOK, Phases, OneList,
      Restores
<1>5. ASSUME NEW t \in Thread, NEW f \in File, UnlinkNew(t, f) PROVE OneList'
  BY <1>5, TypeParts, Contents DEF UnlinkNew, Done, IInv, PlaceOK, Phases, OneList, Restores
<1>6. ASSUME DropCheckpoint PROVE OneList'
  BY <1>6, TypeParts, Contents DEF DropCheckpoint, Loop, Goto, IInv, PlaceOK, Phases,
      OneList, Restores
<1>7. ASSUME SaveCopies PROVE OneList'
  <2>1. DOMAIN job \ FilesOf(dir) \in SUBSET File /\ dir' = Copied(DOMAIN job \ FilesOf(dir))
    BY <1>7, TypeParts DEF SaveCopies, IInv, OperationOK
  <2>2. /\ dir = None => dir'.files = {} /\ dir'.new = {}
        /\ dir # None => dir'.files = dir.files /\ dir'.new = dir.new
    BY <2>1, CopiedTyped, EmptyTyped DEF IInv
  <2>3. /\ pc[Main] = "snapshot" /\ pc' = [pc EXCEPT ![Main] = "record"]
        /\ left' = [left EXCEPT ![Main] = DOMAIN job \ FilesOf(dir)]
        /\ UNCHANGED <<op, failing, inFlight, raced, cut>>
    BY <1>7 DEF SaveCopies, Loop, Goto, memory
  <2> QED BY <2>2, <2>3, TypeParts, Contents DEF IInv, PlaceOK, OneList, FilesOf
<1>8. ASSUME SaveFails PROVE OneList'
  BY <1>8, TypeParts, Contents DEF SaveFails, Fail, Loop, Goto, disk, IInv, PlaceOK, Phases,
      OneList, Restores
<1>9. ASSUME SaveMark PROVE OneList'
  BY <1>9, TypeParts, Contents DEF SaveMark, Loop, Goto, disk, IInv, PlaceOK, Phases,
      OneList, Restores
<1>10. ASSUME NEW f \in File, SaveLine(f) PROVE OneList'
  <2>1. /\ dir \in Directory /\ f \in left[Main] /\ pc[Main] = "record"
        /\ left' = [left EXCEPT ![Main] = @ \ {f}]
        /\ UNCHANGED <<file, pc, op, job, failing, inFlight, raced, cut>>
    BY <1>10, TypeParts, Contents DEF SaveLine, Done, memory, IInv, DiskOK
  <2>2. CASE dir.copy[f] # None
    <3>1. dir' \in Directory /\ dir'.files = dir.files \cup {f} /\ dir'.new = dir.new
      BY <1>10, <2>1, <2>2 DEF SaveLine, Directory
    <3> QED BY <2>1, <3>1, TypeParts, Contents DEF IInv, PlaceOK, OneList
  <2>3. CASE dir.copy[f] = None
    <3>1. dir' \in Directory /\ dir'.files = dir.files /\ dir'.new = dir.new \cup {f}
      BY <1>10, <2>1, <2>3 DEF SaveLine, Directory
    <3>2. ~raced => op \notin Plugins
      <4>1. f \in DOMAIN job
        BY <2>1 DEF IInv, Working
      <4>2. ~raced => job[f] = None
        BY <2>1, <2>3, <4>1 DEF IInv, Guarded
      <4> QED BY <2>1, <4>1, <4>2 DEF IInv, Working
    <3> QED BY <2>1, <3>1, <3>2, TypeParts, Contents DEF IInv, PlaceOK, OneList
  <2> QED BY <2>2, <2>3
<1>11. ASSUME WritesDone PROVE OneList'
  BY <1>11, TypeParts, Contents DEF WritesDone, Goto, IInv, PlaceOK, Phases, OneList,
      Restores
<1>12. ASSUME ReloadWorks PROVE OneList'
  BY <1>12, TypeParts, Contents DEF ReloadWorks, Goto, disk, memory, IInv, PlaceOK, Phases,
      OneList, Restores
<1>13. ASSUME ReloadFails PROVE OneList'
  BY <1>13, TypeParts, Contents DEF ReloadFails, Fail, Loop, Goto, disk, IInv, PlaceOK,
      Phases, OneList, Restores
<1>14. ASSUME FillFile PROVE OneList'
  BY <1>14, TypeParts, Contents DEF FillFile, IInv, PlaceOK, Phases, OneList, Restores
<1>15. ASSUME NEW f \in File, WriteFile(f) PROVE OneList'
  BY <1>15, TypeParts, Contents DEF WriteFile, Done, IInv, PlaceOK, Phases, OneList,
      Restores
<1>16. ASSUME NEW f \in File, WriteBack(f) PROVE OneList'
  BY <1>16, TypeParts, Contents DEF WriteBack, Done, IInv, PlaceOK, Phases, OneList,
      Restores
<1>17. ASSUME NEW f \in File, ReadBack(f) PROVE OneList'
  BY <1>17, TypeParts, Contents DEF ReadBack, disk, IInv, PlaceOK, Phases, OneList, Restores
<1>18. ASSUME NEW f \in File, ReadBackFails(f) PROVE OneList'
  BY <1>18, TypeParts, Contents DEF ReadBackFails, disk, memory, IInv, PlaceOK, Phases,
      OneList, Restores
<1>19. ASSUME StripsDone PROVE OneList'
  BY <1>19, TypeParts, Contents DEF StripsDone, Goto, disk, memory, IInv, PlaceOK, Phases,
      OneList, Restores
<1>20. ASSUME TakeClean PROVE OneList'
  BY <1>20, TypeParts, Contents DEF TakeClean, Goto, disk, memory, IInv, PlaceOK, Phases,
      OneList, Restores
<1>21. ASSUME Promote PROVE OneList'
  BY <1>21, TypeParts, Contents DEF Promote, Goto, memory, IInv, PlaceOK, Phases, OneList,
      Restores
<1>22. ASSUME ChallengeDone PROVE OneList'
  BY <1>22, TypeParts, Contents DEF ChallengeDone, Loop, Goto, disk, IInv, PlaceOK, Phases,
      OneList, Restores
<1>23. ASSUME StartRun PROVE OneList'
  BY <1>23, TypeParts, Contents DEF StartRun, Loop, Goto, disk, IInv, PlaceOK, Phases,
      OneList, Restores
<1>24. ASSUME NEW S \in SUBSET File, BeginInstall(S) PROVE OneList'
  BY <1>24, TypeParts, Contents DEF BeginInstall, Goto, disk, IInv, PlaceOK, Phases,
      OneList, Restores, OperationOK, Clearing
<1>25. ASSUME NEW S \in SUBSET File, NEW p \in Plugins, BeginAuthenticate(S, p) PROVE OneList'
  BY <1>25, TypeParts, Contents DEF BeginAuthenticate, Goto, disk, IInv, PlaceOK, Phases,
      OneList, Restores, OperationOK, Clearing
<1>26. ASSUME NEW n \in 1..MaxRollback, BeginRollback(n) PROVE OneList'
  BY <1>26, TypeParts, Contents DEF BeginRollback, Loop, Goto, disk, IInv, PlaceOK, Phases,
      OneList, Restores
<1>27. ASSUME Finish PROVE OneList'
  BY <1>27, TypeParts, Contents DEF Finish, Off, disk, IInv, PlaceOK, Phases, OneList,
      Restores
<1>28. ASSUME Crash PROVE OneList'
  BY <1>28, TypeParts, Contents DEF Crash, Off, disk, IInv, PlaceOK, Phases, OneList,
      Restores
<1>29. ASSUME NEW t \in Thread, CrashInRemoveAll(t) PROVE OneList'
  <2>1. cut' \/ (cut' = cut /\ dir' = dir)
    BY <1>29 DEF CrashInRemoveAll
  <2>2. op' = "none" /\ pc'[Main] = "off" /\ raced' = raced
    BY <1>29, Contents DEF CrashInRemoveAll, Off
  <2> QED BY <2>1, <2>2, Contents DEF IInv, OneList
<1>30. ASSUME SignalArrives PROVE OneList'
  BY <1>30, TypeParts, Contents DEF SignalArrives, Goto, disk, memory, IInv, PlaceOK,
      Phases, OneList, Restores
<1>31. ASSUME TakeRestore PROVE OneList'
  BY <1>31, TypeParts, Contents DEF TakeRestore, Loop, Goto, disk, IInv, PlaceOK, Phases,
      OneList, Restores
<1>32. ASSUME UserEdits PROVE OneList'
  BY <1>32, TypeParts, Contents DEF UserEdits, memory, IInv, PlaceOK, Phases, OneList,
      Restores
<1>33. CASE UNCHANGED vars
  BY <1>33 DEF vars, IInv, OneList, Restores
<1> QED BY <1>1, <1>2, <1>3, <1>4, <1>5, <1>6, <1>7, <1>8, <1>9, <1>10, <1>11, <1>12, <1>13,
    <1>14, <1>15, <1>16, <1>17, <1>18, <1>19, <1>20, <1>21, <1>22, <1>23, <1>24, <1>25,
    <1>26, <1>27, <1>28, <1>29, <1>30, <1>31, <1>32, <1>33, Contents DEF Next, Choose,
    MainStep, SignalStep, Restoring
LEMMA InitHolds == Init => IInv
<1> SUFFICES ASSUME Init PROVE IInv
  OBVIOUS
<1>1. TypeOK
  <2>1. DiskOK
    BY CheckpointAssumption DEF Init, DiskOK, Content, Conf, Torn
  <2>2. PlaceOK
    BY DEF Init, PlaceOK, Labels
  <2>3. OperationOK
    BY NoJob DEF Init, OperationOK
  <2>4. CountOK
    BY CheckpointAssumption DEF Init, CountOK
  <2> QED BY <2>1, <2>2, <2>3, <2>4, TypeParts
<1>2. pc[Main] = "off" /\ pc[Signal] = "wait"
  BY DEF Init, Thread
<1>3. Phases
  BY <1>2, Contents DEF Init, Phases, MainLabel, SignalLabel
<1>4. Working /\ Replaying /\ Clearing /\ Guarded /\ OneList
  BY <1>2 DEF Init, Working, Replaying, Replayed, Clearing, Guarded, OneList, Restores
<1> QED BY <1>1, <1>3, <1>4 DEF IInv

\* A step keeps the whole invariant.
LEMMA NextInv ==
  ASSUME IInv, [Next]_vars
  PROVE  IInv'
<1>1. TypeOK'
  BY DiskStep, PlaceStep, OperationStep, CountStep
      DEF TypeOK, DiskOK, PlaceOK, OperationOK, CountOK
<1>2. Replaying'
  BY MainReplayedStep, SignalReplayedStep DEF Replaying
<1> QED BY <1>1, <1>2, PhasesStep, WorkingStep, ClearingStep, GuardedStep, OneListStep
    DEF IInv

LEMMA Inductive == Spec => []IInv
<1>1. IInv /\ [Next]_vars => IInv'
  BY NextInv
<1> QED BY <1>1, InitHolds, PTL DEF Spec

-----------------------------------------------------------------------------
\* The configuration files, the checkpoints and the memory of a run have the types
\* the code gives them, at every point of every interleaving.
THEOREM TypeCorrect == Spec => []TypeOK
BY Inductive, PTL DEF IInv

\* A startup that has recovered leaves no open checkpoint (checkpoint.go:16), unless
\* the removal of one was cut short.
THEOREM Recovery == Spec => []RecoveryClears
<1>1. IInv => RecoveryClears
  BY DEF IInv, Clearing, RecoveryClears
<1> QED BY <1>1, Inductive, PTL

-----------------------------------------------------------------------------
(* What the next startup comes up with, step by step.                      *)

LEMMA RecoveredStep ==
  ASSUME IInv, Next, ~raced, ~cut, ~UserEdits, ~Promote, op # "rollback", NEW g \in File
  PROVE  Recovered(g)' = Recovered(g) \/ (pc[Main] = "strip" /\ ~Covered(g))
<1>1. ASSUME NEW t \in Thread, RestoreNew(t)
      PROVE  Recovered(g)' = Recovered(g) \/ (pc[Main] = "strip" /\ ~Covered(g))
  BY <1>1 DEF RestoreNew, disk, Covered, Recovered
<1>2. ASSUME NEW t \in Thread, RemoveDir(t)
      PROVE  Recovered(g)' = Recovered(g) \/ (pc[Main] = "strip" /\ ~Covered(g))
  <2>1. pc[t] = "unlink" /\ left[t] = {} /\ dir' = None /\ file' = file
    BY <1>2 DEF RemoveDir
  <2>2. Replayed(t) /\ Source(t) = IF dir = None THEN Empty ELSE dir
    BY Contents DEF IInv, Replaying, Source, Thread
  <2>3. t = Main => undone.seen = {}
    BY DEF IInv, Phases
  <2> QED BY <2>1, <2>2, <2>3, Contents DEF Replayed, PutBack, Covered, Recovered, Snapshot
<1>3. ASSUME NEW t \in Thread, RestoreFails(t)
      PROVE  Recovered(g)' = Recovered(g) \/ (pc[Main] = "strip" /\ ~Covered(g))
  BY <1>3 DEF RestoreFails, Off, disk, Covered, Recovered
<1>4. ASSUME NEW t \in Thread, NEW f \in File, RestoreFile(t, f)
      PROVE  Recovered(g)' = Recovered(g) \/ (pc[Main] = "strip" /\ ~Covered(g))
  <2>1. /\ dir' = dir /\ f \in left[t] /\ pc[t] = "restore" /\ Source(t).copy[f] # None
        /\ file' = [file EXCEPT ![f] = Source(t).copy[f]]
    BY <1>4 DEF RestoreFile
  <2>2. Replayed(t) /\ Source(t) = IF dir = None THEN Empty ELSE dir
    BY Contents DEF IInv, Replaying, Source, Thread
  <2>3. f \in Source(t).files
    BY <2>1, <2>2 DEF Replayed
  <2>4. Covered(f)
    BY <2>1, <2>2, <2>3, EmptyTyped DEF Covered, Snapshot
  <2> QED BY <2>1, <2>4, TypeParts DEF Covered, Recovered, Snapshot, IInv, DiskOK
<1>5. ASSUME NEW t \in Thread, NEW f \in File, UnlinkNew(t, f)
      PROVE  Recovered(g)' = Recovered(g) \/ (pc[Main] = "strip" /\ ~Covered(g))
  <2>1. /\ dir' = dir /\ f \in left[t] /\ pc[t] = "unlink"
        /\ file' = [file EXCEPT ![f] = None]
    BY <1>5 DEF UnlinkNew
  <2>2. Replayed(t) /\ Source(t) = IF dir = None THEN Empty ELSE dir
    BY Contents DEF IInv, Replaying, Source, Thread
  <2>3. f \in Source(t).new
    BY <2>1, <2>2 DEF Replayed
  <2>4. Covered(f)
    BY <2>2, <2>3, EmptyTyped DEF Covered, Snapshot
  <2> QED BY <2>1, <2>4, TypeParts DEF Covered, Recovered, Snapshot, IInv, DiskOK
<1>6. ASSUME DropCheckpoint
      PROVE  Recovered(g)' = Recovered(g) \/ (pc[Main] = "strip" /\ ~Covered(g))
  BY <1>6 DEF DropCheckpoint
<1>7. ASSUME SaveCopies
      PROVE  Recovered(g)' = Recovered(g) \/ (pc[Main] = "strip" /\ ~Covered(g))
  <2>1. DOMAIN job \ FilesOf(dir) \in SUBSET File /\ dir' = Copied(DOMAIN job \ FilesOf(dir))
        /\ file' = file
    BY <1>7, TypeParts DEF SaveCopies, IInv, OperationOK
  <2>2. dir' # None
    BY <2>1, CopiedTyped, Contents DEF IInv
  <2>3. CASE dir = None
    <3>1. dir'.files = {} /\ dir'.new = {}
      BY <2>1, <2>3, CopiedTyped, EmptyTyped DEF IInv
    <3> QED BY <2>1, <2>3, <3>1 DEF Covered, Recovered, Snapshot
  <2>4. CASE dir # None
    <3>1. dir'.files = dir.files /\ dir'.new = dir.new
          /\ \A f \in File : f \in dir.files => dir'.copy[f] = dir.copy[f]
      BY <2>1, <2>4, CopiedTyped DEF IInv, FilesOf
    <3> QED BY <2>1, <2>2, <2>4, <3>1 DEF Covered, Recovered, Snapshot
  <2> QED BY <2>3, <2>4
<1>8. ASSUME SaveFails
      PROVE  Recovered(g)' = Recovered(g) \/ (pc[Main] = "strip" /\ ~Covered(g))
  BY <1>8 DEF SaveFails, disk, Covered, Recovered
<1>9. ASSUME SaveMark PROVE Recovered(g)' = Recovered(g) \/ (pc[Main] = "strip" /\ ~Covered(g))
  BY <1>9 DEF SaveMark, disk, Covered, Recovered
<1>10. ASSUME NEW f \in File, SaveLine(f)
       PROVE  Recovered(g)' = Recovered(g) \/ (pc[Main] = "strip" /\ ~Covered(g))
  <2>1. /\ dir \in Directory /\ f \in left[Main] /\ pc[Main] = "record" /\ file' = file
        /\ dir.copy[f] = file[f]
    BY <1>10, TypeParts DEF SaveLine, IInv, DiskOK, Guarded
  <2>2. f \notin dir.files /\ f \notin dir.new /\ dir # None
    BY <2>1, Contents DEF IInv, OneList
  <2>3. CASE dir.copy[f] # None
    <3>1. dir' \in Directory /\ dir'.files = dir.files \cup {f} /\ dir'.new = dir.new
          /\ dir'.copy = dir.copy
      BY <1>10, <2>1, <2>3 DEF SaveLine, Directory
    <3> QED BY <2>1, <2>2, <2>3, <3>1, Contents DEF Covered, Recovered, Snapshot
  <2>4. CASE dir.copy[f] = None
    <3>1. dir' \in Directory /\ dir'.files = dir.files /\ dir'.new = dir.new \cup {f}
          /\ dir'.copy = dir.copy
      BY <1>10, <2>1, <2>4 DEF SaveLine, Directory
    <3> QED BY <2>1, <2>2, <2>4, <3>1, Contents DEF Covered, Recovered, Snapshot
  <2> QED BY <2>3, <2>4
<1>11. ASSUME WritesDone
       PROVE  Recovered(g)' = Recovered(g) \/ (pc[Main] = "strip" /\ ~Covered(g))
  BY <1>11 DEF WritesDone, Covered, Recovered
<1>12. ASSUME ReloadWorks
       PROVE  Recovered(g)' = Recovered(g) \/ (pc[Main] = "strip" /\ ~Covered(g))
  BY <1>12 DEF ReloadWorks, disk, Covered, Recovered
<1>13. ASSUME ReloadFails
       PROVE  Recovered(g)' = Recovered(g) \/ (pc[Main] = "strip" /\ ~Covered(g))
  BY <1>13 DEF ReloadFails, disk, Covered, Recovered
<1>14. ASSUME FillFile
       PROVE  Recovered(g)' = Recovered(g) \/ (pc[Main] = "strip" /\ ~Covered(g))
  <2>1. open.at \in File /\ file' = [file EXCEPT ![open.at] = open.new] /\ dir' = dir
    BY <1>14, TypeParts DEF FillFile, IInv, OperationOK
  <2>2. Covered(open.at) \/ pc[Main] = "strip"
    BY <1>14 DEF FillFile, IInv, Working, Guarded
  <2> QED BY <2>1, <2>2, TypeParts DEF Covered, Recovered, IInv, DiskOK
<1>15. ASSUME NEW f \in File, WriteFile(f)
       PROVE  Recovered(g)' = Recovered(g) \/ (pc[Main] = "strip" /\ ~Covered(g))
  <2>1. file' = [file EXCEPT ![f] = CutShort] /\ dir' = dir
    BY <1>15 DEF WriteFile, Truncate
  <2>2. Covered(f)
    BY <1>15 DEF WriteFile, IInv, Working, Guarded
  <2> QED BY <2>1, <2>2, TypeParts DEF Covered, Recovered, IInv, DiskOK
<1>16. ASSUME NEW f \in File, WriteBack(f)
       PROVE  Recovered(g)' = Recovered(g) \/ (pc[Main] = "strip" /\ ~Covered(g))
  <2>1. file' = [file EXCEPT ![f] = CutShort] /\ dir' = dir /\ pc[Main] = "strip"
    BY <1>16 DEF WriteBack, Truncate
  <2> QED BY <2>1, TypeParts DEF Covered, Recovered, IInv, DiskOK
<1>17. ASSUME NEW f \in File, ReadBack(f)
       PROVE  Recovered(g)' = Recovered(g) \/ (pc[Main] = "strip" /\ ~Covered(g))
  BY <1>17 DEF ReadBack, disk, Covered, Recovered
<1>18. ASSUME NEW f \in File, ReadBackFails(f)
       PROVE  Recovered(g)' = Recovered(g) \/ (pc[Main] = "strip" /\ ~Covered(g))
  BY <1>18 DEF ReadBackFails, disk, Covered, Recovered
<1>19. ASSUME StripsDone
       PROVE  Recovered(g)' = Recovered(g) \/ (pc[Main] = "strip" /\ ~Covered(g))
  BY <1>19 DEF StripsDone, disk, Covered, Recovered
<1>20. ASSUME TakeClean
       PROVE  Recovered(g)' = Recovered(g) \/ (pc[Main] = "strip" /\ ~Covered(g))
  BY <1>20 DEF TakeClean, disk, Covered, Recovered
<1>21. ASSUME Promote PROVE Recovered(g)' = Recovered(g) \/ (pc[Main] = "strip" /\ ~Covered(g))
  BY <1>21
<1>22. ASSUME ChallengeDone
       PROVE  Recovered(g)' = Recovered(g) \/ (pc[Main] = "strip" /\ ~Covered(g))
  BY <1>22 DEF ChallengeDone, disk, Covered, Recovered
<1>23. ASSUME StartRun
       PROVE  Recovered(g)' = Recovered(g) \/ (pc[Main] = "strip" /\ ~Covered(g))
  BY <1>23 DEF StartRun, disk, Covered, Recovered
<1>24. ASSUME NEW S \in SUBSET File, BeginInstall(S)
       PROVE  Recovered(g)' = Recovered(g) \/ (pc[Main] = "strip" /\ ~Covered(g))
  BY <1>24 DEF BeginInstall, disk, Covered, Recovered
<1>25. ASSUME NEW S \in SUBSET File, NEW p \in Plugins, BeginAuthenticate(S, p)
       PROVE  Recovered(g)' = Recovered(g) \/ (pc[Main] = "strip" /\ ~Covered(g))
  BY <1>25 DEF BeginAuthenticate, disk, Covered, Recovered
<1>26. ASSUME NEW n \in 1..MaxRollback, BeginRollback(n)
       PROVE  Recovered(g)' = Recovered(g) \/ (pc[Main] = "strip" /\ ~Covered(g))
  BY <1>26 DEF BeginRollback, disk, Covered, Recovered
<1>27. ASSUME Finish PROVE Recovered(g)' = Recovered(g) \/ (pc[Main] = "strip" /\ ~Covered(g))
  BY <1>27 DEF Finish, Off, disk, Covered, Recovered
<1>28. ASSUME Crash PROVE Recovered(g)' = Recovered(g) \/ (pc[Main] = "strip" /\ ~Covered(g))
  BY <1>28 DEF Crash, Off, disk, Covered, Recovered
<1>29. ASSUME NEW t \in Thread, CrashInRemoveAll(t)
       PROVE  Recovered(g)' = Recovered(g) \/ (pc[Main] = "strip" /\ ~Covered(g))
  <2>1. CASE UNCHANGED dir
    BY <1>29, <2>1 DEF CrashInRemoveAll, Covered, Recovered
  <2>2. CASE dir # None /\ dir' \in Remains(dir)
    <3>1. pc[t] = "unlink" /\ left[t] = {} /\ file' = file
      BY <1>29 DEF CrashInRemoveAll
    <3>2. Replayed(t) /\ Source(t) = dir /\ (t = Main => undone.seen = {})
      BY <2>2, Contents DEF IInv, Phases, Replaying, Source, Thread
    <3>3. /\ dir \in Directory /\ dir' \in Directory
          /\ dir'.files \subseteq dir.files /\ dir'.new \subseteq dir.new
          /\ \A f \in dir'.files : dir'.copy[f] = None \/ dir'.copy[f] = dir.copy[f]
      BY <2>2, RemainsTyped, TypeParts DEF IInv, DiskOK
    <3>4. dir.files \cap dir.new = {}
      BY <2>2 DEF IInv, OneList
    <3>5. /\ \A f \in dir.files : dir.copy[f] # None /\ file[f] = dir.copy[f]
          /\ \A f \in dir.new : file[f] = None
      BY <3>1, <3>2, <3>4, Zenon DEF Replayed, PutBack
    <3>6. Recovered(g) = file[g]
      BY <2>2, <3>5 DEF Covered, Recovered, Snapshot
    <3>7. Recovered(g)' = file[g]
      BY <2>2, <3>1, <3>3, <3>5, Contents DEF Covered, Recovered, Snapshot
    <3> QED BY <3>6, <3>7
  <2> QED BY <1>29, <2>1, <2>2 DEF CrashInRemoveAll
<1>30. ASSUME SignalArrives
       PROVE  Recovered(g)' = Recovered(g) \/ (pc[Main] = "strip" /\ ~Covered(g))
  BY <1>30 DEF SignalArrives, disk, Covered, Recovered
<1>31. ASSUME TakeRestore
       PROVE  Recovered(g)' = Recovered(g) \/ (pc[Main] = "strip" /\ ~Covered(g))
  BY <1>31 DEF TakeRestore, disk, Covered, Recovered
<1>32. ASSUME UserEdits
       PROVE  Recovered(g)' = Recovered(g) \/ (pc[Main] = "strip" /\ ~Covered(g))
  BY <1>32
<1> QED BY <1>1, <1>2, <1>3, <1>4, <1>5, <1>6, <1>7, <1>8, <1>9, <1>10, <1>11, <1>12, <1>13,
    <1>14, <1>15, <1>16, <1>17, <1>18, <1>19, <1>20, <1>21, <1>22, <1>23, <1>24, <1>25,
    <1>26, <1>27, <1>28, <1>29, <1>30, <1>31, <1>32, Contents DEF Next, Choose, MainStep,
    SignalStep, Restoring

\* Whatever a run writes and wherever it stops, the configuration that the next
\* startup comes up with changes only in the rename of MarkClean, in a rollback, by
\* the user's hand, and in a Cleanup that rewrites a file no checkpoint has; unless a
\* signal's goroutine has restored under a verb that saves or writes, or a removal was
\* cut short.
THEOREM CrashSafety == Spec => CrashSafe
<1>1. IInv /\ [Next]_vars =>
        [\A f \in File : Recovered(f)' # Recovered(f) =>
           \/ UserEdits \/ Promote \/ op = "rollback"
           \/ pc[Main] = "strip" /\ ~Covered(f)
           \/ raced \/ cut]_vars
  BY RecoveredStep
<1> QED BY <1>1, Inductive, PTL DEF CrashSafe, Spec

\* Only MarkClean and a rollback change the list of checkpoints.
LEMMA BackupsKept ==
  ASSUME Next, ~DropCheckpoint, ~Promote, \A t \in Thread : ~CrashInRemoveAll(t)
  PROVE  backups' = backups
BY DEF Next, Choose, MainStep, SignalStep, Restoring, RestoreNew, RemoveDir,
  RestoreFails, RestoreFile, UnlinkNew, StartRun, Finish, BeginInstall, BeginAuthenticate,
  BeginRollback, SaveCopies, SaveFails, SaveMark, SaveLine, WritesDone, ReloadWorks,
  ReloadFails, FillFile, WriteFile, WriteBack, ReadBack, ReadBackFails, StripsDone,
  TakeClean, ChallengeDone, SignalArrives, TakeRestore, Crash, UserEdits, disk

\* A rollback removes a checkpoint only when its files are as the checkpoint has
\* them, or were put back from a later one (checkpoint.go:262), however many are undone.
THEOREM Rollback == Spec => RollbackReplays
<1> DEFINE Undoes ==
      Len(backups') < Len(backups) =>
        \A f \in DOMAIN Snapshot(Last(backups)) :
          \/ file[f] = Snapshot(Last(backups))[f]
          \/ f \in undone.seen \ Last(backups).new
<1>1. ASSUME IInv, Next PROVE Undoes
  <2>1. ASSUME Len(backups') = Len(backups) PROVE Undoes
    BY <2>1, <1>1, TypeParts DEF IInv, DiskOK
  <2>2. CASE DropCheckpoint
    <3>1. pc[Main] = "unlink" /\ left[Main] = {} /\ Source(Main) = Last(backups)
      BY <2>2 DEF DropCheckpoint, Source
    <3>2. Replayed(Main)
      BY <1>1 DEF IInv, Replaying
    <3> QED BY <3>1, <3>2 DEF Replayed, PutBack, Snapshot
  <2>3. CASE Promote
    <3>1. CASE dir = None
      BY <2>1, <2>3, <3>1 DEF Promote
    <3>2. CASE dir # None
      <4>1. dir \in Directory /\ backups \in Seq(Directory) /\ backups' = Append(backups, dir)
        BY <1>1, <2>3, <3>2, TypeParts DEF IInv, DiskOK, Promote
      <4>2. Len(backups') = Len(backups) + 1 /\ Len(backups) \in Nat
        BY <4>1
      <4> QED BY <4>2
    <3> QED BY <3>1, <3>2
  <2>4. ASSUME NEW t \in Thread, CrashInRemoveAll(t) PROVE Undoes
    <3>1. CASE UNCHANGED backups
      BY <2>1, <3>1
    <3>2. CASE ~Recovers(t) /\ \E d \in Remains(Last(backups)) : backups' = Append(Front(backups), d)
      <4>1. backups # <<>> /\ backups \in Seq(Directory)
        BY <1>1, <2>4, <3>2, TypeParts, Contents
            DEF CrashInRemoveAll, Recovers, IInv, DiskOK, Phases, Thread
      <4>2. /\ Front(backups) \in Seq(Directory) /\ Len(Front(backups)) = Len(backups) - 1
            /\ Last(backups) \in Directory /\ Len(backups) \in Nat
        BY <4>1, DropTyped
      <4>3. PICK d \in Remains(Last(backups)) : backups' = Append(Front(backups), d)
        BY <3>2
      <4>4. d \in Directory
        BY <4>2, RemainsTyped
      <4>5. Len(backups') = Len(Front(backups)) + 1
        BY <4>2, <4>3, <4>4
      <4> QED BY <2>1, <4>2, <4>5
    <3> QED BY <2>4, <3>1, <3>2 DEF CrashInRemoveAll
  <2>5. CASE ~DropCheckpoint /\ ~Promote /\ \A t \in Thread : ~CrashInRemoveAll(t)
    <3>1. backups' = backups
      BY <1>1, <2>5, BackupsKept
    <3> QED BY <2>1, <3>1
  <2> QED BY <2>2, <2>3, <2>4, <2>5
<1>2. IInv /\ [Next]_vars => [Undoes]_vars
  BY <1>1
<1> QED BY <1>2, Inductive, PTL DEF RollbackReplays, Spec

-----------------------------------------------------------------------------
(* The refinement of ConfigStore.                                          *)

Config == [f \in File |-> Settled(f)]
Undo(b) == [i \in DOMAIN b |-> Snapshot(b[i])]
Snapshots == {Snapshot(d) : d \in Directory}

\* What the list of checkpoints is to the store.
LEMMA UndoTyped ==
  ASSUME NEW b \in Seq(Directory)
  PROVE  Undo(b) \in Seq(Snapshots) /\ Len(Undo(b)) = Len(b)
         /\ \A i \in 1..Len(b) : Undo(b)[i] = Snapshot(b[i])
<1>1. Len(b) \in Nat /\ DOMAIN b = 1..Len(b) /\ \A i \in 1..Len(b) : b[i] \in Directory
  OBVIOUS
<1>2. Undo(b) \in [1..Len(b) -> Snapshots]
  BY <1>1 DEF Undo, Snapshots
<1>3. Undo(b) \in Seq(Snapshots) /\ Len(Undo(b)) = Len(b)
  BY <1>1, <1>2
<1> QED BY <1>1, <1>3 DEF Undo

LEMMA UndoAppend ==
  ASSUME NEW b \in Seq(Directory), NEW d \in Directory
  PROVE  Undo(Append(b, d)) = Append(Undo(b), Snapshot(d))
<1> DEFINE a == Append(b, d)
           u == Append(Undo(b), Snapshot(d))
<1>1. /\ a \in Seq(Directory) /\ Len(a) = Len(b) + 1 /\ a[Len(b) + 1] = d
      /\ \A i \in 1..Len(b) : a[i] = b[i]
  BY AppendProperties
<1>2. Snapshot(d) \in Snapshots
  BY DEF Snapshots
<1>3. /\ u \in Seq(Snapshots) /\ Len(u) = Len(b) + 1 /\ u[Len(b) + 1] = Snapshot(d)
      /\ \A i \in 1..Len(b) : u[i] = Undo(b)[i]
  <2>1. Undo(b) \in Seq(Snapshots) /\ Len(Undo(b)) = Len(b)
    BY UndoTyped
  <2> QED BY <2>1, <1>2, AppendProperties
<1> HIDE DEF a, u
<1>4. Undo(a) \in Seq(Snapshots) /\ Len(Undo(a)) = Len(b) + 1
      /\ \A i \in 1..(Len(b) + 1) : Undo(a)[i] = Snapshot(a[i])
  BY <1>1, UndoTyped
<1>5. ASSUME NEW i \in 1..(Len(b) + 1)
      PROVE  Undo(a)[i] = u[i]
  <2>1. CASE i = Len(b) + 1
    BY <1>1, <1>3, <1>4, <2>1
  <2>2. CASE i # Len(b) + 1
    <3>1. i \in 1..Len(b)
      BY <2>2
    <3>2. Undo(b)[i] = Snapshot(b[i])
      BY <3>1, UndoTyped
    <3> QED BY <1>1, <1>3, <1>4, <3>1, <3>2
  <2> QED BY <2>1, <2>2
<1>6. Undo(a) = u
  BY <1>3, <1>4, <1>5, SeqEqual
<1> QED BY <1>6 DEF a, u

LEMMA UndoFront ==
  ASSUME NEW b \in Seq(Directory), b # <<>>
  PROVE  /\ Undo(b) # <<>>
         /\ Undo(b)[Len(Undo(b))] = Snapshot(Last(b))
         /\ SubSeq(Undo(b), 1, Len(Undo(b)) - 1) = Undo(Front(b))
<1>1. /\ Undo(b) \in Seq(Snapshots) /\ Len(Undo(b)) = Len(b)
      /\ \A i \in 1..Len(b) : Undo(b)[i] = Snapshot(b[i])
  BY UndoTyped
<1>2. /\ Len(b) \in Nat \ {0} /\ Front(b) \in Seq(Directory) /\ Len(Front(b)) = Len(b) - 1
      /\ \A i \in 1..(Len(b) - 1) : Front(b)[i] = b[i]
  BY DropTyped
<1>3. /\ Undo(Front(b)) \in Seq(Snapshots) /\ Len(Undo(Front(b))) = Len(b) - 1
      /\ \A i \in 1..(Len(b) - 1) : Undo(Front(b))[i] = Snapshot(Front(b)[i])
  BY <1>2, UndoTyped
<1> DEFINE s == SubSeq(Undo(b), 1, Len(b) - 1)
<1>4. /\ s \in Seq(Snapshots) /\ Len(s) = Len(b) - 1
      /\ \A i \in 1..(Len(b) - 1) : s[i] = Undo(b)[i]
  BY <1>1, <1>2, FrontTyped
<1> HIDE DEF s
<1>5. ASSUME NEW i \in 1..Len(s)
      PROVE  s[i] = Undo(Front(b))[i]
  <2>1. i \in 1..(Len(b) - 1) /\ i \in 1..Len(b)
    BY <1>2, <1>4
  <2> QED BY <1>1, <1>2, <1>3, <1>4, <2>1
<1>6. s = Undo(Front(b))
  BY <1>3, <1>4, <1>5, SeqEqual
<1>7. Undo(b) # <<>>
  BY <1>1, <1>2, EmptySeq
<1>8. Len(b) \in 1..Len(b)
  BY <1>2
<1> QED BY <1>1, <1>6, <1>7, <1>8 DEF s, Last

\* Where the code leaves it open, anything goes.
LEMMA DisturbedImplements ==
  ASSUME pc[Main] # "off", raced \/ cut \/ raced' \/ cut'
  PROVE  Store!Next
BY DEF Store!Next, Store!Disturb

\* A file that is being rewritten is covered, except in a Cleanup.
LEMMA SettledIs ==
  ASSUME IInv, ~raced, ~cut, pc[Main] # "strip", NEW g \in File
  PROVE  Settled(g) = Recovered(g)
BY DEF IInv, Working, Guarded, Settled

\* Between two runs.
LEMMA OffSteps ==
  ASSUME IInv, Next, pc[Main] = "off"
  PROVE  StartRun \/ UserEdits
<1>1. pc[Signal] = "wait" /\ op = "none"
  BY DEF IInv, Phases
<1>2. ~MainStep
  BY DEF MainStep, Restoring, RestoreNew, RemoveDir, RestoreFails, RestoreFile, UnlinkNew,
    DropCheckpoint, SaveCopies, SaveFails, SaveMark, SaveLine, WritesDone, ReloadWorks,
    ReloadFails, FillFile, WriteFile, WriteBack, ReadBack, ReadBackFails, StripsDone,
    TakeClean, Promote, IInv, Working
<1>3. ~SignalStep
  BY <1>1 DEF SignalStep, Restoring, RestoreNew, RemoveDir, RestoreFails, RestoreFile,
    UnlinkNew, TakeRestore
<1>4. ~ChallengeDone /\ ~SignalArrives /\ ~Crash /\ \A t \in Thread : ~CrashInRemoveAll(t)
  BY <1>1 DEF ChallengeDone, SignalArrives, Crash, CrashInRemoveAll, Thread
<1>5. Choose => StartRun
  BY DEF Choose, Finish, BeginInstall, BeginAuthenticate, BeginRollback
<1> QED BY <1>2, <1>3, <1>4, <1>5 DEF Next

LEMMA OffImplements ==
  ASSUME IInv, Next, pc[Main] = "off"
  PROVE  Store!Next \/ UNCHANGED Store!vars
<1>1. open = None /\ undone.seen = {}
  BY DEF IInv, Phases, Working
<1>2. CASE StartRun
  <2>1. /\ pc'[Main] # "off" /\ UNCHANGED <<file, dir, backups, open, undone, cut>>
        /\ raced' \in {FALSE, raced}
    BY <1>2, TypeParts, Contents DEF StartRun, Loop, Goto, disk, IInv, PlaceOK, OperationOK
  <2>2. (raced' \/ cut') \in {FALSE, raced \/ cut}
    BY <2>1, TypeParts DEF IInv, OperationOK
  <2>3. Store!StartRun
    BY <2>1, <2>2 DEF Store!StartRun, Settled, Recovered, Covered
  <2> QED BY <2>3 DEF Store!Next
<1>3. CASE UserEdits
  <2>1. PICK f \in File : file' = [file EXCEPT ![f] = [text |-> texts', challenge |-> FALSE]]
    BY <1>3 DEF UserEdits
  <2>2. UNCHANGED <<dir, backups, pc, open, undone, raced, cut>>
    BY <1>3 DEF UserEdits, memory
  <2>3. \A g \in File \ {f} : Config'[g] = Config[g]
    BY <2>1, <2>2 DEF Config, Settled, Recovered, Covered
  <2>4. Config' \in [File -> Content]
    <3>1. DiskOK' /\ open' = None
      BY <1>1, <2>2, DiskStep
    <3>2. \A g \in File : Settled(g)' \in Content
      BY <3>1 DEF DiskOK, Settled, Recovered, Covered, Snapshot, Directory, Content
    <3> QED BY <3>2 DEF Config
  <2>5. Store!Edit(f)
    BY <2>2, <2>3, <2>4 DEF Store!Edit, Store!Put, Config
  <2> QED BY <2>5 DEF Store!Next
<1> QED BY <1>2, <1>3, OffSteps

\* What a file holds is some content, whatever is under way.
LEMMA ConfigTyped ==
  ASSUME TypeOK
  PROVE  Config \in [File -> Content]
<1>1. \A g \in File : Settled(g) \in Content
  BY TypeParts DEF DiskOK, OperationOK, Settled, Recovered, Covered, Snapshot, Directory, Content
<1> QED BY <1>1 DEF Config

\* MarkClean's rename is the change, whole.
LEMMA PromoteImplements ==
  ASSUME IInv, Promote
  PROVE  Store!Next \/ UNCHANGED Store!vars
<1>1. /\ pc[Main] # "off" /\ pc'[Main] # "off" /\ open = None
      /\ UNCHANGED <<file, open, undone, raced>>
  BY Contents DEF Promote, Goto, memory, IInv, Phases, Working
<1>2. CASE dir = None
  BY <1>1, <1>2 DEF Promote, Store!vars, Settled, Recovered, Covered
<1>3. CASE dir # None /\ (raced \/ cut)
  BY <1>1, <1>3, DisturbedImplements
<1>4. CASE dir # None /\ ~raced /\ ~cut
  <2>1. dir \in Directory /\ backups \in Seq(Directory) /\ backups' = Append(backups, dir) /\ dir' = None
        /\ ~raced' /\ ~cut'
    BY <1>1, <1>4, TypeParts DEF Promote, IInv, DiskOK
  <2> DEFINE S == DOMAIN Snapshot(dir)
  <2>2. S \in SUBSET File
    BY <2>1 DEF Snapshot, Directory
  <2>3. Config' \in [File -> Content]
    <3>1. \A g \in File : Settled(g)' = file[g]
      BY <1>1, <2>1 DEF Settled, Recovered, Covered
    <3> QED BY <3>1, TypeParts DEF Config, IInv, DiskOK
  <2>4. \A g \in File \ S : Config'[g] = Config[g]
    BY <1>1, <2>1 DEF Config, Settled, Recovered, Covered
  <2>5. Snapshot(dir) = [f \in S |-> Config[f]]
    <3>1. \A f \in S : Config[f] = Snapshot(dir)[f]
      BY <1>1, <1>4, <2>2 DEF Config, Settled, Recovered, Covered
    <3> QED BY <3>1 DEF Snapshot
  <2>6. Undo(backups') = Append(Undo(backups), [f \in S |-> Config[f]])
    BY <2>1, <2>5, UndoAppend
  <2> HIDE DEF S
  <2>7. Store!Change(S)
    BY <1>1, <1>4, <2>1, <2>3, <2>4, <2>6 DEF Store!Change, Config, Undo
  <2> QED BY <2>2, <2>7 DEF Store!Next
<1> QED BY <1>2, <1>3, <1>4

\* What can happen during a rollback.
LEMMA RollbackSteps ==
  ASSUME IInv, Next, op = "rollback"
  PROVE  \/ RestoreNew(Main) \/ RestoreFails(Main)
         \/ \E f \in File : RestoreFile(Main, f) \/ UnlinkNew(Main, f)
         \/ DropCheckpoint \/ CrashInRemoveAll(Main)
         \/ Finish \/ Crash \/ SignalArrives \/ TakeRestore
<1>1. /\ pc[Main] \in {"restore", "unlink", "ready"}
      /\ pc[Signal] \in {"wait", "take", "restored"} /\ open = None
  BY Contents DEF IInv, Phases, Working
<1>2. SignalStep => TakeRestore
  BY <1>1 DEF SignalStep, Restoring, RestoreNew, RemoveDir, RestoreFails, RestoreFile,
    UnlinkNew
<1>3. ~ChallengeDone /\ ~UserEdits /\ ~CrashInRemoveAll(Signal) /\ ~RemoveDir(Main)
  BY <1>1, Contents DEF ChallengeDone, UserEdits, CrashInRemoveAll, RemoveDir, Recovers
<1>4. Choose => Finish
  BY <1>1 DEF Choose, StartRun, BeginInstall, BeginAuthenticate, BeginRollback
<1>5. MainStep => Restoring(Main) \/ DropCheckpoint
  BY <1>1 DEF MainStep, SaveCopies, SaveFails, SaveMark, SaveLine, WritesDone, ReloadWorks,
    ReloadFails, FillFile, WriteFile, WriteBack, ReadBack, ReadBackFails, StripsDone,
    TakeClean, Promote, IInv, Working
<1> QED BY <1>2, <1>3, <1>4, <1>5, Contents DEF Next, Restoring

\* A rollback takes the last change back file by file and forgets it, and the changes
\* before it, or is killed when it has forgotten half of one.
LEMMA RollbackImplements ==
  ASSUME IInv, Next, op = "rollback", ~raced, ~cut, ~raced', ~cut'
  PROVE  Store!Next \/ UNCHANGED Store!vars
<1>1. /\ dir = None /\ pc[Main] # "off" /\ open = None
      /\ \A g \in File : Settled(g) = file[g]
  BY DEF IInv, Phases, Working, Clearing, Settled, Recovered, Covered
<1>2. CASE RestoreNew(Main) \/ SignalArrives \/ TakeRestore
  <2>1. UNCHANGED <<dir, file, backups, open, undone>> /\ pc'[Main] # "off"
    BY <1>1, <1>2, TypeParts, Contents
        DEF RestoreNew, SignalArrives, TakeRestore, Loop, Goto, disk, memory, IInv, PlaceOK
  <2> QED BY <1>1, <2>1 DEF Store!vars, Settled, Recovered, Covered
<1>3. CASE RestoreFails(Main) \/ Finish \/ Crash
  <2>1. /\ UNCHANGED <<dir, file, backups>> /\ pc'[Main] = "off" /\ open' = None
        /\ undone'.seen = {}
    BY <1>3, Contents DEF RestoreFails, Recovers, Finish, Crash, Off, disk
  <2>2. Store!EndRun
    BY <1>1, <2>1 DEF Store!EndRun, Settled, Recovered, Covered
  <2> QED BY <2>2 DEF Store!Next
<1>4. ASSUME pc[Main] \in {"restore", "unlink"}
      PROVE  LET d == Last(backups) IN
             /\ backups \in Seq(Directory) /\ backups # <<>> /\ d \in Directory
             /\ Front(backups) \in Seq(Directory)
             /\ Source(Main) = d
             /\ Undo(backups) # <<>> /\ Undo(backups)[Len(Undo(backups))] = Snapshot(d)
             /\ SubSeq(Undo(backups), 1, Len(Undo(backups)) - 1) = Undo(Front(backups))
  <2>1. backups \in Seq(Directory) /\ backups # <<>>
    BY <1>4, TypeParts DEF IInv, DiskOK, Phases
  <2> QED BY <2>1, DropTyped, UndoFront DEF Source
<1>5. ASSUME NEW f \in File, RestoreFile(Main, f) \/ UnlinkNew(Main, f)
      PROVE  Store!Next
  <2> DEFINE d == Last(backups)
  <2>1. /\ UNCHANGED <<backups, dir, pc, undone>> /\ f \in left[Main] /\ open' = None
        /\ pc[Main] \in {"restore", "unlink"}
    BY <1>1, <1>5 DEF RestoreFile, UnlinkNew, Unlinked
  <2>2. d \in Directory /\ Source(Main) = d /\ Replayed(Main)
    BY <1>4, <2>1 DEF IInv, Replaying
  <2>3. f \in DOMAIN Snapshot(d)
    <3>1. (f \in d.files /\ d.copy[f] # None) \/ f \in d.new
      BY <1>5, <2>1, <2>2 DEF RestoreFile, UnlinkNew, Replayed
    <3> QED BY <3>1 DEF Snapshot
  <2>4. \A g \in File \ {f} : file'[g] = file[g]
    BY <1>5, TypeParts DEF RestoreFile, UnlinkNew, IInv, DiskOK
  <2>5. \A g \in File \ {f} : Config'[g] = Config[g]
    BY <1>1, <2>1, <2>4 DEF Config, Settled, Recovered, Covered
  <2>6. Config' \in [File -> Content]
    <3>1. \A g \in File : Settled(g)' = file'[g]
      BY <1>1, <2>1 DEF Settled, Recovered, Covered
    <3> QED BY <3>1, DiskStep DEF Config, DiskOK
  <2> HIDE DEF d
  <2>7. Store!UndoFile(f)
    BY <1>1, <1>4, <2>1, <2>3, <2>5, <2>6 DEF Store!UndoFile, Store!Put, Store!Last, Config, Undo, d
  <2> QED BY <2>7 DEF Store!Next
<1>6. ASSUME pc[Main] = "unlink", left[Main] = {}
      PROVE  LET d == Last(backups) IN
             /\ \A f \in DOMAIN Snapshot(d) \ undone.seen : f \in File /\ Config[f] = Snapshot(d)[f]
             /\ \A f \in d.files : f \in undone.seen \/ f \in DOMAIN Snapshot(d)
  <2> DEFINE d == Last(backups)
  <2>1. d \in Directory /\ Source(Main) = d /\ Replayed(Main)
    BY <1>4, <1>6 DEF IInv, Replaying
  <2>2. \A f \in DOMAIN Snapshot(d) \ undone.seen : f \in File /\ file[f] = Snapshot(d)[f]
    BY <1>6, <2>1 DEF Replayed, PutBack, Snapshot, Directory
  <2>3. \A f \in d.files : f \in undone.seen \/ f \in DOMAIN Snapshot(d)
    BY <1>6, <2>1 DEF Replayed, Snapshot
  <2> QED BY <1>1, <2>2, <2>3 DEF Config
<1>7. ASSUME pc[Main] = "unlink", left[Main] = {} PROVE Store!Undone
  <2>1. \A f \in DOMAIN Snapshot(Last(backups)) \ undone.seen :
          Config[f] = Snapshot(Last(backups))[f]
    BY <1>6, <1>7
  <2> QED BY <1>4, <1>7, <2>1 DEF Store!Undone, Store!Last, Config, Undo
<1>8. CASE DropCheckpoint
  <2> DEFINE d == Last(backups)
             S == IF undone.n = 1 THEN {} ELSE d.files \cap DOMAIN Snapshot(d)
  <2>1. /\ backups' = Front(backups) /\ UNCHANGED <<dir, file, open>>
        /\ pc[Main] = "unlink" /\ left[Main] = {} /\ pc'[Main] # "off"
    BY <1>8, TypeParts, Contents DEF DropCheckpoint, Loop, Goto, IInv, PlaceOK
  <2>2. undone'.seen = undone.seen \cup S
    <3>1. CASE undone.n = 1
      BY <1>8, <3>1 DEF DropCheckpoint
    <3>2. CASE undone.n # 1
      <4>1. undone'.seen = undone.seen \cup d.files
        BY <1>8, <3>2 DEF DropCheckpoint
      <4>2. d.files \subseteq undone.seen \cup (d.files \cap DOMAIN Snapshot(d))
        BY <1>6, <2>1
      <4> QED BY <3>2, <4>1, <4>2
    <3> QED BY <3>1, <3>2
  <2>3. Config' = Config
    BY <2>1 DEF Config, Settled, Recovered, Covered
  <2>4. Undo(backups') = SubSeq(Undo(backups), 1, Len(Undo(backups)) - 1)
    BY <1>4, <2>1
  <2>5. S \in SUBSET DOMAIN Snapshot(d)
    OBVIOUS
  <2>6. Store!Undone
    BY <1>7, <2>1
  <2>7. S \in SUBSET DOMAIN Undo(backups)[Len(Undo(backups))]
    BY <1>4, <2>1, <2>5
  <2> HIDE DEF S, d
  <2>8. Store!Forget
    BY <1>1, <2>1, <2>2, <2>3, <2>4, <2>6, <2>7
        DEF Store!Forget, Store!Last, Store!Front, Config, Undo
  <2> QED BY <2>8 DEF Store!Next
<1>9. CASE CrashInRemoveAll(Main)
  <2> DEFINE b == Last(backups)
  <2>1. /\ pc[Main] = "unlink" /\ left[Main] = {} /\ UNCHANGED <<file, dir>>
        /\ pc'[Main] = "off" /\ open' = None /\ undone'.seen = {}
    BY <1>1, <1>9, Contents DEF CrashInRemoveAll, Recovers, Off
  <2>2. PICK d \in Remains(b) : backups' = Append(Front(backups), d)
    BY <1>9, Contents DEF CrashInRemoveAll, Recovers
  <2>3. d \in Directory /\ d.files \subseteq b.files /\ d.new \subseteq b.new
        /\ \A f \in d.files : d.copy[f] = None \/ d.copy[f] = b.copy[f]
    BY <1>4, <2>1, RemainsTyped
  <2>4. Undo(backups') = Append(SubSeq(Undo(backups), 1, Len(Undo(backups)) - 1), Snapshot(d))
    BY <1>4, <2>1, <2>2, <2>3, UndoAppend
  <2>5. DOMAIN Snapshot(d) \in SUBSET DOMAIN Snapshot(b)
    BY <2>3 DEF Snapshot
  <2>6. Snapshot(d) \in [DOMAIN Snapshot(d) -> Content]
    BY <2>3, Contents DEF Snapshot, Directory, Content
  <2>7. Config' = Config
    BY <1>1, <2>1 DEF Config, Settled, Recovered, Covered
  <2>8. Store!Undone
    BY <1>7, <2>1
  <2>9. \E S \in SUBSET DOMAIN Undo(backups)[Len(Undo(backups))] : \E h \in [S -> Content] :
          Undo(backups') = Append(SubSeq(Undo(backups), 1, Len(Undo(backups)) - 1), h)
    <3>1. DOMAIN Snapshot(d) \in SUBSET DOMAIN Undo(backups)[Len(Undo(backups))]
      BY <1>4, <2>1, <2>5
    <3> QED BY <2>4, <2>6, <3>1
  <2> HIDE DEF b
  <2>10. Store!ForgetHalf
    BY <1>1, <2>1, <2>7, <2>8, <2>9
        DEF Store!ForgetHalf, Store!Last, Store!Front, Config, Undo
  <2> QED BY <2>10 DEF Store!Next
<1> QED BY <1>2, <1>3, <1>5, <1>8, <1>9, RollbackSteps

\* What can happen in a Cleanup that no signal's goroutine disturbs.
LEMMA StripSteps ==
  ASSUME IInv, Next, pc[Main] = "strip", ~raced
  PROVE  \/ FillFile \/ StripsDone \/ SignalArrives \/ TakeRestore \/ Crash
         \/ \E f \in File : ReadBack(f) \/ ReadBackFails(f) \/ WriteBack(f)
<1>1. op \in Plugins /\ op # "none" /\ ~Restores
  BY Contents DEF IInv, Phases, Guarded, Rewriting
<1>2. SignalStep => TakeRestore
  BY <1>1 DEF SignalStep, Restoring, RestoreNew, RemoveDir, RestoreFails, RestoreFile,
    UnlinkNew, Restores
<1>3. ~ChallengeDone /\ ~UserEdits /\ \A t \in Thread : ~CrashInRemoveAll(t)
  BY <1>1 DEF ChallengeDone, UserEdits, CrashInRemoveAll, Restores, Thread
<1>4. ~Choose
  BY DEF Choose, StartRun, Finish, BeginInstall, BeginAuthenticate, BeginRollback
<1>5. MainStep => FillFile \/ StripsDone \/ \E f \in File : ReadBack(f) \/ ReadBackFails(f) \/ WriteBack(f)
  BY DEF MainStep, Restoring, RestoreNew, RemoveDir, RestoreFails, RestoreFile, UnlinkNew,
    DropCheckpoint, SaveCopies, SaveFails, SaveMark, SaveLine, WritesDone, ReloadWorks,
    ReloadFails, WriteFile, TakeClean, Promote
<1> QED BY <1>2, <1>3, <1>4, <1>5 DEF Next

\* A Cleanup takes the snippet out of one file after the other, and loses the one that it
\* is killed over.
LEMMA StripImplements ==
  ASSUME IInv, Next, pc[Main] = "strip", ~raced, ~cut, ~raced', ~cut'
  PROVE  Store!Next \/ UNCHANGED Store!vars
<1>1. undone.seen = {}
  BY Contents DEF IInv, Phases
<1>2. ASSUME StripsDone \/ SignalArrives \/ TakeRestore
             \/ \E f \in File : ReadBack(f) \/ ReadBackFails(f)
      PROVE  UNCHANGED Store!vars
  <2>1. UNCHANGED <<file, dir, backups, open, undone>>
    BY <1>2 DEF StripsDone, SignalArrives, TakeRestore, ReadBack, ReadBackFails, disk, memory
  <2>2. pc'[Main] # "off"
    BY <1>2, TypeParts, Contents
        DEF StripsDone, SignalArrives, TakeRestore, ReadBack, ReadBackFails, Loop, Goto,
        IInv, PlaceOK
  <2> QED BY <2>1, <2>2 DEF Store!vars, Settled, Recovered, Covered
<1>3. CASE FillFile
  <2>1. /\ open.at \in File /\ file' = [file EXCEPT ![open.at] = open.new] /\ open # None
        /\ open' = None /\ UNCHANGED <<dir, backups, pc, undone>>
    BY <1>3, TypeParts DEF FillFile, IInv, OperationOK
  <2>2. \A g \in File : Settled(g)' = Settled(g)
    BY <2>1, TypeParts DEF Settled, Recovered, Covered, IInv, DiskOK
  <2> QED BY <2>1, <2>2 DEF Store!vars
<1>4. ASSUME NEW f \in File, WriteBack(f) PROVE Store!Next \/ UNCHANGED Store!vars
  <2>1. /\ open = None /\ open' = [at |-> f, new |-> [job[f] EXCEPT !.challenge = FALSE]]
        /\ file' = [file EXCEPT ![f] = CutShort] /\ f \in DOMAIN job
        /\ UNCHANGED <<dir, backups, pc, undone>>
    BY <1>4 DEF WriteBack, Truncate
  <2>2. job[f] = file[f] /\ file[f] # None /\ file[f] \in Content
    BY <2>1, TypeParts DEF IInv, Guarded, Working, DiskOK
  <2>3. open' # None /\ open'.at = f /\ open'.new = [file[f] EXCEPT !.challenge = FALSE]
    <3>1. [job[f] EXCEPT !.challenge = FALSE] \in Conf
      BY <2>2 DEF Content, Conf
    <3>2. open' \in [at : File, new : Conf]
      BY <2>1, <3>1
    <3>3. open' # None
      <4>1. OperationOK'
        BY OperationStep
      <4>2. Conf \subseteq [text : Nat, challenge : BOOLEAN]
        <5>1. 0..Torn \subseteq Nat
          OBVIOUS
        <5> QED BY <5>1 DEF Conf
      <4>3. open' \in [at : File, new : [text : Nat, challenge : BOOLEAN]]
        BY <3>2, <4>2
      <4> QED BY <4>3, CheckpointAssumption
    <3> QED BY <2>1, <2>2, <3>3
  <2>4. \A g \in File \ {f} : Settled(g)' = Settled(g)
    BY <2>1, <2>3, TypeParts DEF Settled, Recovered, Covered, IInv, DiskOK
  <2>5. CASE Covered(f)
    <3>1. Settled(f)' = Settled(f)
      BY <2>1, <2>5 DEF Settled, Recovered, Covered
    <3> QED BY <2>1, <2>4, <3>1 DEF Store!vars
  <2>6. CASE ~Covered(f)
    <3>1. Settled(f) = file[f] /\ Settled(f)' = [file[f] EXCEPT !.challenge = FALSE]
      BY <2>1, <2>3, <2>6 DEF Settled, Recovered, Covered
    <3> DEFINE W == [c \in Content |-> IF c = None THEN None ELSE [c EXCEPT !.challenge = FALSE]]
    <3>2. W[Config[f]] = Settled(f)'
      BY <2>2, <3>1 DEF Config
    <3> HIDE DEF W
    <3>3. Config' = [Config EXCEPT ![f] = W[@]]
      BY <2>4, <3>2 DEF Config
    <3>4. Store!Tidy(f)
      BY <2>1, <3>3 DEF Store!Tidy, Config, W
    <3> QED BY <3>4 DEF Store!Next
  <2> QED BY <2>5, <2>6
<1>5. CASE Crash
  <2>1. UNCHANGED <<file, dir, backups>> /\ pc'[Main] = "off" /\ open' = None /\ undone'.seen = {}
    BY <1>5, Contents DEF Crash, Off, disk
  <2>2. \A g \in File : Settled(g)' = Recovered(g)
    BY <2>1 DEF Settled, Recovered, Covered
  <2>3. CASE open = None \/ Covered(open.at)
    <3>1. \A g \in File : Settled(g) = Recovered(g)
      BY <2>3 DEF Settled
    <3>2. Store!EndRun
      BY <2>1, <2>2, <3>1 DEF Store!EndRun
    <3> QED BY <3>2 DEF Store!Next
  <2>4. CASE open # None /\ ~Covered(open.at)
    <3>1. open.at \in File /\ file[open.at] = CutShort
      BY <2>4, TypeParts DEF IInv, Working, OperationOK
    <3>2. \A g \in File : Settled(g)' = IF g = open.at THEN CutShort ELSE Settled(g)
      BY <2>2, <2>4, <3>1 DEF Settled, Recovered
    <3>3. Config' = [Config EXCEPT ![open.at] = CutShort]
      BY <3>2 DEF Config
    <3>4. Store!Lose(open.at)
      BY <2>1, <3>3 DEF Store!Lose, Config
    <3> QED BY <3>1, <3>4 DEF Store!Next
  <2> QED BY <2>3, <2>4
<1> QED BY <1>2, <1>3, <1>4, <1>5, StripSteps

\* Cleanup begins when the order is through.
LEMMA ToStrip ==
  ASSUME IInv, Next, pc[Main] # "strip", pc'[Main] = "strip"
  PROVE  ChallengeDone
<1>1. /\ ~Choose /\ ~SignalArrives /\ ~Crash /\ ~UserEdits
      /\ \A t \in Thread : ~CrashInRemoveAll(t)
  BY TypeParts, Contents DEF Choose, StartRun, Finish, BeginInstall, BeginAuthenticate,
    BeginRollback, SignalArrives, Crash, UserEdits, CrashInRemoveAll, Loop, Goto, Off, IInv,
    PlaceOK
<1>2. ~SignalStep /\ ~Restoring(Main)
  BY TypeParts, Contents DEF SignalStep, TakeRestore, Restoring, RestoreNew, RemoveDir,
    RestoreFails, RestoreFile, UnlinkNew, Loop, Goto, Off, IInv, PlaceOK
<1>3. ~MainStep
  BY <1>2, TypeParts, Contents DEF MainStep, DropCheckpoint, SaveCopies, SaveFails, SaveMark,
    SaveLine, WritesDone, ReloadWorks, ReloadFails, Fail, FillFile, WriteFile, WriteBack,
    ReadBack, ReadBackFails, StripsDone, TakeClean, Promote, Loop, Goto, IInv, PlaceOK
<1> QED BY <1>1, <1>2, <1>3 DEF Next

\* A rollback begins in verbs.Rollback only.
LEMMA ToRollback ==
  ASSUME IInv, Next, op # "rollback", op' = "rollback"
  PROVE  \E n \in 1..MaxRollback : BeginRollback(n)
<1>1. /\ ~ChallengeDone /\ ~SignalArrives /\ ~Crash /\ ~UserEdits
      /\ \A t \in Thread : ~CrashInRemoveAll(t)
  BY DEF ChallengeDone, SignalArrives, Crash, UserEdits, CrashInRemoveAll, Off, memory
<1>2. ~SignalStep /\ ~Restoring(Main)
  BY DEF SignalStep, TakeRestore, Restoring, RestoreNew, RemoveDir, RestoreFails, RestoreFile,
    UnlinkNew, Off, memory
<1>3. ~MainStep
  BY <1>2 DEF MainStep, DropCheckpoint, SaveCopies, SaveFails, SaveMark, SaveLine, WritesDone,
    ReloadWorks, ReloadFails, Fail, FillFile, WriteFile, WriteBack, ReadBack, ReadBackFails,
    StripsDone, TakeClean, Promote, memory
<1>4. Choose => \E n \in 1..MaxRollback : BeginRollback(n)
  BY Contents DEF Choose, StartRun, Finish, BeginInstall, BeginAuthenticate, Off
<1> QED BY <1>1, <1>2, <1>3, <1>4 DEF Next

\* While nothing is cleaned up, promoted or rolled back, the store stands still or the run
\* ends.
LEMMA StandsStill ==
  ASSUME IInv, Next, ~Promote, pc[Main] \notin {"off", "strip"}, op # "rollback",
         ~raced, ~cut, ~raced', ~cut'
  PROVE  Store!EndRun \/ UNCHANGED Store!vars
<1>1. undone.seen = {}
  BY DEF IInv, Phases
<1>2. CASE ChallengeDone
  <2>1. UNCHANGED <<file, dir, backups, open, undone>> /\ pc'[Main] # "off"
    BY <1>2, TypeParts, Contents DEF ChallengeDone, Loop, Goto, disk, IInv, PlaceOK
  <2> QED BY <2>1 DEF Store!vars, Settled, Recovered, Covered
<1>3. CASE ~ChallengeDone
  <2>1. pc'[Main] # "strip" /\ IInv' /\ ~UserEdits
    BY <1>3, ToStrip, NextInv DEF UserEdits
  <2>2. \A g \in File : Settled(g)' = Settled(g)
    <3>1. \A g \in File : Settled(g) = Recovered(g)
      BY SettledIs
    <3>2. \A g \in File : Settled(g)' = Recovered(g)'
      BY <2>1 DEF IInv, Working, Guarded, Settled
    <3>3. \A g \in File : Recovered(g)' = Recovered(g)
      BY <2>1, RecoveredStep
    <3> QED BY <3>1, <3>2, <3>3
  <2>3. backups' = backups
    <3>1. ~DropCheckpoint
      BY DEF DropCheckpoint
    <3>2. ASSUME NEW t \in Thread, CrashInRemoveAll(t) PROVE backups' = backups
      BY <3>2 DEF CrashInRemoveAll, Recovers
    <3> QED BY <3>1, <3>2, BackupsKept
  <2>4. undone'.seen = {}
    <3>1. CASE op' # "rollback"
      BY <2>1, <3>1 DEF IInv, Phases
    <3>2. CASE op' = "rollback"
      <4>1. \E n \in 1..MaxRollback : BeginRollback(n)
        BY <3>2, ToRollback
      <4> QED BY <4>1 DEF BeginRollback
    <3> QED BY <3>1, <3>2
  <2>5. CASE pc'[Main] = "off"
    BY <1>1, <2>2, <2>3, <2>4, <2>5 DEF Store!EndRun
  <2>6. CASE pc'[Main] # "off"
    BY <1>1, <2>2, <2>3, <2>4, <2>6 DEF Store!vars
  <2> QED BY <2>5, <2>6
<1> QED BY <1>2, <1>3

\* Runs change the configuration as a store does, all at once or not at all, and take
\* changes back the last one first; but for the tidying of a Cleanup, and where a signal's
\* goroutine gets in the way of the verb or a removal was cut short.
THEOREM Refinement == Spec => ImplementsConfigStore
<1>1. Init => Store!Init
  <2> SUFFICES ASSUME Init PROVE Store!Init
    OBVIOUS
  <2>1. \A f \in File : Settled(f) = file[f]
    BY DEF Init, Settled, Recovered, Covered
  <2>2. pc[Main] = "off" /\ undone.seen = {} /\ ~raced /\ ~cut
    BY DEF Init, Thread
  <2>3. Config = [f \in File |-> IF f \in Shipped THEN [text |-> 0, challenge |-> FALSE] ELSE None]
    BY <2>1 DEF Config, Init
  <2>4. Undo(backups) = <<>>
    <3>1. backups \in Seq(Directory) /\ Len(backups) = 0
      BY DEF Init
    <3>2. Undo(backups) \in Seq(Snapshots) /\ Len(Undo(backups)) = 0
      BY <3>1, UndoTyped
    <3> QED BY <3>2, EmptySeq
  <2> QED BY <2>2, <2>3, <2>4 DEF Store!Init, Config, Undo
<1>2. IInv /\ [Next]_vars => [Store!Next]_(Store!vars)
  <2> SUFFICES ASSUME IInv, [Next]_vars PROVE [Store!Next]_(Store!vars)
    OBVIOUS
  <2>1. CASE UNCHANGED vars
    BY <2>1 DEF vars, Store!vars, Settled, Recovered, Covered
  <2>2. CASE Next
    <3>1. CASE pc[Main] = "off"
      BY <2>2, <3>1, OffImplements
    <3>2. CASE pc[Main] # "off" /\ (raced \/ cut \/ raced' \/ cut')
      BY <3>2, DisturbedImplements
    <3>3. CASE Promote
      BY <3>3, PromoteImplements
    <3>4. CASE op = "rollback" /\ ~raced /\ ~cut /\ ~raced' /\ ~cut'
      BY <2>2, <3>4, RollbackImplements
    <3>5. CASE pc[Main] = "strip" /\ ~raced /\ ~cut /\ ~raced' /\ ~cut'
      BY <2>2, <3>5, StripImplements
    <3>6. CASE /\ pc[Main] \notin {"off", "strip"} /\ op # "rollback" /\ ~Promote
               /\ ~raced /\ ~cut /\ ~raced' /\ ~cut'
      BY <2>2, <3>6, StandsStill DEF Store!Next
    <3> QED BY <3>1, <3>2, <3>3, <3>4, <3>5, <3>6
  <2> QED BY <2>1, <2>2
<1> QED BY <1>1, <1>2, Inductive, PTL DEF Spec, ImplementsConfigStore, Store!Spec
=============================================================================
