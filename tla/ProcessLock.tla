---------------------------- MODULE ProcessLock ----------------------------
(***************************************************************************)
(* internal/processlock/processlock.go and its use in cmd.Main: every      *)
(* invocation of go-certbot (or of Certbot, which follows the same         *)
(* protocol) locks a `.certbot.lock` file in its config, work and logs     *)
(* directories, in that order, before it touches anything below them, and  *)
(* unlinks and closes the files when it returns.                           *)
(*                                                                         *)
(* One action is one system call.  The kernel's part is explicit: a name   *)
(* is linked to an inode or to nothing, an inode that is neither linked    *)
(* nor open may be reused, an fcntl lock belongs to a process and an       *)
(* inode, the owner may lock again, and closing ANY descriptor of an inode *)
(* drops the process's lock on it.                                         *)
(***************************************************************************)
EXTENDS Naturals

CONSTANTS
  Proc,      \* the processes that are ever started
  Path,      \* the directories (one lock file each)
  Inode,     \* the inodes lock files are made of
  N,         \* how many directories an invocation locks (3 in cmd.Main)
  Dirs,      \* Dirs[p][j]: the j-th directory process p locks
  None,      \* no inode, no owner
  MaxStarts  \* bound: how many times one process is started

ASSUME ProcessLockAssumption ==
  /\ N \in Nat \ {0}
  /\ MaxStarts \in Nat
  /\ Dirs \in [Proc -> [1..N -> Path]]
  /\ None \notin Inode
  /\ None \notin Proc

VARIABLES
  disk,   \* disk[d]: the inode linked as d/.certbot.lock, or None
  locker, \* locker[i]: the process that has the fcntl lock of inode i, or None
  pc,     \* pc[p]: the system call process p makes next
  idx,    \* idx[p]: the directory of Dirs[p] the loop is at
  fd,     \* fd[p][j]: the inode open for the j-th directory (Held.locks, and f)
  starts  \* starts[p]: how often p was started (bounded by MaxStarts)

vars == <<disk, locker, pc, idx, fd, starts>>

Acquiring == {"open", "lock", "check", "stale"}
Releasing == {"remove", "close"}

Init ==
  /\ disk = [d \in Path |-> None]
  /\ locker = [i \in Inode |-> None]
  /\ pc = [p \in Proc |-> "idle"]
  /\ idx = [p \in Proc |-> 1]
  /\ fd = [p \in Proc |-> [j \in 1..N |-> None]]
  /\ starts = [p \in Proc |-> 0]

-----------------------------------------------------------------------------
(* The kernel.                                                             *)

Lockfile(p) == Dirs[p][idx[p]]

InUse(i) ==
  \/ \E d \in Path : disk[d] = i
  \/ \E p \in Proc : \E j \in 1..N : fd[p][j] = i

\* close(2) of process p's j-th descriptor.
CloseFd(p, j) ==
  /\ locker' = [i \in Inode |-> IF i = fd[p][j] /\ locker[i] = p
                                  THEN None ELSE locker[i]]
  /\ fd' = [fd EXCEPT ![p][j] = None]

Goto(p, label) == pc' = [pc EXCEPT ![p] = label]

-----------------------------------------------------------------------------
(* AcquireDirs and tryAcquire.                                             *)

Start(p) ==
  /\ pc[p] = "idle"
  /\ starts[p] < MaxStarts
  /\ starts' = [starts EXCEPT ![p] = @ + 1]
  /\ idx' = [idx EXCEPT ![p] = 1]
  /\ Goto(p, "open")
  /\ UNCHANGED <<disk, locker, fd>>

\* An error of AcquireDirs: Release what is held, from the first lock on.
GiveUp(p) == Goto(p, "remove") /\ idx' = [idx EXCEPT ![p] = 1]

\* OpenFile(path, O_RDWR|O_CREATE).
Open(p) ==
  /\ pc[p] = "open"
  /\ \E i \in Inode :
       /\ IF disk[Lockfile(p)] = None THEN ~InUse(i) ELSE i = disk[Lockfile(p)]
       /\ disk' = [disk EXCEPT ![Lockfile(p)] = i]
       /\ fd' = [fd EXCEPT ![p][idx[p]] = i]
  /\ Goto(p, "lock")
  /\ UNCHANGED <<locker, idx, starts>>

\* MkdirAll or OpenFile fails (permissions, read-only file system).
OpenFails(p) ==
  /\ pc[p] = "open"
  /\ GiveUp(p)
  /\ UNCHANGED <<disk, locker, fd, starts>>

\* F_SETLK succeeds: nobody has the lock, or this very process has it.
Lock(p) ==
  /\ pc[p] = "lock"
  /\ locker[fd[p][idx[p]]] \in {None, p}
  /\ locker' = [locker EXCEPT ![fd[p][idx[p]]] = p]
  /\ Goto(p, "check")
  /\ UNCHANGED <<disk, idx, fd, starts>>

\* Slip: a refused lock is tried again instead of reported.
LockRefusedRetries(p) ==
  /\ pc[p] = "lock"
  /\ locker[fd[p][idx[p]]] \notin {None, p}
  /\ CloseFd(p, idx[p])
  /\ Goto(p, "open")
  /\ UNCHANGED <<disk, idx, starts>>

\* F_SETLK fails with EAGAIN: "another instance of Certbot is already running".
LockRefused(p) ==
  /\ pc[p] = "lock"
  /\ locker[fd[p][idx[p]]] \notin {None, p}
  /\ CloseFd(p, idx[p])
  /\ GiveUp(p)
  /\ UNCHANGED <<disk, starts>>

\* Another error of fcntl, or of the stat that follows: the descriptor is closed.
SystemCallFails(p) ==
  /\ pc[p] \in {"lock", "check"}
  /\ CloseFd(p, idx[p])
  /\ GiveUp(p)
  /\ UNCHANGED <<disk, starts>>

\* Slips: no recheck; a recheck that any file of that name passes.
FreshUnchecked(p) == TRUE
FreshByName(p) == disk[Lockfile(p)] # None

\* The name still leads to the inode this process has locked.
Fresh(p) == disk[Lockfile(p)] = fd[p][idx[p]]

\* stat and fstat agree: the lock counts, on to the next directory.
CheckFresh(p) ==
  /\ pc[p] = "check"
  /\ Fresh(p)
  /\ idx' = [idx EXCEPT ![p] = @ + 1]
  /\ Goto(p, IF idx[p] = N THEN "running" ELSE "open")
  /\ UNCHANGED <<disk, locker, fd, starts>>

\* stat sees ENOENT or another inode: the lock is on an orphan.
CheckStale(p) ==
  /\ pc[p] = "check"
  /\ ~Fresh(p)
  /\ Goto(p, "stale")
  /\ UNCHANGED <<disk, locker, idx, fd, starts>>

\* Close the orphan and try again with a fresh open.
Retry(p) ==
  /\ pc[p] = "stale"
  /\ CloseFd(p, idx[p])
  /\ Goto(p, "open")
  /\ UNCHANGED <<disk, idx, starts>>

-----------------------------------------------------------------------------
(* Release, deferred by cmd.Main and called by AcquireDirs on an error.    *)

Finish(p) ==
  /\ pc[p] = "running"
  /\ GiveUp(p)
  /\ UNCHANGED <<disk, locker, fd, starts>>

\* The locks not yet released are those from idx[p] on.
LeftToRelease(p) == idx[p] <= N /\ fd[p][idx[p]] # None

Remove(p) ==
  /\ pc[p] = "remove"
  /\ LeftToRelease(p)
  /\ disk' = [disk EXCEPT ![Lockfile(p)] = None]
  /\ Goto(p, "close")
  /\ UNCHANGED <<locker, idx, fd, starts>>

\* Slip: Release walks backwards from the first lock.
CloseBackwards(p) ==
  /\ pc[p] = "close"
  /\ CloseFd(p, idx[p])
  /\ idx' = [idx EXCEPT ![p] = @ - 1]
  /\ Goto(p, "remove")
  /\ UNCHANGED <<disk, starts>>

Close(p) ==
  /\ pc[p] = "close"
  /\ CloseFd(p, idx[p])
  /\ idx' = [idx EXCEPT ![p] = @ + 1]
  /\ Goto(p, "remove")
  /\ UNCHANGED <<disk, starts>>

Released(p) ==
  /\ pc[p] = "remove"
  /\ ~LeftToRelease(p)
  /\ Goto(p, "idle")
  /\ UNCHANGED <<disk, locker, idx, fd, starts>>

\* The process is killed: the kernel closes everything, the names stay.
Crash(p) ==
  /\ pc[p] # "idle"
  /\ locker' = [i \in Inode |-> IF locker[i] = p THEN None ELSE locker[i]]
  /\ fd' = [fd EXCEPT ![p] = [j \in 1..N |-> None]]
  /\ Goto(p, "idle")
  /\ UNCHANGED <<disk, idx, starts>>

-----------------------------------------------------------------------------
\* What the process does by itself once it was started.
Step(p) ==
  \/ Open(p) \/ OpenFails(p) \/ Lock(p) \/ LockRefused(p)
  \/ SystemCallFails(p) \/ CheckFresh(p) \/ CheckStale(p) \/ Retry(p)
  \/ Remove(p) \/ Close(p) \/ Released(p)

Next == \E p \in Proc : Start(p) \/ Step(p) \/ Finish(p) \/ Crash(p)

Spec == Init /\ [][Next]_vars

\* A started invocation is scheduled; nobody has to start it, end it or kill it.
Fairness == \A p \in Proc : WF_vars(Step(p))

FairSpec == Spec /\ Fairness
-----------------------------------------------------------------------------
(* Properties.                                                             *)

\* The j-th lock of p counts: checked, and its name not yet unlinked by p.
Holds(p, j) ==
  \/ pc[p] \in Acquiring \cup {"running"} /\ j < idx[p]
  \/ pc[p] = "remove" /\ j >= idx[p] /\ fd[p][j] # None
  \/ pc[p] = "close" /\ j > idx[p] /\ fd[p][j] # None

Holders(d) == {p \in Proc : \E j \in 1..N : Holds(p, j) /\ Dirs[p][j] = d}

TypeOK ==
  /\ disk \in [Path -> Inode \cup {None}]
  /\ locker \in [Inode -> Proc \cup {None}]
  /\ pc \in [Proc -> {"idle", "running"} \cup Acquiring \cup Releasing]
  /\ idx \in [Proc -> 1..(N + 1)]
  /\ fd \in [Proc -> [1..N -> Inode \cup {None}]]
  /\ starts \in [Proc -> Nat]

\* No directory is ever in the hands of two processes, however their opens,
\* locks, rechecks, unlinks, closes and deaths interleave (AcquireDirs,
\* tryAcquire, Release).
MutualExclusion == \A d \in Path : \A p, q \in Holders(d) : p = q

\* No process names one directory twice.
DirsDistinct ==
  \A p \in Proc : \A j, k \in 1..N : Dirs[p][j] = Dirs[p][k] => j = k

\* Why the protocol excludes, one step at a time.  A lock that counts is on the
\* inode its name leads to; a descriptor being locked or closed is of an inode
\* that no other name leads to; what the loops have not reached is closed.
HeldIsLinked ==
  \A p \in Proc : \A j \in 1..N : Holds(p, j) =>
    /\ fd[p][j] # None
    /\ disk[Dirs[p][j]] = fd[p][j]
    /\ locker[fd[p][j]] = p

NoHardLinks ==
  \A d, e \in Path : disk[d] # None /\ disk[d] = disk[e] => d = e

CurrentDescriptor ==
  \A p \in Proc :
    /\ pc[p] \in {"lock", "check", "stale"} =>
         \A d \in Path : disk[d] = fd[p][idx[p]] => d = Lockfile(p)
    /\ pc[p] = "check" => locker[fd[p][idx[p]]] = p
    /\ pc[p] = "close" => \A d \in Path : disk[d] # fd[p][idx[p]]

LoopAt(p) ==
  /\ pc[p] \in Acquiring \cup {"close"} => idx[p] \in 1..N
  /\ pc[p] = "running" => idx[p] = N + 1
  /\ pc[p] = "idle" => \A j \in 1..N : fd[p][j] = None
  /\ pc[p] = "open" => fd[p][idx[p]] = None
  /\ pc[p] \in {"lock", "check", "stale", "close"} => fd[p][idx[p]] # None
  /\ pc[p] \in Acquiring \cup {"running"} =>
       \A j \in 1..N : (j < idx[p] => fd[p][j] # None)
                    /\ (j > idx[p] => fd[p][j] = None)
  /\ pc[p] \in Releasing =>
       /\ \A j \in 1..N : j < idx[p] => fd[p][j] = None
       /\ \A j, k \in 1..N :
            idx[p] <= j /\ j < k /\ fd[p][k] # None => fd[p][j] # None

LoopPosition == \A p \in Proc : LoopAt(p)

LockInv == HeldIsLinked /\ NoHardLinks /\ CurrentDescriptor /\ LoopPosition

\* The owner table the lock protocol implements.
OwnerOf(d) == IF Holders(d) = {} THEN None ELSE CHOOSE p \in Holders(d) : TRUE
Table == INSTANCE LockTable WITH owner <- [d \in Path |-> OwnerOf(d)],
                                 Nobody <- None

\* The protocol implements the table: a directory passes from one process to
\* another only through nobody's hands, and is never taken by two.
ImplementsLockTable == Table!Spec

\* Nobody waits for anybody: with finitely many invocations, every one that
\* starts comes to hold all of its directories or to give up (LOCK_NB, and
\* the retry loop of tryAcquire ends).
EveryStartDecided ==
  \A p \in Proc : pc[p] \in Acquiring ~> pc[p] \in {"running", "idle"}
=============================================================================
