------------------------- MODULE ProcessLock_proofs -------------------------
(***************************************************************************)
(* Proofs about ProcessLock: for any number of processes, directories and  *)
(* inodes, a directory is never in the hands of two processes, provided no *)
(* process names one directory twice, and the protocol implements          *)
(* LockTable.                                                              *)
(***************************************************************************)
EXTENDS ProcessLock, TLAPS

-----------------------------------------------------------------------------
\* The types need to know where the loops are: idx[p] is a valid index of
\* Dirs[p] whenever it is used as one.
TypeInv == TypeOK /\ LoopPosition

\* Init gives every variable a value of its type, and no loop has begun.
LEMMA InitTypeInv == Init => TypeInv
  BY ProcessLockAssumption
     DEF Init, TypeInv, TypeOK, LoopPosition, LoopAt, Acquiring, Releasing

\* Every step of every process keeps the types and the loop positions.
LEMMA NextTypeInv == TypeInv /\ [Next]_vars => TypeInv'
  <1> SUFFICES ASSUME TypeInv, [Next]_vars PROVE TypeInv'
    OBVIOUS
  <1> USE ProcessLockAssumption DEF TypeInv, TypeOK, LoopPosition, Goto, GiveUp,
                                    CloseFd, Acquiring, Releasing, Lockfile
  <1>1. ASSUME NEW p \in Proc, Start(p) PROVE TypeInv'
    <2>1. TypeOK'
      BY <1>1 DEF Start, LoopAt
    <2>2. LoopAt(p)'
      BY <1>1 DEF Start, LoopAt
    <2>3. ASSUME NEW q \in Proc \ {p} PROVE LoopAt(q)'
      BY <1>1 DEF Start, LoopAt
    <2>4. QED
      BY <2>1, <2>2, <2>3
  <1>2. ASSUME NEW p \in Proc, Open(p) PROVE TypeInv'
    <2>1. TypeOK'
      BY <1>2 DEF Open, LoopAt
    <2>2. LoopAt(p)'
      BY <1>2 DEF Open, LoopAt
    <2>3. ASSUME NEW q \in Proc \ {p} PROVE LoopAt(q)'
      BY <1>2 DEF Open, LoopAt
    <2>4. QED
      BY <2>1, <2>2, <2>3
  <1>3. ASSUME NEW p \in Proc, OpenFails(p) PROVE TypeInv'
    <2>1. TypeOK'
      BY <1>3 DEF OpenFails, LoopAt
    <2>2. LoopAt(p)'
      BY <1>3 DEF OpenFails, LoopAt
    <2>3. ASSUME NEW q \in Proc \ {p} PROVE LoopAt(q)'
      BY <1>3 DEF OpenFails, LoopAt
    <2>4. QED
      BY <2>1, <2>2, <2>3
  <1>4. ASSUME NEW p \in Proc, Lock(p) PROVE TypeInv'
    <2>1. TypeOK'
      BY <1>4 DEF Lock, LoopAt
    <2>2. LoopAt(p)'
      BY <1>4 DEF Lock, LoopAt
    <2>3. ASSUME NEW q \in Proc \ {p} PROVE LoopAt(q)'
      BY <1>4 DEF Lock, LoopAt
    <2>4. QED
      BY <2>1, <2>2, <2>3
  <1>5. ASSUME NEW p \in Proc, LockRefused(p) PROVE TypeInv'
    <2>1. TypeOK'
      BY <1>5 DEF LockRefused, LoopAt
    <2>2. LoopAt(p)'
      BY <1>5 DEF LockRefused, LoopAt
    <2>3. ASSUME NEW q \in Proc \ {p} PROVE LoopAt(q)'
      BY <1>5 DEF LockRefused, LoopAt
    <2>4. QED
      BY <2>1, <2>2, <2>3
  <1>20. ASSUME NEW p \in Proc, SystemCallFails(p) PROVE TypeInv'
    <2>1. TypeOK'
      BY <1>20 DEF SystemCallFails, LoopAt
    <2>2. LoopAt(p)'
      BY <1>20 DEF SystemCallFails, LoopAt
    <2>3. ASSUME NEW q \in Proc \ {p} PROVE LoopAt(q)'
      BY <1>20 DEF SystemCallFails, LoopAt
    <2>4. QED
      BY <2>1, <2>2, <2>3
  <1>6. ASSUME NEW p \in Proc, CheckFresh(p) PROVE TypeInv'
    <2>1. TypeOK'
      BY <1>6 DEF CheckFresh, LoopAt, Fresh
    <2>2. LoopAt(p)'
      BY <1>6 DEF CheckFresh, LoopAt, Fresh
    <2>3. ASSUME NEW q \in Proc \ {p} PROVE LoopAt(q)'
      BY <1>6 DEF CheckFresh, LoopAt
    <2>4. QED
      BY <2>1, <2>2, <2>3
  <1>7. ASSUME NEW p \in Proc, CheckStale(p) PROVE TypeInv'
    <2>1. TypeOK'
      BY <1>7 DEF CheckStale, LoopAt
    <2>2. LoopAt(p)'
      BY <1>7 DEF CheckStale, LoopAt
    <2>3. ASSUME NEW q \in Proc \ {p} PROVE LoopAt(q)'
      BY <1>7 DEF CheckStale, LoopAt
    <2>4. QED
      BY <2>1, <2>2, <2>3
  <1>8. ASSUME NEW p \in Proc, Retry(p) PROVE TypeInv'
    <2>1. TypeOK'
      BY <1>8 DEF Retry, LoopAt
    <2>2. LoopAt(p)'
      BY <1>8 DEF Retry, LoopAt
    <2>3. ASSUME NEW q \in Proc \ {p} PROVE LoopAt(q)'
      BY <1>8 DEF Retry, LoopAt
    <2>4. QED
      BY <2>1, <2>2, <2>3
  <1>9. ASSUME NEW p \in Proc, Finish(p) PROVE TypeInv'
    <2>1. TypeOK'
      BY <1>9 DEF Finish, LoopAt
    <2>2. LoopAt(p)'
      BY <1>9 DEF Finish, LoopAt
    <2>3. ASSUME NEW q \in Proc \ {p} PROVE LoopAt(q)'
      BY <1>9 DEF Finish, LoopAt
    <2>4. QED
      BY <2>1, <2>2, <2>3
  <1>10. ASSUME NEW p \in Proc, Remove(p) PROVE TypeInv'
    <2>1. TypeOK'
      BY <1>10 DEF Remove, LoopAt, LeftToRelease
    <2>2. LoopAt(p)'
      BY <1>10 DEF Remove, LoopAt, LeftToRelease
    <2>3. ASSUME NEW q \in Proc \ {p} PROVE LoopAt(q)'
      BY <1>10 DEF Remove, LoopAt
    <2>4. QED
      BY <2>1, <2>2, <2>3
  <1>11. ASSUME NEW p \in Proc, Close(p) PROVE TypeInv'
    <2>1. TypeOK'
      BY <1>11 DEF Close, LoopAt
    <2>2. LoopAt(p)'
      BY <1>11 DEF Close, LoopAt
    <2>3. ASSUME NEW q \in Proc \ {p} PROVE LoopAt(q)'
      BY <1>11 DEF Close, LoopAt
    <2>4. QED
      BY <2>1, <2>2, <2>3
  <1>12. ASSUME NEW p \in Proc, Released(p) PROVE TypeInv'
    <2>1. TypeOK'
      BY <1>12 DEF Released, LoopAt, LeftToRelease
    <2>2. LoopAt(p)'
      BY <1>12 DEF Released, LoopAt, LeftToRelease
    <2>3. ASSUME NEW q \in Proc \ {p} PROVE LoopAt(q)'
      BY <1>12 DEF Released, LoopAt
    <2>4. QED
      BY <2>1, <2>2, <2>3
  <1>13. ASSUME NEW p \in Proc, Crash(p) PROVE TypeInv'
    <2>1. TypeOK'
      BY <1>13 DEF Crash, LoopAt
    <2>2. LoopAt(p)'
      BY <1>13 DEF Crash, LoopAt
    <2>3. ASSUME NEW q \in Proc \ {p} PROVE LoopAt(q)'
      BY <1>13 DEF Crash, LoopAt
    <2>4. QED
      BY <2>1, <2>2, <2>3
  <1>14. CASE UNCHANGED vars
    BY <1>14 DEF vars, LoopAt
  <1>15. QED
    BY <1>1, <1>2, <1>3, <1>4, <1>5, <1>6, <1>7, <1>8, <1>9, <1>10, <1>11, <1>20,
       <1>12, <1>13, <1>14 DEF Next, Step

\* Type correctness of the lock protocol, however the processes interleave.
THEOREM TypeCorrect == Spec => []TypeOK
  <1>1. TypeInv => TypeOK
    BY DEF TypeInv
  <1>2. QED
    BY InitTypeInv, NextTypeInv, <1>1, PTL DEF Spec
-----------------------------------------------------------------------------
(***************************************************************************)
(* The exclusion argument.  A lock that counts is on the inode its name    *)
(* leads to (HeldIsLinked), and an inode has one owner, so a name has one  *)
(* holder.  What could break it is an unlink by somebody else (only a      *)
(* holder unlinks), or the kernel's habit of dropping a lock when another  *)
(* descriptor of the same inode is closed: CurrentDescriptor says that     *)
(* the descriptor a process closes is of no inode it still needs, which is *)
(* where DirsDistinct comes in.                                            *)
(***************************************************************************)

\* Nothing is linked, open or locked at first.
LEMMA InitLockInv == Init => LockInv
  <1> SUFFICES ASSUME Init PROVE LockInv
    OBVIOUS
  <1>1. LoopPosition
    BY InitTypeInv DEF TypeInv
  <1>2. QED
    BY <1>1, ProcessLockAssumption
       DEF Init, LockInv, HeldIsLinked, Holds, NoHardLinks, CurrentDescriptor,
           Acquiring

\* Every step keeps the exclusion argument.
LEMMA NextLockInv ==
  ASSUME DirsDistinct, TypeInv, LockInv, [Next]_vars
  PROVE  LockInv'
  <1> USE ProcessLockAssumption DEF TypeInv, TypeOK, Goto, GiveUp, CloseFd,
                                    Acquiring, Releasing, Lockfile,
                                    LockInv, HeldIsLinked, Holds, NoHardLinks,
                                    CurrentDescriptor, LoopPosition, LoopAt,
                                    DirsDistinct
  <1>0. LoopPosition' /\ TypeOK'
    BY NextTypeInv
  <1>1. ASSUME NEW p \in Proc, Start(p) PROVE LockInv'
    <2>1. NoHardLinks'
      BY <1>1 DEF Start
    <2>2. ASSUME NEW q \in Proc, NEW j \in 1..N, Holds(q, j)'
          PROVE (/\ fd[q][j] # None
                 /\ disk[Dirs[q][j]] = fd[q][j]
                 /\ locker[fd[q][j]] = q)'
      BY <1>1, <2>2 DEF Start
    <2>3. CurrentDescriptor'
      BY <1>1 DEF Start
    <2>4. QED
      BY <1>0, <2>1, <2>2, <2>3
  <1>2. ASSUME NEW p \in Proc, Open(p) PROVE LockInv'
    <2>1. NoHardLinks'
      BY <1>2 DEF Open, InUse
    <2>2. ASSUME NEW q \in Proc, NEW j \in 1..N, Holds(q, j)'
          PROVE (/\ fd[q][j] # None
                 /\ disk[Dirs[q][j]] = fd[q][j]
                 /\ locker[fd[q][j]] = q)'
      BY <1>2, <2>2 DEF Open, InUse
    <2>3. CurrentDescriptor'
      BY <1>2 DEF Open, InUse
    <2>4. QED
      BY <1>0, <2>1, <2>2, <2>3
  <1>3. ASSUME NEW p \in Proc, OpenFails(p) PROVE LockInv'
    <2>1. NoHardLinks'
      BY <1>3 DEF OpenFails
    <2>2. ASSUME NEW q \in Proc, NEW j \in 1..N, Holds(q, j)'
          PROVE (/\ fd[q][j] # None
                 /\ disk[Dirs[q][j]] = fd[q][j]
                 /\ locker[fd[q][j]] = q)'
      BY <1>3, <2>2 DEF OpenFails
    <2>3. CurrentDescriptor'
      BY <1>3 DEF OpenFails
    <2>4. QED
      BY <1>0, <2>1, <2>2, <2>3
  <1>4. ASSUME NEW p \in Proc, Lock(p) PROVE LockInv'
    <2>1. NoHardLinks'
      BY <1>4 DEF Lock
    <2>2. ASSUME NEW q \in Proc, NEW j \in 1..N, Holds(q, j)'
          PROVE (/\ fd[q][j] # None
                 /\ disk[Dirs[q][j]] = fd[q][j]
                 /\ locker[fd[q][j]] = q)'
      BY <1>4, <2>2 DEF Lock
    <2>3. CurrentDescriptor'
      BY <1>4 DEF Lock
    <2>4. QED
      BY <1>0, <2>1, <2>2, <2>3
  <1>5. ASSUME NEW p \in Proc, LockRefused(p) PROVE LockInv'
    <2>1. NoHardLinks'
      BY <1>5 DEF LockRefused
    <2>2. ASSUME NEW q \in Proc, NEW j \in 1..N, Holds(q, j)'
          PROVE (/\ fd[q][j] # None
                 /\ disk[Dirs[q][j]] = fd[q][j]
                 /\ locker[fd[q][j]] = q)'
      BY <1>5, <2>2 DEF LockRefused
    <2>3. CurrentDescriptor'
      BY <1>5 DEF LockRefused
    <2>4. QED
      BY <1>0, <2>1, <2>2, <2>3
  <1>20. ASSUME NEW p \in Proc, SystemCallFails(p) PROVE LockInv'
    <2>1. NoHardLinks'
      BY <1>20 DEF SystemCallFails
    <2>2. ASSUME NEW q \in Proc, NEW j \in 1..N, Holds(q, j)'
          PROVE (/\ fd[q][j] # None
                 /\ disk[Dirs[q][j]] = fd[q][j]
                 /\ locker[fd[q][j]] = q)'
      BY <1>20, <2>2 DEF SystemCallFails
    <2>3. CurrentDescriptor'
      BY <1>20 DEF SystemCallFails
    <2>4. QED
      BY <1>0, <2>1, <2>2, <2>3
  <1>6. ASSUME NEW p \in Proc, CheckFresh(p) PROVE LockInv'
    <2>1. NoHardLinks'
      BY <1>6 DEF CheckFresh, Fresh
    <2>2. ASSUME NEW q \in Proc, NEW j \in 1..N, Holds(q, j)'
          PROVE (/\ fd[q][j] # None
                 /\ disk[Dirs[q][j]] = fd[q][j]
                 /\ locker[fd[q][j]] = q)'
      BY <1>6, <2>2 DEF CheckFresh, Fresh
    <2>3. CurrentDescriptor'
      BY <1>6 DEF CheckFresh, Fresh
    <2>4. QED
      BY <1>0, <2>1, <2>2, <2>3
  <1>7. ASSUME NEW p \in Proc, CheckStale(p) PROVE LockInv'
    <2>1. NoHardLinks'
      BY <1>7 DEF CheckStale, Fresh
    <2>2. ASSUME NEW q \in Proc, NEW j \in 1..N, Holds(q, j)'
          PROVE (/\ fd[q][j] # None
                 /\ disk[Dirs[q][j]] = fd[q][j]
                 /\ locker[fd[q][j]] = q)'
      BY <1>7, <2>2 DEF CheckStale, Fresh
    <2>3. CurrentDescriptor'
      BY <1>7 DEF CheckStale, Fresh
    <2>4. QED
      BY <1>0, <2>1, <2>2, <2>3
  <1>8. ASSUME NEW p \in Proc, Retry(p) PROVE LockInv'
    <2>1. NoHardLinks'
      BY <1>8 DEF Retry
    <2>2. ASSUME NEW q \in Proc, NEW j \in 1..N, Holds(q, j)'
          PROVE (/\ fd[q][j] # None
                 /\ disk[Dirs[q][j]] = fd[q][j]
                 /\ locker[fd[q][j]] = q)'
      BY <1>8, <2>2 DEF Retry
    <2>3. CurrentDescriptor'
      BY <1>8 DEF Retry
    <2>4. QED
      BY <1>0, <2>1, <2>2, <2>3
  <1>9. ASSUME NEW p \in Proc, Finish(p) PROVE LockInv'
    <2>1. NoHardLinks'
      BY <1>9 DEF Finish
    <2>2. ASSUME NEW q \in Proc, NEW j \in 1..N, Holds(q, j)'
          PROVE (/\ fd[q][j] # None
                 /\ disk[Dirs[q][j]] = fd[q][j]
                 /\ locker[fd[q][j]] = q)'
      BY <1>9, <2>2 DEF Finish
    <2>3. CurrentDescriptor'
      BY <1>9 DEF Finish
    <2>4. QED
      BY <1>0, <2>1, <2>2, <2>3
  <1>10. ASSUME NEW p \in Proc, Remove(p) PROVE LockInv'
    <2>1. NoHardLinks'
      BY <1>10 DEF Remove, LeftToRelease
    <2>2. ASSUME NEW q \in Proc, NEW j \in 1..N, Holds(q, j)'
          PROVE (/\ fd[q][j] # None
                 /\ disk[Dirs[q][j]] = fd[q][j]
                 /\ locker[fd[q][j]] = q)'
      <3>1. Holds(p, idx[p]) /\ idx[p] \in 1..N
        BY <1>10 DEF Remove, LeftToRelease
      <3>2. Holds(q, j) /\ (q = p => j # idx[p])
        BY <1>10, <2>2 DEF Remove
      <3>3. disk[Lockfile(p)] = fd[p][idx[p]] /\ locker[fd[p][idx[p]]] = p
        BY <3>1
      <3>4. /\ fd[q][j] # None
            /\ disk[Dirs[q][j]] = fd[q][j]
            /\ locker[fd[q][j]] = q
        BY <3>2
      <3>5. Dirs[q][j] # Lockfile(p)
        <4>1. CASE q = p
          BY <4>1, <3>1, <3>2
        <4>2. CASE q # p
          BY <4>2, <3>3, <3>4
        <4>3. QED
          BY <4>1, <4>2
      <3>6. QED
        BY <1>10, <3>4, <3>5 DEF Remove
    <2>3. CurrentDescriptor'
      BY <1>10 DEF Remove, LeftToRelease
    <2>4. QED
      BY <1>0, <2>1, <2>2, <2>3
  <1>11. ASSUME NEW p \in Proc, Close(p) PROVE LockInv'
    <2>1. NoHardLinks'
      BY <1>11 DEF Close
    <2>2. ASSUME NEW q \in Proc, NEW j \in 1..N, Holds(q, j)'
          PROVE (/\ fd[q][j] # None
                 /\ disk[Dirs[q][j]] = fd[q][j]
                 /\ locker[fd[q][j]] = q)'
      BY <1>11, <2>2 DEF Close
    <2>3. CurrentDescriptor'
      BY <1>11 DEF Close
    <2>4. QED
      BY <1>0, <2>1, <2>2, <2>3
  <1>12. ASSUME NEW p \in Proc, Released(p) PROVE LockInv'
    <2>1. NoHardLinks'
      BY <1>12 DEF Released, LeftToRelease
    <2>2. ASSUME NEW q \in Proc, NEW j \in 1..N, Holds(q, j)'
          PROVE (/\ fd[q][j] # None
                 /\ disk[Dirs[q][j]] = fd[q][j]
                 /\ locker[fd[q][j]] = q)'
      BY <1>12, <2>2 DEF Released, LeftToRelease
    <2>3. CurrentDescriptor'
      BY <1>12 DEF Released, LeftToRelease
    <2>4. QED
      BY <1>0, <2>1, <2>2, <2>3
  <1>13. ASSUME NEW p \in Proc, Crash(p) PROVE LockInv'
    <2>1. NoHardLinks'
      BY <1>13 DEF Crash
    <2>2. ASSUME NEW q \in Proc, NEW j \in 1..N, Holds(q, j)'
          PROVE (/\ fd[q][j] # None
                 /\ disk[Dirs[q][j]] = fd[q][j]
                 /\ locker[fd[q][j]] = q)'
      BY <1>13, <2>2 DEF Crash
    <2>3. CurrentDescriptor'
      BY <1>13 DEF Crash
    <2>4. QED
      BY <1>0, <2>1, <2>2, <2>3
  <1>14. CASE UNCHANGED vars
    BY <1>0, <1>14 DEF vars
  <1>15. QED
    BY <1>1, <1>2, <1>3, <1>4, <1>5, <1>6, <1>7, <1>8, <1>9, <1>10, <1>11, <1>20,
       <1>12, <1>13, <1>14 DEF Next, Step

\* MutualExclusion of the lock protocol, for every number of processes and
\* directories and every interleaving, provided the directories one process
\* locks are pairwise different.
THEOREM Exclusion ==
  ASSUME DirsDistinct
  PROVE  Spec => []MutualExclusion
  <1>1. Init => TypeInv /\ LockInv
    BY InitTypeInv, InitLockInv
  <1>2. TypeInv /\ LockInv /\ [Next]_vars => (TypeInv /\ LockInv)'
    BY NextTypeInv, NextLockInv
  <1>3. LockInv => MutualExclusion
    BY DEF LockInv, HeldIsLinked, MutualExclusion, Holders
  <1>4. QED
    BY <1>1, <1>2, <1>3, PTL DEF Spec
-----------------------------------------------------------------------------
(***************************************************************************)
(* The protocol implements the owner table: passing the recheck of a       *)
(* directory is a grant, unlinking its lock file or dying gives it back,   *)
(* and every other system call leaves the table alone.                     *)
(***************************************************************************)

\* A directory's owner in the table is the process whose lock on it counts.
LEMMA OwnerIsHolder ==
  ASSUME LockInv, NEW d \in Path
  PROVE  /\ Holders(d) = {} => OwnerOf(d) = None
         /\ \A p \in Holders(d) : OwnerOf(d) = p
  <1>1. \A p, q \in Holders(d) : p = q
    BY DEF LockInv, HeldIsLinked, Holders
  <1>2. QED
    BY <1>1 DEF OwnerOf

\* The owner of a directory depends on its holders alone.
LEMMA SameOwner ==
  ASSUME LockInv, NEW d \in Path, Holders(d)' = Holders(d)
  PROVE  OwnerOf(d)' = OwnerOf(d)
  <1>1. CASE Holders(d) = {}
    BY <1>1 DEF OwnerOf
  <1>2. ASSUME NEW p \in Holders(d) PROVE OwnerOf(d)' = OwnerOf(d)
    <2>1. Holders(d) = {p}
      BY DEF LockInv, HeldIsLinked, Holders
    <2>2. OwnerOf(d) = p /\ OwnerOf(d)' = p
      BY <2>1 DEF OwnerOf
    <2>3. QED
      BY <2>2
  <1>3. QED
    BY <1>1, <1>2

\* Passing the recheck adds one lock, to a directory that had none that counts.
LEMMA CheckFreshGrants ==
  ASSUME DirsDistinct, TypeInv, LockInv, LockInv',
         NEW p \in Proc, CheckFresh(p),
         NEW i \in 1..N, i = idx[p], NEW e \in Path, e = Dirs[p][i]
  PROVE  Table!Grant(p, e)
  <1> USE ProcessLockAssumption DEF TypeInv, TypeOK, LoopPosition, LoopAt,
                                    Acquiring, Releasing
  <1>1. \A q \in Proc, j \in 1..N :
          Holds(q, j)' <=> Holds(q, j) \/ (q = p /\ j = i)
    BY DEF CheckFresh, Goto, Holds
  <1>2. Holders(e) = {}
    <2>1. SUFFICES ASSUME NEW q \in Proc, NEW j \in 1..N, Holds(q, j),
                          Dirs[q][j] = e
                   PROVE FALSE
      BY DEF Holders
    <2>2. locker[fd[p][i]] = p /\ disk[e] = fd[p][i]
      BY DEF CheckFresh, Fresh, LockInv, CurrentDescriptor, Lockfile
    <2>3. locker[fd[q][j]] = q /\ disk[Dirs[q][j]] = fd[q][j]
      BY <2>1 DEF LockInv, HeldIsLinked
    <2>4. q = p /\ j = i
      BY <2>1, <2>2, <2>3 DEF DirsDistinct
    <2>5. QED
      BY <2>1, <2>4 DEF Holds, CheckFresh
  <1>3. Holders(e)' = {p}
    BY <1>1, <1>2 DEF Holders
  <1>4. \A d \in Path : d # e => Holders(d)' = Holders(d)
    BY <1>1 DEF Holders
  <1>5. OwnerOf(e) = None
    BY <1>2 DEF OwnerOf
  <1>6. OwnerOf(e)' = p
    BY <1>3 DEF OwnerOf
  <1>7. \A d \in Path : d # e => OwnerOf(d)' = OwnerOf(d)
    BY <1>4, SameOwner
  <1>8. QED
    BY <1>5, <1>6, <1>7 DEF Table!Grant

\* A step after which p holds fewer directories, and everybody else the same,
\* gives those directories back.
LEMMA DroppingGivesBack ==
  ASSUME LockInv, NEW p \in Proc,
         \A d \in Path : Holders(d)' = Holders(d) \/ Holders(d)' = Holders(d) \ {p}
  PROVE  \E D \in SUBSET Path : Table!GiveBack(p, D)
  <1> DEFINE D == {d \in Path : Holders(d)' # Holders(d)}
  <1>1. ASSUME NEW d \in Path, d \in D PROVE OwnerOf(d) = p /\ OwnerOf(d)' = None
    <2>1. p \in Holders(d) /\ Holders(d)' = Holders(d) \ {p}
      BY <1>1
    <2>2. OwnerOf(d) = p /\ Holders(d)' = {}
      BY <2>1, OwnerIsHolder DEF LockInv, HeldIsLinked, Holders
    <2>3. QED
      BY <2>2 DEF OwnerOf
  <1>2. ASSUME NEW d \in Path, d \notin D PROVE OwnerOf(d)' = OwnerOf(d)
    BY <1>2, SameOwner
  <1>3. Table!GiveBack(p, D)
    BY <1>1, <1>2 DEF Table!GiveBack
  <1>4. QED
    BY <1>3

\* A step that does not change which locks count does not change the table.
LEMMA KeepingIsStuttering ==
  ASSUME LockInv, \A d \in Path : Holders(d)' = Holders(d)
  PROVE  UNCHANGED [d \in Path |-> OwnerOf(d)]
  BY SameOwner

\* Every step of the protocol is a step of the table or leaves it alone.
LEMMA StepRefines ==
  ASSUME DirsDistinct, TypeInv, LockInv, LockInv', [Next]_vars
  PROVE  [Table!Next]_([d \in Path |-> OwnerOf(d)])
  <1> USE ProcessLockAssumption DEF TypeInv, TypeOK, LoopPosition, LoopAt, Goto,
                                    GiveUp, CloseFd, Acquiring, Releasing
  <1> DEFINE Same == \A q \in Proc, j \in 1..N : Holds(q, j)' <=> Holds(q, j)
  <1>1. ASSUME Same PROVE UNCHANGED [d \in Path |-> OwnerOf(d)]
    <2>1. \A d \in Path : Holders(d)' = Holders(d)
      BY <1>1 DEF Holders
    <2>2. QED
      BY <2>1, KeepingIsStuttering
  <1>2. ASSUME NEW p \in Proc, Start(p) PROVE Same
    BY <1>2 DEF Start, Holds
  <1>3. ASSUME NEW p \in Proc, Open(p) PROVE Same
    BY <1>3 DEF Open, Holds
  <1>4. ASSUME NEW p \in Proc, OpenFails(p) PROVE Same
    BY <1>4 DEF OpenFails, Holds
  <1>5. ASSUME NEW p \in Proc, Lock(p) PROVE Same
    BY <1>5 DEF Lock, Holds
  <1>6. ASSUME NEW p \in Proc, LockRefused(p) \/ SystemCallFails(p) PROVE Same
    BY <1>6 DEF LockRefused, SystemCallFails, Holds
  <1>7. ASSUME NEW p \in Proc, CheckStale(p) PROVE Same
    BY <1>7 DEF CheckStale, Holds
  <1>8. ASSUME NEW p \in Proc, Retry(p) PROVE Same
    BY <1>8 DEF Retry, Holds
  <1>9. ASSUME NEW p \in Proc, Finish(p) PROVE Same
    BY <1>9 DEF Finish, Holds
  <1>10. ASSUME NEW p \in Proc, Close(p) PROVE Same
    BY <1>10 DEF Close, Holds
  <1>11. ASSUME NEW p \in Proc, Released(p) PROVE Same
    BY <1>11 DEF Released, LeftToRelease, Holds
  <1>12. ASSUME NEW p \in Proc, CheckFresh(p) PROVE Table!Next
    <2>1. idx[p] \in 1..N /\ Dirs[p][idx[p]] \in Path
      BY <1>12 DEF CheckFresh
    <2>2. Table!Grant(p, Dirs[p][idx[p]])
      BY <1>12, <2>1, CheckFreshGrants
    <2>3. QED
      BY <2>1, <2>2 DEF Table!Next
  <1>13. ASSUME NEW p \in Proc, Remove(p) \/ Crash(p) PROVE Table!Next
    <2>1. \A q \in Proc, j \in 1..N : q # p => (Holds(q, j)' <=> Holds(q, j))
      BY <1>13 DEF Remove, Crash, Holds
    <2>2. \A j \in 1..N : Holds(p, j)' => Holds(p, j)
      BY <1>13 DEF Remove, Crash, Holds, LeftToRelease
    <2>3. \A d \in Path : Holders(d)' = Holders(d) \/ Holders(d)' = Holders(d) \ {p}
      BY <2>1, <2>2 DEF Holders
    <2>4. QED
      BY <2>3, DroppingGivesBack DEF Table!Next
  <1>14. CASE UNCHANGED vars
    BY <1>1, <1>14 DEF vars, Holds
  <1>15. QED
    BY <1>1, <1>2, <1>3, <1>4, <1>5, <1>6, <1>7, <1>8, <1>9, <1>10, <1>11,
       <1>12, <1>13, <1>14 DEF Next, Step

\* The lock protocol implements the owner table of LockTable: a directory goes
\* from nobody to one process and back, whatever happens in between.
THEOREM Refinement ==
  ASSUME DirsDistinct
  PROVE  Spec => ImplementsLockTable
  <1>1. Init => TypeInv /\ LockInv
    BY InitTypeInv, InitLockInv
  <1>2. TypeInv /\ LockInv /\ [Next]_vars => (TypeInv /\ LockInv)'
    BY NextTypeInv, NextLockInv
  <1>3. Init => Table!Init
    BY ProcessLockAssumption
       DEF Init, Table!Init, OwnerOf, Holders, Holds, Acquiring
  <1>4. TypeInv /\ LockInv /\ LockInv' /\ [Next]_vars
          => [Table!Next]_([d \in Path |-> OwnerOf(d)])
    BY StepRefines
  <1>5. QED
    BY <1>1, <1>2, <1>3, <1>4, PTL DEF Spec, ImplementsLockTable, Table!Spec
=============================================================================
