------------------------- MODULE LogRotation_proofs -------------------------
(***************************************************************************)
(* The rotation of the log, for any number of processes, invocations and   *)
(* backups, however many are in Setup at the same moment.  What a rotation *)
(* overwrites depends on what its cascade has moved before (Rotating), and *)
(* how long a log lasts on how many invocations have pushed it down        *)
(* (Behind); both are lost when two rotations meet, the order of the names *)
(* (Ordered) is not.                                                       *)
(***************************************************************************)
EXTENDS LogRotation, FiniteSetTheorems, TLAPS

\* Two invocations in Setup have met, and one that was in Setup when a later one came.
Meeting ==
  /\ \A p, q \in Proc : p # q /\ InSetup(p) /\ InSetup(q) => run[p] \in met
  /\ \A p, q \in Proc : InSetup(p) /\ pc[q] # "idle" /\ run[p] < run[q] => run[q] \in met

\* There are enough numbers for the logs that are still to be made.
Pending == {p \in Proc : InSetup(p)}
Counted == IsFiniteSet(Pending) /\ made.logs + Cardinality(Pending) <= made.starts

\* An invocation in Setup that has met no other is the newest.
Newest ==
  \A p \in Proc :
    /\ pc[p] # "idle" => run[p] \in Number /\ run[p] <= made.starts
    /\ InSetup(p) /\ run[p] \notin met => run[p] = made.starts
    /\ pc[p] \in {"acquire", "run"} => fd[p] \in Number

\* The higher the name, the older the log.
Ordered ==
  /\ \A k \in Slot : file[k] # None => file[k] <= made.logs
  /\ \A j, k \in Slot : j < k /\ file[j] # None /\ file[k] # None => file[k] < file[j]

\* The name that the next rename gives is free, but for the last, unless another
\* rotation is in the way.
Rotating ==
  \A p \in Proc : pc[p] \in {"stat", "rename"} =>
    /\ max >= 1 /\ i[p] \in 0..(max - 1)
    /\ pc[p] = "rename" => i[p] >= 1
    /\ run[p] \notin met /\ i[p] < max - 1 => file[i[p] + 1] = None

\* No invocation since that of p has met another.
Orderly(p) == met \cap (run[p]..made.starts) = {}

\* A log that is in use is no further down than there were invocations after the one
\* that uses it; while it still has to be moved, one less.
Behind ==
  \A p \in Proc :
    /\ pc[p] \in {"acquire", "run"} /\ max > 0
    /\ made.starts - run[p] <= max /\ Orderly(p)
    => \E k \in 0..max :
         /\ file[k] = fd[p]
         /\ k <= made.starts - run[p]
         /\ \A q \in Proc : pc[q] \in {"stat", "rename"} /\ k <= i[q] + 1 =>
              k < made.starts - run[p]

IInv == TypeOK /\ Meeting /\ Counted /\ Newest /\ Ordered /\ Rotating /\ Behind

Labels == {"idle", "truncate", "stat", "rename", "open", "acquire", "run"}

-----------------------------------------------------------------------------
LEMMA Slots ==
  ASSUME TypeOK
  PROVE  /\ Slot \subseteq Nat /\ 0 \in Slot /\ 1 \in Slot
         /\ max \in Nat /\ \A k \in 0..max : k \in Slot
<1>1. Backups \cup {1} \subseteq Nat
  BY LogRotationAssumption
<1>2. \A b \in Backups \cup {1} : 0..b \subseteq Slot
  BY DEF Slot
<1>3. Slot \subseteq Nat
  BY <1>1 DEF Slot
<1>4. max \in Backups
  BY DEF TypeOK
<1>5. 0 \in 0..1 /\ 1 \in 0..1
  OBVIOUS
<1> QED BY <1>1, <1>2, <1>3, <1>4, <1>5

LEMMA Numbers ==
  /\ Number \subseteq Nat \ {0}
  /\ \A x : x \in Number => x # None
  BY LogRotationAssumption DEF Number

LEMMA InitIInv == Init => IInv
<1> SUFFICES ASSUME Init PROVE IInv
  OBVIOUS
<1>1. TypeOK
  <2>1. made \in [starts : 0..MaxStarts, logs : 0..MaxStarts]
    BY LogRotationAssumption DEF Init
  <2>2. text \in [Number -> SUBSET Number]
    BY DEF Init
  <2> QED BY <2>1, <2>2 DEF Init, TypeOK
<1>2. Meeting /\ Newest /\ Rotating /\ Behind
  BY DEF Init, Meeting, InSetup, Newest, Rotating, Behind
<1>3. Ordered
  BY DEF Init, Ordered
<1>4. Counted
  <2>1. Pending = {}
    BY DEF Init, Pending, InSetup
  <2> QED BY <2>1, FS_EmptySet DEF Init, Counted
<1> QED BY <1>1, <1>2, <1>3, <1>4 DEF IInv

\* Fewer invocations in Setup, and no more logs, leave no fewer numbers.
LEMMA CountedStays ==
  ASSUME Counted, TypeOK, Pending' \subseteq Pending, made' = made
  PROVE  Counted'
<1>1. IsFiniteSet(Pending') /\ Cardinality(Pending') <= Cardinality(Pending)
  BY FS_Subset DEF Counted
<1>2. Cardinality(Pending) \in Nat /\ Cardinality(Pending') \in Nat
  BY <1>1, FS_CardinalityType DEF Counted
<1>3. made.logs \in Int /\ made.starts \in Int
  BY LogRotationAssumption DEF TypeOK
<1> QED BY <1>1, <1>2, <1>3 DEF Counted

-----------------------------------------------------------------------------
(* The steps.                                                              *)

LEMMA BeginIInv ==
  ASSUME IInv, NEW p \in Proc, Begin(p)
  PROVE  IInv'
<1> USE DEF IInv, Begin, Goto
<1>1. /\ made' = [made EXCEPT !.starts = @ + 1]
      /\ made'.starts = made.starts + 1 /\ made'.logs = made.logs
      /\ made.starts \in 0..MaxStarts /\ made.logs \in 0..MaxStarts
      /\ made'.starts \in 0..MaxStarts /\ made'.starts \in Number
  BY LogRotationAssumption DEF TypeOK, Number
<1>2. pc[p] = "idle" /\ ~ InSetup(p)
  BY DEF InSetup
<1>3. /\ pc'[p] \in {"open", "truncate", "stat"}
      /\ \A q \in Proc \ {p} : pc'[q] = pc[q]
      /\ pc' \in [Proc -> Labels]
  BY DEF TypeOK, Labels
<1>4. max \in Nat /\ (pc'[p] = "stat" => max > 0)
  BY <1>3, Slots DEF TypeOK
<1>5. /\ run'[p] = made'.starts /\ \A q \in Proc \ {p} : run'[q] = run[q]
      /\ \A q \in Proc : pc[q] # "idle" => run[q] \in Nat /\ run[q] < made'.starts
  BY <1>1, Numbers DEF TypeOK, Newest
<1>6. i'[p] = max - 1 /\ i' \in [Proc -> Int] /\ \A q \in Proc \ {p} : i'[q] = i[q]
  BY <1>4 DEF TypeOK
<1>7. /\ met \subseteq met'
      /\ \A q \in Proc : InSetup(q) => run[q] \in met' /\ made'.starts \in met'
      /\ met' \subseteq Number
  <2>1. \A q \in Proc : InSetup(q) => run[q] \in Number
    BY DEF InSetup, Newest
  <2>2. \A q \in Proc : InSetup(q) => {r \in Proc : InSetup(r)} # {}
    OBVIOUS
  <2> QED BY <1>1, <2>1, <2>2 DEF TypeOK
<1>8. \A q \in Proc : InSetup(q)' <=> q = p \/ InSetup(q)
  BY <1>3 DEF InSetup
<1>9. TypeOK'
  <2>1. run' \in [Proc -> Number \cup {None}]
    BY <1>1 DEF TypeOK
  <2>2. made' \in [starts : 0..MaxStarts, logs : 0..MaxStarts]
    BY <1>1 DEF TypeOK
  <2> QED BY <1>3, <1>6, <1>7, <2>1, <2>2 DEF TypeOK, Labels
<1>10. Meeting'
  <2>1. ASSUME NEW a \in Proc, NEW b \in Proc, a # b, InSetup(a)', InSetup(b)'
        PROVE  run'[a] \in met'
    BY <1>2, <1>5, <1>7, <1>8, <2>1
  <2>2. ASSUME NEW a \in Proc, NEW b \in Proc, InSetup(a)', pc'[b] # "idle", run'[a] < run'[b]
        PROVE  run'[b] \in met'
    <3>1. a # p
      BY <1>1, <1>3, <1>5, <2>2
    <3>2. InSetup(a)
      BY <1>8, <2>2, <3>1
    <3>3. CASE b = p
      BY <1>5, <1>7, <3>2, <3>3
    <3>4. CASE b # p
      BY <1>3, <1>5, <1>7, <2>2, <3>1, <3>2, <3>4 DEF Meeting
    <3> QED BY <3>3, <3>4
  <2> QED BY <2>1, <2>2 DEF Meeting
<1>11. Counted'
  <2>1. Pending' = Pending \cup {p} /\ p \notin Pending
    BY <1>2, <1>8 DEF Pending
  <2>2. /\ IsFiniteSet(Pending') /\ Cardinality(Pending') = Cardinality(Pending) + 1
        /\ Cardinality(Pending) \in Nat
    BY <2>1, FS_AddElement, FS_CardinalityType DEF Counted
  <2> QED BY <1>1, <2>2 DEF Counted
<1>12. Newest'
  BY <1>1, <1>3, <1>5, <1>7, <1>8 DEF Newest
<1>13. Ordered'
  BY <1>1 DEF Ordered
<1>14. Rotating'
  BY <1>3, <1>4, <1>5, <1>6, <1>7 DEF Rotating
<1>15. Behind'
  <2> SUFFICES ASSUME NEW r \in Proc, pc'[r] \in {"acquire", "run"}, max > 0,
                      made'.starts - run'[r] <= max, Orderly(r)'
               PROVE  \E k \in 0..max :
                        /\ file[k] = fd[r]
                        /\ k <= made'.starts - run'[r]
                        /\ \A q \in Proc : pc'[q] \in {"stat", "rename"} /\ k <= i'[q] + 1 =>
                             k < made'.starts - run'[r]
    BY DEF Behind
  <2>1. r # p /\ pc[r] \in {"acquire", "run"} /\ run'[r] = run[r] /\ run[r] \in Nat
    BY <1>3, <1>5, Numbers DEF Newest
  <2>2. made.starts - run[r] <= max
    BY <1>1, <1>4, <2>1
  <2>3. Orderly(r)
    <3>1. run[r]..made.starts \subseteq run'[r]..made'.starts
      BY <1>1, <2>1
    <3> QED BY <1>7, <3>1 DEF Orderly
  <2>4. PICK k \in 0..max : file[k] = fd[r] /\ k <= made.starts - run[r]
    BY <2>1, <2>2, <2>3 DEF Behind
  <2>5. k < made'.starts - run'[r]
    BY <1>1, <2>1, <2>4
  <2>6. k <= made'.starts - run'[r]
    BY <1>1, <2>1, <2>4
  <2> QED BY <2>4, <2>5, <2>6
<1> QED BY <1>9, <1>10, <1>11, <1>12, <1>13, <1>14, <1>15

\* No log gets another name.
QuietStep(p) == Truncate(p) \/ StatBackup(p) \/ Acquire(p) \/ Stop(p)

LEMMA QuietIInv ==
  ASSUME IInv, NEW p \in Proc, QuietStep(p)
  PROVE  IInv'
<1> USE DEF IInv, Goto
<1>1. UNCHANGED <<max, file, run, made, met>>
  BY DEF QuietStep, Truncate, StatBackup, Acquire, Stop
<1>2. \A q \in Proc \ {p} : pc'[q] = pc[q] /\ i'[q] = i[q] /\ fd'[q] = fd[q]
  BY DEF QuietStep, Truncate, StatBackup, Acquire, Stop, TypeOK
<1>3. \/ pc'[p] = "idle" /\ pc[p] # "idle"
      \/ pc[p] = "truncate" /\ pc'[p] = "open"
      \/ pc[p] = "stat" /\ pc'[p] \in {"stat", "rename"} /\ StatBackup(p)
      \/ pc[p] = "acquire" /\ pc'[p] = "run" /\ fd'[p] = fd[p]
  BY DEF QuietStep, Truncate, StatBackup, Acquire, Stop, TypeOK
<1>4. TypeOK'
  <2>1. /\ pc' \in [Proc -> Labels]
        /\ fd' \in [Proc -> Number \cup {None}]
        /\ i' \in [Proc -> Int]
    BY DEF QuietStep, Truncate, StatBackup, Acquire, Stop, TypeOK, Labels
  <2>2. text' \in [Number -> SUBSET Number]
    BY Slots DEF QuietStep, Truncate, StatBackup, Acquire, Stop, TypeOK
  <2> QED BY <1>1, <2>1, <2>2 DEF TypeOK, Labels
<1>5. \A q \in Proc : InSetup(q)' => InSetup(q)
  BY <1>2, <1>3 DEF InSetup
<1>9. Meeting' /\ Newest' /\ Ordered'
  <2>1. \A q \in Proc : pc'[q] # "idle" => pc[q] # "idle"
    BY <1>2, <1>3
  <2>2. Meeting'
    BY <1>1, <1>5, <2>1 DEF Meeting
  <2>3. Newest'
    BY <1>1, <1>2, <1>3, <1>5 DEF Newest
  <2> QED BY <1>1, <2>2, <2>3 DEF Ordered
<1>10. Counted'
  <2>1. Pending' \subseteq Pending
    BY <1>5 DEF Pending
  <2> QED BY <1>1, <2>1, CountedStays
<1>6. pc[p] = "stat" /\ pc'[p] \in {"stat", "rename"} =>
        /\ max >= 1 /\ i'[p] \in 0..(max - 1) /\ i'[p] <= i[p] /\ i[p] \in 0..(max - 1)
        /\ pc'[p] = "rename" => i'[p] >= 1
        /\ run[p] \notin met /\ i'[p] < max - 1 => file[i'[p] + 1] = None
  <2> SUFFICES ASSUME pc[p] = "stat", pc'[p] \in {"stat", "rename"}
               PROVE  /\ max >= 1 /\ i'[p] \in 0..(max - 1) /\ i'[p] <= i[p]
                      /\ i[p] \in 0..(max - 1)
                      /\ pc'[p] = "rename" => i'[p] >= 1
                      /\ run[p] \notin met /\ i'[p] < max - 1 => file[i'[p] + 1] = None
    OBVIOUS
  <2>1. max \in Nat /\ max >= 1 /\ i[p] \in 0..(max - 1) /\ i[p] >= 1
        /\ (run[p] \notin met /\ i[p] < max - 1 => file[i[p] + 1] = None)
    BY <1>3, Slots DEF Rotating, StatBackup
  <2>2. CASE file[i[p]] = None
    <3>1. i'[p] = i[p] - 1 /\ pc'[p] = "stat"
      BY <1>3, <2>2 DEF StatBackup, TypeOK
    <3>2. i'[p] + 1 = i[p]
      BY <2>1, <3>1
    <3> QED BY <2>1, <2>2, <3>1, <3>2
  <2>3. CASE file[i[p]] # None
    BY <1>3, <2>1, <2>3 DEF StatBackup, TypeOK
  <2> QED BY <2>2, <2>3
<1>7. Rotating'
  BY <1>1, <1>2, <1>3, <1>6 DEF Rotating
<1>8. Behind'
  <2> SUFFICES ASSUME NEW r \in Proc, pc'[r] \in {"acquire", "run"}, max > 0,
                      made.starts - run[r] <= max, Orderly(r)
               PROVE  \E k \in 0..max :
                        /\ file[k] = fd'[r]
                        /\ k <= made.starts - run[r]
                        /\ \A q \in Proc : pc'[q] \in {"stat", "rename"} /\ k <= i'[q] + 1 =>
                             k < made.starts - run[r]
    BY <1>1 DEF Behind, Orderly
  <2>1. pc[r] \in {"acquire", "run"} /\ fd'[r] = fd[r]
    BY <1>2, <1>3
  <2>2. PICK k \in 0..max :
          /\ file[k] = fd[r]
          /\ k <= made.starts - run[r]
          /\ \A q \in Proc : pc[q] \in {"stat", "rename"} /\ k <= i[q] + 1 =>
               k < made.starts - run[r]
    BY <2>1 DEF Behind
  <2>3. ASSUME NEW q \in Proc, pc'[q] \in {"stat", "rename"}, k <= i'[q] + 1
        PROVE  k < made.starts - run[r]
    <3>1. CASE q = p
      <4>1. pc[p] = "stat" /\ k <= i[p] + 1
        BY <1>3, <1>6, <2>3, <3>1, Slots
      <4> QED BY <2>2, <3>1, <4>1
    <3>2. CASE q # p
      BY <1>2, <2>2, <2>3, <3>2
    <3> QED BY <3>1, <3>2
  <2> QED BY <2>1, <2>2, <2>3
<1> QED BY <1>4, <1>7, <1>8, <1>9, <1>10

\* A rename takes one log to the next name; what it overwrites is older.
LEMMA RenameFacts ==
  ASSUME IInv, NEW n \in 0..(max - 1), Rename(n)
  PROVE  /\ max \in Nat /\ n + 1 \in 0..max /\ n \in Slot /\ n + 1 \in Slot
         /\ file' \in [Slot -> Number \cup {None}]
         /\ \A k \in Slot : k # n /\ k # n + 1 => file'[k] = file[k]
         /\ file'[n] = None
         /\ file'[n + 1] = file[n] \/ (file[n] = None /\ file'[n + 1] = file[n + 1])
         /\ \A k \in Slot : k > max => file'[k] = None
         /\ \A j, k \in Slot : j # k /\ file'[j] # None => file'[j] # file'[k]
         /\ Ordered /\ made' = made => Ordered'
<1> USE DEF IInv
<1>1. max \in Nat /\ n + 1 \in 0..max /\ n \in Slot /\ n + 1 \in Slot /\ n # n + 1
      /\ Slot \subseteq Nat
  BY Slots
<1>2. CASE file[n] = None
  BY <1>1, <1>2 DEF Rename, TypeOK, Ordered
<1>3. CASE file[n] # None
  <2>1. /\ file' \in [Slot -> Number \cup {None}]
        /\ file'[n] = None /\ file'[n + 1] = file[n]
        /\ \A k \in Slot : k # n /\ k # n + 1 => file'[k] = file[k]
    BY <1>1, <1>3 DEF Rename, TypeOK
  <2>2. \A k \in Slot : k > max => file'[k] = None
    BY <1>1, <2>1 DEF TypeOK
  <2>3. \A j, k \in Slot : j # k /\ file'[j] # None => file'[j] # file'[k]
    BY <1>1, <2>1 DEF TypeOK
  <2>4. ASSUME Ordered, made' = made PROVE Ordered'
    <3>1. \A k \in Slot : file'[k] # None => file'[k] <= made.logs
      BY <1>1, <1>3, <2>1, <2>4 DEF Ordered
    <3>2. ASSUME NEW j \in Slot, NEW k \in Slot, j < k, file'[j] # None, file'[k] # None
          PROVE  file'[k] < file'[j]
      <4>1. j # n /\ k # n
        BY <2>1, <3>2
      <4>2. CASE j = n + 1
        BY <1>1, <1>3, <2>1, <2>4, <3>2, <4>1, <4>2 DEF Ordered
      <4>3. CASE k = n + 1
        <5>1. j < n
          BY <1>1, <3>2, <4>1, <4>3
        <5> QED BY <1>1, <1>3, <2>1, <2>4, <3>2, <4>3, <5>1 DEF Ordered
      <4>4. CASE j # n + 1 /\ k # n + 1
        BY <2>1, <2>4, <3>2, <4>1, <4>4 DEF Ordered
      <4> QED BY <4>2, <4>3, <4>4
    <3> QED BY <2>4, <3>1, <3>2 DEF Ordered
  <2> QED BY <1>1, <2>1, <2>2, <2>3, <2>4
<1> QED BY <1>2, <1>3

\* While the log of r is watched over, an invocation that rotates is the newest one,
\* and the only one in Setup.
LEMMA Watched ==
  ASSUME IInv, NEW p \in Proc, InSetup(p),
         NEW r \in Proc, pc[r] \in {"acquire", "run"}, Orderly(r)
  PROVE  /\ run[p] \notin met /\ run[p] = made.starts
         /\ \A q \in Proc \ {p} : ~ InSetup(q)
<1> USE DEF IInv
<1>1. /\ pc[p] # "idle" /\ run[p] \in Nat /\ run[r] \in Nat /\ run[p] <= made.starts
      /\ run[r] <= made.starts /\ made.starts \in Nat
  <2>1. pc[p] # "idle" /\ pc[r] # "idle"
    BY DEF InSetup
  <2>2. made.starts \in 0..MaxStarts
    BY DEF TypeOK
  <2>3. /\ run[p] \in Number /\ run[r] \in Number
        /\ run[p] <= made.starts /\ run[r] <= made.starts
    BY <2>1 DEF Newest
  <2>4. run[p] \in Nat /\ run[r] \in Nat
    BY <2>3, Numbers
  <2>5. made.starts \in Nat
    BY <2>2, LogRotationAssumption
  <2> QED BY <2>1, <2>3, <2>4, <2>5
<1>2. run[p] \notin met
  <2> SUFFICES ASSUME run[p] \in met PROVE FALSE
    OBVIOUS
  <2>1. run[p] < run[r]
    BY <1>1 DEF Orderly
  <2>2. run[r] \in met
    BY <2>1 DEF Meeting
  <2> QED BY <1>1, <2>2 DEF Orderly
<1> QED BY <1>2 DEF Meeting, Newest

LEMMA RenameIInv ==
  ASSUME IInv, NEW p \in Proc, RenameBackup(p) \/ RenameLog(p)
  PROVE  IInv'
<1> USE DEF IInv
<1> DEFINE n == i[p]
<1>1. max \in Nat /\ n \in 0..(max - 1) /\ Rename(n) /\ pc[p] \in {"stat", "rename"}
      /\ InSetup(p) /\ (run[p] \notin met /\ n < max - 1 => file[n + 1] = None)
  BY Slots DEF RenameBackup, RenameLog, Rotating, InSetup
<1>2. UNCHANGED <<max, text, fd, run, made, met>>
  BY DEF RenameBackup, RenameLog
<1>3. \A q \in Proc \ {p} : pc'[q] = pc[q] /\ i'[q] = i[q]
  BY DEF RenameBackup, RenameLog, Goto, TypeOK
<1>4. \/ pc'[p] = "open"
      \/ pc'[p] = "stat" /\ i'[p] = n - 1 /\ n >= 1
  BY DEF RenameBackup, RenameLog, Rotating, Goto, TypeOK
<1>5. /\ pc' \in [Proc -> Labels]
      /\ i' \in [Proc -> Int]
  BY DEF RenameBackup, RenameLog, Goto, TypeOK, Labels
<1>6. /\ n + 1 \in 0..max /\ n \in Slot /\ n + 1 \in Slot
      /\ file' \in [Slot -> Number \cup {None}]
      /\ \A k \in Slot : k # n /\ k # n + 1 => file'[k] = file[k]
      /\ file'[n] = None
      /\ file'[n + 1] = file[n] \/ (file[n] = None /\ file'[n + 1] = file[n + 1])
      /\ \A k \in Slot : k > max => file'[k] = None
      /\ \A j, k \in Slot : j # k /\ file'[j] # None => file'[j] # file'[k]
      /\ Ordered'
  <2> HIDE DEF n
  <2> QED BY <1>1, <1>2, RenameFacts
<1>7. TypeOK'
  BY <1>2, <1>5, <1>6 DEF TypeOK, Labels
<1>8. \A q \in Proc : InSetup(q)' <=> InSetup(q)
  BY <1>1, <1>3, <1>4 DEF InSetup
<1>9. Meeting' /\ Newest' /\ Counted'
  <2>1. \A q \in Proc : (pc'[q] # "idle" <=> pc[q] # "idle")
                        /\ (pc'[q] \in {"acquire", "run"} <=> pc[q] \in {"acquire", "run"})
    BY <1>1, <1>3, <1>4
  <2>2. Meeting'
    BY <1>2, <1>8, <2>1 DEF Meeting
  <2>3. Newest'
    BY <1>2, <1>8, <2>1 DEF Newest
  <2>4. Pending' \subseteq Pending
    BY <1>8 DEF Pending
  <2> QED BY <1>2, <2>2, <2>3, <2>4, CountedStays
<1>10. Rotating'
  <2> SUFFICES ASSUME NEW q \in Proc, pc'[q] \in {"stat", "rename"}
               PROVE  /\ max >= 1 /\ i'[q] \in 0..(max - 1)
                      /\ pc'[q] = "rename" => i'[q] >= 1
                      /\ run[q] \notin met /\ i'[q] < max - 1 => file'[i'[q] + 1] = None
    BY <1>2 DEF Rotating
  <2>1. CASE q = p
    <3>1. pc'[p] = "stat" /\ i'[p] = n - 1 /\ n >= 1
      BY <1>4, <2>1
    <3>2. i'[p] + 1 = n
      BY <1>1, <3>1
    <3> QED BY <1>1, <1>6, <2>1, <3>1, <3>2
  <2>2. CASE q # p
    <3>1. pc[q] = pc'[q] /\ i[q] = i'[q] /\ InSetup(q)
      BY <1>3, <2>2 DEF InSetup
    <3>2. run[q] \in met
      BY <1>1, <2>2, <3>1 DEF Meeting
    <3> QED BY <3>1, <3>2 DEF Rotating
  <2> QED BY <2>1, <2>2
<1>11. Behind'
  <2> SUFFICES ASSUME NEW r \in Proc, pc'[r] \in {"acquire", "run"}, max > 0,
                      made.starts - run[r] <= max, Orderly(r)
               PROVE  \E k \in 0..max :
                        /\ file'[k] = fd[r]
                        /\ k <= made.starts - run[r]
                        /\ \A q \in Proc : pc'[q] \in {"stat", "rename"} /\ k <= i'[q] + 1 =>
                             k < made.starts - run[r]
    BY <1>2 DEF Behind, Orderly
  <2>1. r # p /\ pc[r] \in {"acquire", "run"} /\ fd[r] # None
        /\ made.starts - run[r] \in Int
    <3>1. r # p /\ pc[r] \in {"acquire", "run"}
      BY <1>3, <1>4
    <3>2. run[r] \in Number /\ fd[r] \in Number
      BY <3>1 DEF Newest
    <3>3. run[r] \in Nat /\ fd[r] # None
      BY <3>2, Numbers
    <3>4. made.starts \in Int
      <4>1. made.starts \in 0..MaxStarts
        BY DEF TypeOK
      <4> QED BY <4>1
    <3> QED BY <3>1, <3>3, <3>4
  <2>2. run[p] \notin met /\ \A q \in Proc \ {p} : ~ InSetup(q)
    <3> HIDE DEF n
    <3> QED BY <1>1, <2>1, Watched
  <2>3. PICK k \in 0..max :
          /\ file[k] = fd[r]
          /\ k <= made.starts - run[r]
          /\ k <= n + 1 => k < made.starts - run[r]
    BY <1>1, <2>1 DEF Behind
  <2>4. k \in Slot /\ k \in Nat
    BY Slots
  <2>5. \A q \in Proc : pc'[q] \in {"stat", "rename"} => q = p /\ i'[q] = n - 1
    BY <1>3, <1>4, <2>2 DEF InSetup
  <2>6. k # n + 1
    <3>1. SUFFICES ASSUME k = n + 1 PROVE FALSE
      OBVIOUS
    <3>2. ~ (n < max - 1)
      BY <1>1, <2>1, <2>2, <2>3, <3>1
    <3> QED BY <1>1, <2>1, <2>3, <3>1, <3>2
  <2>7. CASE k = n
    <3>1. file'[n + 1] = fd[r]
      BY <1>6, <2>1, <2>3, <2>7
    <3>2. n + 1 \in 0..max /\ n + 1 <= made.starts - run[r]
      BY <1>1, <2>1, <2>3, <2>7
    <3>3. \A q \in Proc : ~ (pc'[q] \in {"stat", "rename"} /\ n + 1 <= i'[q] + 1)
      BY <1>1, <2>5
    <3> QED BY <3>1, <3>2, <3>3
  <2>8. CASE k # n
    <3>1. file'[k] = fd[r]
      BY <1>6, <2>3, <2>4, <2>6, <2>8
    <3>2. \A q \in Proc : pc'[q] \in {"stat", "rename"} /\ k <= i'[q] + 1 =>
            k < made.starts - run[r]
      BY <1>1, <2>3, <2>4, <2>5
    <3> QED BY <2>3, <3>1, <3>2
  <2> QED BY <2>7, <2>8
<1> QED BY <1>6, <1>7, <1>9, <1>10, <1>11

LEMMA OpenIInv ==
  ASSUME IInv, NEW p \in Proc, Open(p)
  PROVE  IInv'
<1> USE DEF IInv
<1> DEFINE log == IF file[0] = None THEN made.logs + 1 ELSE file[0]
<1>1. pc[p] = "open" /\ InSetup(p) /\ made.logs < made.starts
      /\ made.starts \in 0..MaxStarts /\ made.logs \in 0..MaxStarts /\ MaxStarts \in Nat
  <2>1. pc[p] = "open" /\ p \in Pending
    BY DEF Open, Pending, InSetup
  <2>2. Cardinality(Pending) \in Nat /\ Cardinality(Pending \ {p}) \in Nat
        /\ Cardinality(Pending \ {p}) = Cardinality(Pending) - 1
    BY <2>1, FS_RemoveElement, FS_CardinalityType DEF Counted
  <2>3. made.starts \in 0..MaxStarts /\ made.logs \in 0..MaxStarts
    BY DEF TypeOK
  <2> QED BY <2>1, <2>2, <2>3, LogRotationAssumption DEF Counted, InSetup
<1>2. log \in Number /\ run[p] \in Number /\ run[p] <= made.starts
  BY <1>1, Slots DEF TypeOK, Number, Newest
<1>3. /\ made'.starts = made.starts
      /\ made'.logs = IF file[0] = None THEN made.logs + 1 ELSE made.logs
      /\ made' \in [starts : 0..MaxStarts, logs : 0..MaxStarts]
  BY <1>1 DEF Open, TypeOK
<1>4. /\ file' \in [Slot -> Number \cup {None}] /\ file'[0] = log
      /\ \A k \in Slot \ {0} : file'[k] = file[k]
  BY <1>2, Slots DEF Open, TypeOK
<1>5. /\ UNCHANGED <<max, i, run, met>>
      /\ text' \in [Number -> SUBSET Number]
      /\ fd' \in [Proc -> Number \cup {None}] /\ fd'[p] = log
      /\ \A q \in Proc \ {p} : fd'[q] = fd[q]
  BY <1>2 DEF Open, TypeOK
<1>6. /\ pc' \in [Proc -> Labels]
      /\ pc'[p] = "acquire"
      /\ \A q \in Proc \ {p} : pc'[q] = pc[q]
      /\ \A q \in Proc : InSetup(q)' => InSetup(q) /\ q # p
  BY <1>1 DEF Open, Goto, InSetup, TypeOK, Labels
<1>7. \A k \in Slot : file[k] # None => file[k] \in Number /\ file[k] <= made.logs
  BY DEF TypeOK, Ordered
<1>8. \A k \in Slot \ {0} : file[k] # None => file[k] < log
  <2>1. CASE file[0] = None
    BY <1>1, <1>7, <2>1 DEF Number
  <2>2. CASE file[0] # None
    BY <2>2, Slots DEF Ordered
  <2> QED BY <2>1, <2>2
<1>9. TypeOK'
  <2>1. \A k \in Slot : k > max => file'[k] = None
    BY <1>4, Slots DEF TypeOK
  <2>2. \A j, k \in Slot : j # k /\ file'[j] # None => file'[j] # file'[k]
    <3> SUFFICES ASSUME NEW j \in Slot, NEW k \in Slot, j # k, file'[j] # None
                 PROVE  file'[j] # file'[k]
      OBVIOUS
    <3>1. CASE j = 0
      <4>1. file'[k] = None \/ (file'[k] \in Nat /\ file'[k] < log)
        BY <1>4, <1>7, <1>8, <3>1, Numbers
      <4> QED BY <1>2, <1>4, <3>1, <4>1, Numbers
    <3>2. CASE k = 0
      <4>1. file'[j] \in Nat /\ file'[j] < log
        BY <1>4, <1>7, <1>8, <3>2, Numbers
      <4> QED BY <1>2, <1>4, <3>2, <4>1, Numbers
    <3>3. CASE j # 0 /\ k # 0
      BY <1>4, <3>3 DEF TypeOK
    <3> QED BY <3>1, <3>2, <3>3
  <2> QED BY <1>3, <1>4, <1>5, <1>6, <2>1, <2>2 DEF TypeOK, Labels
<1>10. Meeting' /\ Newest'
  <2>1. \A q \in Proc : pc'[q] # "idle" => pc[q] # "idle"
    BY <1>1, <1>6
  <2>2. Meeting'
    BY <1>5, <1>6, <2>1 DEF Meeting
  <2>3. Newest'
    BY <1>2, <1>3, <1>5, <1>6, <1>1 DEF Newest
  <2> QED BY <2>2, <2>3
<1>11. Counted'
  <2>1. Pending' = Pending \ {p} /\ p \in Pending
    <3>1. \A q \in Proc : InSetup(q)' <=> InSetup(q) /\ q # p
      BY <1>6 DEF InSetup
    <3> QED BY <1>1, <3>1 DEF Pending
  <2>2. /\ IsFiniteSet(Pending') /\ Cardinality(Pending') = Cardinality(Pending) - 1
        /\ Cardinality(Pending) \in Nat
    BY <2>1, FS_RemoveElement, FS_CardinalityType DEF Counted
  <2> QED BY <1>1, <1>3, <2>2 DEF Counted
<1>12. Ordered'
  <2>2. \A k \in Slot : file'[k] # None => file'[k] <= made'.logs
    <3> SUFFICES ASSUME NEW k \in Slot, file'[k] # None
                 PROVE  file'[k] <= made'.logs
      OBVIOUS
    <3>1. CASE k = 0
      BY <1>1, <1>3, <1>4, <1>7, <3>1
    <3>2. CASE k # 0
      <4>1. file[k] \in Nat /\ file[k] <= made.logs
        BY <1>4, <1>7, <3>2, Numbers
      <4> QED BY <1>1, <1>3, <1>4, <3>2, <4>1
    <3> QED BY <3>1, <3>2
  <2>3. \A j, k \in Slot : j < k /\ file'[j] # None /\ file'[k] # None => file'[k] < file'[j]
    BY <1>4, <1>8, Slots DEF Ordered
  <2> QED BY <2>2, <2>3 DEF Ordered
<1>13. Rotating'
  <2> SUFFICES ASSUME NEW q \in Proc, pc'[q] \in {"stat", "rename"}
               PROVE  /\ max >= 1 /\ i[q] \in 0..(max - 1)
                      /\ pc'[q] = "rename" => i[q] >= 1
                      /\ run[q] \notin met /\ i[q] < max - 1 => file'[i[q] + 1] = None
    BY <1>5 DEF Rotating
  <2>1. q # p /\ pc[q] = pc'[q] /\ InSetup(q)
    BY <1>6 DEF InSetup
  <2>2. run[q] \in met
    BY <1>1, <2>1 DEF Meeting
  <2> QED BY <2>1, <2>2 DEF Rotating
<1>14. Behind'
  <2> SUFFICES ASSUME NEW r \in Proc, pc'[r] \in {"acquire", "run"}, max > 0,
                      made.starts - run[r] <= max, Orderly(r)
               PROVE  \E k \in 0..max :
                        /\ file'[k] = fd'[r]
                        /\ k <= made.starts - run[r]
                        /\ \A q \in Proc : pc'[q] \in {"stat", "rename"} /\ k <= i[q] + 1 =>
                             k < made.starts - run[r]
    BY <1>3, <1>5 DEF Behind, Orderly
  <2>1. CASE r = p
    <3>1. 0 \in 0..max /\ 0 <= made.starts - run[r]
      <4>1. run[p] \in Nat /\ made.starts \in Nat /\ max \in Nat
        <5>1. run[p] \in Nat
          BY <1>2, Numbers
        <5>2. max \in Nat
          BY Slots
        <5>3. made.starts \in Nat
          BY <1>1
        <5> QED BY <5>1, <5>2, <5>3
      <4> QED BY <1>2, <2>1, <4>1
    <3>2. run[p] \notin met
      <4>1. run[p] \in run[r]..made.starts
        <5>1. run[p] \in Nat /\ made.starts \in Nat
          <6>1. run[p] \in Nat
            BY <1>2, Numbers
          <6> QED BY <1>1, <6>1
        <5> QED BY <1>2, <2>1, <5>1
      <4> QED BY <4>1 DEF Orderly
    <3>3. \A q \in Proc : pc'[q] \notin {"stat", "rename"}
      <4> SUFFICES ASSUME NEW q \in Proc, pc'[q] \in {"stat", "rename"} PROVE FALSE
        OBVIOUS
      <4>1. InSetup(q) /\ q # p
        BY <1>6 DEF InSetup
      <4> QED BY <1>1, <3>2, <4>1 DEF Meeting
    <3> QED BY <1>4, <1>5, <2>1, <3>1, <3>3
  <2>2. CASE r # p
    <3>1. pc[r] \in {"acquire", "run"} /\ fd'[r] = fd[r] /\ fd[r] # None
      BY <1>5, <1>6, <2>2, Numbers DEF Newest
    <3>2. PICK k \in 0..max :
            /\ file[k] = fd[r] /\ k <= made.starts - run[r]
            /\ \A q \in Proc : pc[q] \in {"stat", "rename"} /\ k <= i[q] + 1 =>
                 k < made.starts - run[r]
      BY <3>1 DEF Behind
    <3>3. file'[k] = file[k]
      BY <1>4, <3>1, <3>2, Slots
    <3>4. \A q \in Proc : pc'[q] \in {"stat", "rename"} => pc[q] \in {"stat", "rename"}
      BY <1>6
    <3> QED BY <3>1, <3>2, <3>3, <3>4
  <2> QED BY <2>1, <2>2
<1> QED BY <1>9, <1>10, <1>11, <1>12, <1>13, <1>14

LEMMA NextIInv ==
  ASSUME IInv, [Next]_vars
  PROVE  IInv'
<1>1. ASSUME NEW p \in Proc, Begin(p) PROVE IInv'
  BY <1>1, BeginIInv
<1>2. ASSUME NEW p \in Proc, QuietStep(p) PROVE IInv'
  BY <1>2, QuietIInv
<1>3. ASSUME NEW p \in Proc, RenameBackup(p) \/ RenameLog(p) PROVE IInv'
  BY <1>3, RenameIInv
<1>4. ASSUME NEW p \in Proc, Open(p) PROVE IInv'
  BY <1>4, OpenIInv
<1>5. CASE UNCHANGED vars
  <2> USE <1>5 DEF vars, IInv
  <2>1. TypeOK' /\ Ordered' /\ Rotating'
    BY DEF TypeOK, Ordered, Rotating
  <2>2. \A q \in Proc : InSetup(q)' <=> InSetup(q)
    BY DEF InSetup
  <2>3. Meeting' /\ Newest'
    BY <2>2 DEF Meeting, Newest
  <2>4. Pending' \subseteq Pending
    BY <2>2 DEF Pending
  <2>5. Counted'
    BY <2>4, CountedStays
  <2>6. Behind'
    BY DEF Behind, Orderly
  <2> QED BY <2>1, <2>3, <2>5, <2>6
<1> QED BY <1>1, <1>2, <1>3, <1>4, <1>5 DEF Next, QuietStep

LEMMA Inductive == Spec => []IInv
<1>1. IInv /\ [Next]_vars => IInv'
  BY NextIInv
<1> QED BY InitIInv, <1>1, PTL DEF Spec

-----------------------------------------------------------------------------
(* The theorems.                                                           *)

\* Every reachable state is well typed, no name beyond max_log_backups is used and no
\* log has two names, however many invocations rotate at once (rotate, Setup).
THEOREM TypeCorrect == Spec => []TypeOK
<1>1. IInv => TypeOK
  BY DEF IInv
<1> QED BY Inductive, <1>1, PTL

\* The log of a running invocation keeps a name until max_log_backups more
\* invocations have been turned away, if none of them met another in Setup (rotate's
\* cascade and cmd.Main's order).
THEOREM RunningLog == Spec => []RunningLogLasts
<1>1. IInv => RunningLogLasts
  <2> SUFFICES ASSUME IInv, NEW p \in Proc,
                      pc[p] = "run", made.starts - run[p] <= max, max > 0,
                      Orderly(p)
               PROVE  fd[p] \in Kept
    BY DEF RunningLogLasts, Orderly
  <2>1. PICK k \in 0..max : file[k] = fd[p]
    BY DEF IInv, Behind
  <2>2. k \in Slot /\ fd[p] # None
    BY Slots, Numbers DEF IInv, Newest
  <2> QED BY <2>1, <2>2 DEF Kept
<1> QED BY Inductive, <1>1, PTL

\* What a rotation overwrites is older than the log that takes its name, and than
\* everything kept unless two rotations meet (rotate's cascade from the highest backup
\* down).
LEMMA OldestGoes ==
  ASSUME IInv, [Next]_vars, NEW a \in Slot, file[a] \in Kept \ Kept'
  PROVE  /\ file'[a] # None /\ file[a] < file'[a]
         /\ \/ \A l \in Kept' : file[a] < l
            \/ \E p \in Proc : pc'[p] # pc[p] /\ run[p] \in met
<1> USE DEF IInv
<1>1. file[a] # None /\ file'[a] # file[a]
  BY DEF Kept
<1>2. PICK p \in Proc : RenameBackup(p) \/ RenameLog(p) \/ Open(p)
  BY <1>1 DEF Next, vars, Begin, Truncate, StatBackup, Acquire, Stop
<1>3. ~ Open(p)
  BY <1>1, Slots DEF Open, TypeOK
<1> DEFINE n == i[p]
<1>4. /\ max \in Nat /\ n \in 0..(max - 1) /\ Rename(n) /\ made' = made /\ pc'[p] # pc[p]
      /\ run[p] \notin met /\ n < max - 1 => file[n + 1] = None
  BY <1>2, <1>3, Slots DEF RenameBackup, RenameLog, Rotating, Goto, TypeOK
<1>5. /\ n + 1 \in 0..max /\ n \in Slot /\ n + 1 \in Slot
      /\ \A k \in Slot : k # n /\ k # n + 1 => file'[k] = file[k]
      /\ file'[n] = None
      /\ file'[n + 1] = file[n] \/ (file[n] = None /\ file'[n + 1] = file[n + 1])
      /\ \A k \in Slot : k > max => file'[k] = None
  <2> HIDE DEF n
  <2> QED BY <1>4, RenameFacts
<1>6. a # n
  <2> SUFFICES ASSUME a = n PROVE FALSE
    OBVIOUS
  <2>1. file'[n + 1] = file[a]
    BY <1>1, <1>5
  <2> QED BY <1>1, <1>5, <2>1 DEF Kept
<1>7. a = n + 1 /\ file[n] # None /\ file'[a] = file[n]
  <2>1. a = n + 1
    BY <1>1, <1>5, <1>6
  <2>2. file[n] # None
    <3> SUFFICES ASSUME file[n] = None PROVE FALSE
      OBVIOUS
    <3>1. file' = file
      BY <1>4 DEF Rename
    <3> QED BY <1>1, <3>1
  <2> QED BY <1>5, <2>1, <2>2
<1>8. n < a /\ file[a] < file[n]
  BY <1>1, <1>4, <1>7, Slots DEF Ordered
<1>9. ASSUME run[p] \notin met, NEW l \in Kept' PROVE file[a] < l
  <2>1. n = max - 1
    BY <1>1, <1>4, <1>7, <1>9
  <2>2. PICK b \in Slot : file'[b] = l /\ l # None
    BY DEF Kept
  <2>3. b # n /\ b \in Nat /\ b <= max
    BY <1>4, <1>5, <2>2, Slots
  <2>4. CASE b = n + 1
    BY <1>7, <1>8, <2>2, <2>4
  <2>5. CASE b # n + 1
    <3>1. file[b] = l /\ b < a
      BY <1>4, <1>5, <1>7, <2>1, <2>2, <2>3, <2>5
    <3> QED BY <1>1, <2>2, <3>1 DEF Ordered
  <2> QED BY <2>4, <2>5
<1> QED BY <1>4, <1>7, <1>8, <1>9

\* A log gives way only to a newer one that takes its name, and it is the oldest one
\* there is unless two rotations meet (rotate).
THEOREM OldestGivesWay == Spec => LogSurvivesRotation
<1> DEFINE A == \A k \in Slot : file[k] \in Kept \ Kept' =>
                  /\ file'[k] # None /\ file[k] < file'[k]
                  /\ \/ \A l \in Kept' : file[k] < l
                     \/ \E p \in Proc : pc'[p] # pc[p] /\ run[p] \in met
<1>1. IInv /\ [Next]_vars => [A]_vars
  BY OldestGoes
<1> QED BY Inductive, <1>1, PTL DEF Spec, LogSurvivesRotation
=============================================================================
