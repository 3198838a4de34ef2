--------------------------- MODULE Lineage_proofs ---------------------------
(***************************************************************************)
(* The promises of one lineage, for any number of versions and any number  *)
(* of files the user deletes, with or without --reuse-key.  Writing and    *)
(* deploying are loops over the four kinds that a kill may leave anywhere, *)
(* so the invariant says what a file of a version can hold whoever wrote   *)
(* it (Numbers), how far Write (Writing) and EnsureDeployed (Deploying)    *)
(* have come, and that neither is at work on a version below the newest.   *)
(***************************************************************************)
EXTENDS Lineage, TLAPS

Public == Kind \ {"privkey"}

\* Certificate and chains of a version are of one issuance.
Numbers == \A k \in Public, v \in Ver : archive[k][v] \in {None, v}

NothingAbove(n) == \A v \in Ver : Present(v) => v <= n

Written(n) == \A k \in Public : archive[k][n] = n

\* Write makes a version that is the newest and was not there, in the order of
\* WriteOrder and then of LinkOrder.
Writing ==
  /\ pc \in {"write", "fill", "link", "conf"} =>
       ver \in Ver /\ keyOf[ver] \in Ver /\ NothingAbove(ver)
  /\ pc = "write" =>
       \A j \in 1..4 : archive[WriteOrder[j]][ver] = IF j < step THEN ver ELSE None
  /\ pc = "fill" => Written(ver) /\ archive["privkey"][ver] = Torn
  /\ pc \in {"link", "conf"} => Written(ver) /\ archive["privkey"][ver] = keyOf[ver]
  /\ pc = "link" => \A j \in 1..4 : j < step => live[LinkOrder[j]] = ver
  /\ pc = "conf" => \A k \in Kind : live[k] = ver

\* EnsureDeployed clears the sentinels, and then moves the links to the highest.
Deploying ==
  /\ pc \in {"recover", "recoverLink", "recoverDone"} =>
       \A j \in 1..4 : j < step => previous[LinkOrder[j]] = None
  /\ pc = "recoverLink" => live[LinkOrder[step]] = None
  /\ pc \in {"highest", "relink", "decide"} => \A k \in Kind : previous[k] = None
  /\ pc = "relink" =>
       ver \in Ver /\ Highest(ver) /\ \A j \in 1..4 : j < step => live[LinkOrder[j]] = ver
  /\ pc = "decide" /\ ver # None => Highest(ver) /\ \A k \in Kind : live[k] = ver

IInv == TypeOK /\ Numbers /\ Writing /\ Deploying

-----------------------------------------------------------------------------
(* The two orders, as functions on 1..4.                                   *)

LEMMA WriteOrders ==
  /\ Len(WriteOrder) = 4
  /\ WriteOrder[1] = "cert" /\ WriteOrder[2] = "chain" /\ WriteOrder[3] = "fullchain"
  /\ WriteOrder[4] = "privkey"
  BY DEF WriteOrder

LEMMA LinkOrders ==
  /\ Len(LinkOrder) = 4
  /\ LinkOrder[1] = "cert" /\ LinkOrder[2] = "privkey" /\ LinkOrder[3] = "chain"
  /\ LinkOrder[4] = "fullchain"
  BY DEF LinkOrder

LEMMA Indices == \A j \in 1..4 : j = 1 \/ j = 2 \/ j = 3 \/ j = 4
  OBVIOUS

LEMMA LinkOrderOnto ==
  /\ \A j \in 1..4 : LinkOrder[j] \in Kind
  /\ \A k \in Kind : \E j \in 1..4 : LinkOrder[j] = k
  /\ \A j, l \in 1..4 : LinkOrder[j] = LinkOrder[l] => j = l
<1>1. \A j \in 1..4 : LinkOrder[j] \in Kind
  BY LinkOrders, Indices DEF Kind
<1>2. \A k \in Kind : \E j \in 1..4 : LinkOrder[j] = k
  BY LinkOrders DEF Kind
<1>3. \A j, l \in 1..4 : LinkOrder[j] = LinkOrder[l] => j = l
  BY LinkOrders, Indices
<1> QED BY <1>1, <1>2, <1>3

LEMMA WriteOrderOnto ==
  /\ \A j \in 1..4 : WriteOrder[j] \in Kind /\ (WriteOrder[j] = "privkey" <=> j = 4)
  /\ \A k \in Kind : \E j \in 1..4 : WriteOrder[j] = k
  /\ \A j, l \in 1..4 : WriteOrder[j] = WriteOrder[l] => j = l
<1>1. \A j \in 1..4 : WriteOrder[j] \in Kind /\ (WriteOrder[j] = "privkey" <=> j = 4)
  BY WriteOrders, Indices DEF Kind
<1>2. \A k \in Kind : \E j \in 1..4 : WriteOrder[j] = k
  BY WriteOrders DEF Kind
<1>3. \A j, l \in 1..4 : WriteOrder[j] = WriteOrder[l] => j = l
  BY WriteOrders, Indices
<1> QED BY <1>1, <1>2, <1>3

\* All four have been visited when the last has.
LEMMA LastLink ==
  ASSUME NEW f, NEW x, \A j \in 1..4 : j < 4 => f[LinkOrder[j]] = x, f[LinkOrder[4]] = x
  PROVE  \A k \in Kind : f[k] = x
<1>1. \A j \in 1..4 : f[LinkOrder[j]] = x
  BY Indices
<1> QED BY <1>1, LinkOrderOnto

\* The version before is not there, and nothing is above it.
LEMMA NextIsNew ==
  ASSUME TypeOK, NEW n \in Ver, NextVersion(n)
  PROVE  (\A k \in Kind : archive[k][n] = None) /\ NothingAbove(n)
<1>1. ~(n < n) /\ \A v \in Ver : v < n => v <= n
  BY LineageAssumption DEF Ver
<1> QED BY <1>1 DEF NextVersion, Present, NothingAbove

LEMMA InitIInv == Init => IInv
<1> SUFFICES ASSUME Init PROVE IInv
  OBVIOUS
<1>1. TypeOK
  <2>1. 0 \in 0..MaxMishaps /\ 1 \in 1..4
    BY LineageAssumption
  <2> QED BY <2>1 DEF Init, TypeOK, Labels
<1>2. Numbers
  BY DEF Init, Numbers, Public
<1>3. Writing /\ Deploying
  BY DEF Init, Writing, Deploying
<1> QED BY <1>1, <1>2, <1>3 DEF IInv

-----------------------------------------------------------------------------
(* Write.                                                                  *)

LEMMA BeginWriteIInv ==
  ASSUME IInv, NEW n \in Ver, BeginWrite(n)
  PROVE  IInv'
<1> USE DEF IInv, BeginWrite, Goto
<1>1. KeyFor(n) \in Ver
  <2>1. PriorPrivkey \in Ver \cup {Torn, None}
    BY DEF TypeOK, PriorPrivkey, ReadLive, Kind
  <2> QED BY <2>1 DEF KeyFor
<1>2. (\A k \in Kind : archive[k][n] = None) /\ NothingAbove(n)
  BY NextIsNew
<1>3. TypeOK'
  BY <1>1 DEF TypeOK, Labels
<1>4. Numbers'
  BY DEF Numbers
<1>5. Writing'
  <2>1. NothingAbove(n)'
    BY <1>2 DEF NothingAbove, Present
  <2>2. \A j \in 1..4 : archive'[WriteOrder[j]][n] = IF j < 1 THEN n ELSE None
    BY <1>2, WriteOrderOnto
  <2>3. keyOf'[n] \in Ver
    BY <1>1 DEF TypeOK
  <2> QED BY <2>1, <2>2, <2>3 DEF Writing
<1>6. Deploying'
  BY DEF Deploying
<1> QED BY <1>3, <1>4, <1>5, <1>6

LEMMA WriteFileIInv == IInv /\ WriteFile => IInv'
<1> SUFFICES ASSUME IInv, WriteFile PROVE IInv'
  OBVIOUS
<1> USE DEF IInv, Goto
<1>1. pc = "write" /\ ver \in Ver /\ step \in 1..4 /\ NothingAbove(ver)
      /\ UNCHANGED <<keyOf, live, previous, liveDir, conf, ver, mishaps>>
  BY DEF WriteFile, Writing, TypeOK
<1> DEFINE x == IF step = 4 THEN Torn ELSE ver
<1>2. archive' = [archive EXCEPT ![WriteOrder[step]][ver] = x]
  BY <1>1, WriteOrderOnto DEF WriteFile
<1>3. IF step < 4 THEN step' = step + 1 /\ pc' = "write" ELSE step' = 1 /\ pc' = "fill"
  BY <1>1, WriteOrders DEF WriteFile
<1>4. WriteOrder[step] \in Kind /\ x \in Ver \cup {Torn}
  BY <1>1, WriteOrderOnto
<1> HIDE DEF x
<1>5. /\ archive' \in [Kind -> [Ver -> Ver \cup {Torn, None}]]
      /\ archive'[WriteOrder[step]][ver] = x
      /\ \A k \in Kind, v \in Ver : k # WriteOrder[step] \/ v # ver => archive'[k][v] = archive[k][v]
  BY <1>1, <1>2, <1>4 DEF TypeOK
<1>6. TypeOK'
  <2>1. step' \in 1..4 /\ pc' \in Labels
    BY <1>1, <1>3 DEF Labels
  <2> QED BY <1>1, <1>5, <2>1 DEF TypeOK
<1>7. Numbers'
  <2> SUFFICES ASSUME NEW k \in Public, NEW v \in Ver PROVE archive'[k][v] \in {None, v}
    BY DEF Numbers
  <2>1. CASE k = WriteOrder[step] /\ v = ver
    BY <1>1, <1>5, <2>1, WriteOrderOnto DEF x, Public
  <2>2. CASE k # WriteOrder[step] \/ v # ver
    BY <1>5, <2>2 DEF Numbers, Public
  <2> QED BY <2>1, <2>2
<1>8. Writing'
  <2>1. NothingAbove(ver)'
    <3> SUFFICES ASSUME NEW v \in Ver, v # ver, Present(v)' PROVE v <= ver
      BY <1>1, LineageAssumption DEF NothingAbove, Ver
    <3>1. Present(v)
      BY <1>5 DEF Present
    <3> QED BY <1>1, <3>1 DEF NothingAbove
  <2>2. \A j \in 1..4 : j # step => archive'[WriteOrder[j]][ver] = archive[WriteOrder[j]][ver]
    BY <1>1, <1>5, WriteOrderOnto
  <2>3. CASE step < 4
    <3>1. \A j \in 1..4 : archive'[WriteOrder[j]][ver] = IF j < step + 1 THEN ver ELSE None
      <4> SUFFICES ASSUME NEW j \in 1..4
                   PROVE  archive'[WriteOrder[j]][ver] = IF j < step + 1 THEN ver ELSE None
        OBVIOUS
      <4>1. CASE j = step
        BY <1>1, <1>5, <2>3, <4>1 DEF x
      <4>2. CASE j # step
        <5>1. j < step <=> j < step + 1
          BY <1>1, <4>2
        <5> QED BY <1>1, <2>2, <4>2, <5>1 DEF Writing
      <4> QED BY <4>1, <4>2
    <3> QED BY <1>1, <1>3, <2>1, <2>3, <3>1 DEF Writing
  <2>4. CASE step = 4
    <3>1. archive'["privkey"][ver] = Torn
      BY <1>5, <2>4, WriteOrders DEF x
    <3>2. Written(ver)'
      <4> SUFFICES ASSUME NEW k \in Public PROVE archive'[k][ver] = ver
        BY <1>1 DEF Written
      <4>1. PICK j \in 1..4 : WriteOrder[j] = k /\ j # 4
        BY WriteOrderOnto DEF Public
      <4>2. archive[k][ver] = ver
        BY <1>1, <2>4, <4>1 DEF Writing
      <4> QED BY <2>2, <2>4, <4>1, <4>2
    <3> QED BY <1>1, <1>3, <2>1, <2>4, <3>1, <3>2 DEF Writing
  <2> QED BY <1>1, <2>3, <2>4
<1>9. Deploying'
  BY <1>3 DEF Deploying
<1> QED BY <1>6, <1>7, <1>8, <1>9

LEMMA FillIInv == IInv /\ (FillPrivkey \/ FillFails) => IInv'
<1> SUFFICES ASSUME IInv, FillPrivkey \/ FillFails PROVE IInv'
  OBVIOUS
<1> USE DEF IInv, Goto, End
<1>1. ver \in Ver /\ keyOf[ver] \in Ver /\ NothingAbove(ver) /\ Written(ver)
      /\ UNCHANGED <<keyOf, live, previous, liveDir, conf, mishaps>>
  BY DEF FillPrivkey, FillFails, Writing
<1>2. \E x \in Ver \cup {None} : archive' = [archive EXCEPT !["privkey"][ver] = x]
  BY <1>1 DEF FillPrivkey, FillFails, Unlink
<1>3. /\ archive' \in [Kind -> [Ver -> Ver \cup {Torn, None}]]
      /\ \A k \in Public, v \in Ver : archive'[k][v] = archive[k][v]
      /\ \A k \in Kind, v \in Ver : v # ver => archive'[k][v] = archive[k][v]
  BY <1>1, <1>2 DEF TypeOK, Public, Kind
<1>4. TypeOK'
  BY <1>1, <1>3 DEF TypeOK, FillPrivkey, FillFails, Labels
<1>5. Numbers'
  BY <1>3 DEF Numbers
<1>6. Writing'
  <2>1. CASE FillPrivkey
    <3>1. NothingAbove(ver)'
      <4> SUFFICES ASSUME NEW v \in Ver, v # ver, Present(v)' PROVE v <= ver
        BY <1>1, <2>1, LineageAssumption DEF NothingAbove, Ver, FillPrivkey
      <4> QED BY <1>1, <1>3 DEF Present, NothingAbove
    <3>2. Written(ver)' /\ archive'["privkey"][ver] = keyOf[ver]
      BY <1>1, <1>3, <2>1 DEF Written, FillPrivkey, TypeOK, Kind
    <3> QED BY <1>1, <2>1, <3>1, <3>2 DEF FillPrivkey, Writing
  <2>2. CASE FillFails
    BY <2>2 DEF FillFails, Writing
  <2> QED BY <2>1, <2>2
<1>7. Deploying'
  BY DEF FillPrivkey, FillFails, Deploying
<1> QED BY <1>4, <1>5, <1>6, <1>7

LEMMA LinkFileIInv == IInv /\ LinkFile => IInv'
<1> SUFFICES ASSUME IInv, LinkFile PROVE IInv'
  OBVIOUS
<1> USE DEF IInv, Goto
<1>1. pc = "link" /\ ver \in Ver /\ step \in 1..4 /\ LinkOrder[step] \in Kind
      /\ UNCHANGED <<archive, keyOf, previous, liveDir, conf, ver, mishaps>>
  BY LinkOrderOnto DEF LinkFile, Writing, TypeOK
<1>2. IF step < 4 THEN step' = step + 1 /\ pc' = "link" ELSE step' = 1 /\ pc' = "conf"
  BY <1>1, LinkOrders DEF LinkFile
<1>3. /\ live' \in [Kind -> Ver \cup {None}]
      /\ live'[LinkOrder[step]] = ver
      /\ \A k \in Kind \ {LinkOrder[step]} : live'[k] = live[k]
  BY <1>1 DEF LinkFile, TypeOK
<1>4. TypeOK'
  <2>1. step' \in 1..4 /\ pc' \in Labels
    BY <1>1, <1>2 DEF Labels
  <2> QED BY <1>1, <1>3, <2>1 DEF TypeOK
<1>5. \A j \in 1..4 : j <= step => live'[LinkOrder[j]] = ver
  <2> SUFFICES ASSUME NEW j \in 1..4, j <= step PROVE live'[LinkOrder[j]] = ver
    OBVIOUS
  <2>1. CASE j = step
    BY <1>3, <2>1
  <2>2. CASE j # step
    <3>1. live[LinkOrder[j]] = ver
      BY <1>1, <2>2 DEF Writing
    <3> QED BY <1>1, <1>3, <2>2, <3>1, LinkOrderOnto
  <2> QED BY <2>1, <2>2
<1>6. NothingAbove(ver)' /\ Written(ver)'
  BY <1>1 DEF Writing, NothingAbove, Written, Present
<1>7. Writing'
  <2>1. CASE step < 4
    <3>1. \A j \in 1..4 : j < step' => live'[LinkOrder[j]] = ver
      BY <1>1, <1>2, <1>5, <2>1
    <3> QED BY <1>1, <1>2, <1>6, <2>1, <3>1 DEF Writing
  <2>2. CASE step = 4
    <3>1. \A k \in Kind : live'[k] = ver
      BY <1>5, <2>2, LinkOrderOnto
    <3> QED BY <1>1, <1>2, <1>6, <2>2, <3>1 DEF Writing
  <2> QED BY <1>1, <2>1, <2>2
<1>8. Numbers' /\ Deploying'
  BY <1>1, <1>2 DEF Numbers, Deploying
<1> QED BY <1>4, <1>7, <1>8

-----------------------------------------------------------------------------
(* EnsureDeployed.                                                         *)

\* Nothing but a sentinel or the position of the loop is changed.
RecoverStep == RecoverSkip \/ RecoverRemove \/ RecoverLink \/ RecoverDone

LEMMA RecoverIInv == IInv /\ RecoverStep => IInv'
<1> SUFFICES ASSUME IInv, RecoverStep PROVE IInv'
  OBVIOUS
<1> USE DEF IInv, Goto
<1>1. /\ pc \in {"recover", "recoverLink", "recoverDone"}
      /\ step \in 1..4 /\ LinkOrder[step] \in Kind
      /\ UNCHANGED <<archive, keyOf, liveDir, conf, ver, mishaps>>
  BY LinkOrderOnto
     DEF RecoverStep, RecoverSkip, RecoverRemove, RecoverLink, RecoverDone, TypeOK, disk
<1>2. \/ pc' \in {"recoverLink", "recoverDone"} /\ step' = step
      \/ step < 4 /\ step' = step + 1 /\ pc' = "recover"
      \/ step = 4 /\ step' = 1 /\ pc' = "highest"
  BY <1>1, LinkOrders
     DEF RecoverStep, RecoverSkip, RecoverRemove, RecoverLink, RecoverDone, NextKind
<1>3. TypeOK'
  <2>1. step' \in 1..4 /\ pc' \in Labels
    BY <1>1, <1>2 DEF Labels
  <2>2. live' \in [Kind -> Ver \cup {None}] /\ previous' \in [Kind -> Ver \cup {None}]
    BY <1>1 DEF RecoverStep, RecoverSkip, RecoverRemove, RecoverLink, RecoverDone, TypeOK, disk
  <2> QED BY <1>1, <2>1, <2>2 DEF TypeOK
<1>4. Numbers' /\ Writing'
  BY <1>1, <1>2 DEF Numbers, Writing
<1>5. Deploying'
  <2>1. CASE RecoverRemove \/ RecoverLink
    <3>1. /\ previous' = previous /\ step' = step
          /\ pc' = "recoverLink" => live'[LinkOrder[step]] = None
          /\ pc' \in {"recoverLink", "recoverDone"}
      BY <1>1, <2>1 DEF RecoverRemove, RecoverLink, TypeOK
    <3> QED BY <1>1, <3>1 DEF Deploying
  <2>2. CASE RecoverSkip \/ RecoverDone
    <3>1. previous'[LinkOrder[step]] = None
          /\ \A k \in Kind \ {LinkOrder[step]} : previous'[k] = previous[k]
      BY <1>1, <2>2 DEF RecoverSkip, RecoverDone, TypeOK, disk
    <3>2. \A j \in 1..4 : j <= step => previous'[LinkOrder[j]] = None
      <4> SUFFICES ASSUME NEW j \in 1..4, j <= step PROVE previous'[LinkOrder[j]] = None
        OBVIOUS
      <4>1. CASE j = step
        BY <3>1, <4>1
      <4>2. CASE j # step
        <5>1. previous[LinkOrder[j]] = None
          BY <1>1, <4>2 DEF Deploying
        <5> QED BY <1>1, <3>1, <4>2, <5>1, LinkOrderOnto
      <4> QED BY <4>1, <4>2
    <3>3. \/ step < 4 /\ step' = step + 1 /\ pc' = "recover"
          \/ step = 4 /\ step' = 1 /\ pc' = "highest"
      BY <1>1, <2>2, LinkOrders DEF RecoverSkip, RecoverDone, NextKind
    <3>4. CASE step < 4
      <4>1. \A j \in 1..4 : j < step' => previous'[LinkOrder[j]] = None
        BY <1>1, <3>2, <3>3, <3>4
      <4> QED BY <1>1, <3>3, <3>4, <4>1 DEF Deploying
    <3>5. CASE step = 4
      <4>1. \A k \in Kind : previous'[k] = None
        BY <3>2, <3>5, LinkOrderOnto
      <4> QED BY <3>3, <3>5, <4>1 DEF Deploying
    <3> QED BY <1>1, <3>4, <3>5
  <2> QED BY <2>1, <2>2 DEF RecoverStep
<1> QED BY <1>3, <1>4, <1>5

LEMMA PickHighestIInv == IInv /\ PickHighest => IInv'
<1> SUFFICES ASSUME IInv, PickHighest PROVE IInv'
  OBVIOUS
<1> USE DEF IInv, Goto, PickHighest, disk
<1>1. TypeOK'
  BY DEF TypeOK, Labels
<1>2. Numbers' /\ Writing'
  BY DEF Numbers, Writing
<1>3. Deploying'
  <2>1. CASE \E v \in Ver : Highest(v) /\ ver' = v /\ Goto("relink")
    BY <2>1 DEF Deploying, Highest, Present
  <2>2. CASE (\A v \in Ver : ~Present(v)) /\ ver' = None /\ Goto("decide")
    BY <2>2 DEF Deploying
  <2> QED BY <2>1, <2>2
<1> QED BY <1>1, <1>2, <1>3

LEMMA RelinkIInv == IInv /\ Relink => IInv'
<1> SUFFICES ASSUME IInv, Relink PROVE IInv'
  OBVIOUS
<1> USE DEF IInv, Goto
<1>1. pc = "relink" /\ ver \in Ver /\ step \in 1..4 /\ LinkOrder[step] \in Kind
      /\ UNCHANGED <<archive, keyOf, previous, liveDir, conf, ver, mishaps>>
  BY LinkOrderOnto DEF Relink, Deploying, TypeOK
<1>2. IF step < 4 THEN step' = step + 1 /\ pc' = "relink" ELSE step' = 1 /\ pc' = "decide"
  BY <1>1, LinkOrders DEF Relink, NextKind
<1>3. /\ live' \in [Kind -> Ver \cup {None}]
      /\ live'[LinkOrder[step]] = ver
      /\ \A k \in Kind \ {LinkOrder[step]} : live'[k] = live[k]
  BY <1>1 DEF Relink, TypeOK
<1>4. TypeOK'
  <2>1. step' \in 1..4 /\ pc' \in Labels
    BY <1>1, <1>2 DEF Labels
  <2> QED BY <1>1, <1>3, <2>1 DEF TypeOK
<1>5. \A j \in 1..4 : j <= step => live'[LinkOrder[j]] = ver
  <2> SUFFICES ASSUME NEW j \in 1..4, j <= step PROVE live'[LinkOrder[j]] = ver
    OBVIOUS
  <2>1. CASE j = step
    BY <1>3, <2>1
  <2>2. CASE j # step
    <3>1. live[LinkOrder[j]] = ver
      BY <1>1, <2>2 DEF Deploying
    <3> QED BY <1>1, <1>3, <2>2, <3>1, LinkOrderOnto
  <2> QED BY <2>1, <2>2
<1>6. Highest(ver)'
  BY <1>1 DEF Deploying, Highest, Present
<1>7. Deploying'
  <2>1. CASE step < 4
    <3>1. \A j \in 1..4 : j < step' => live'[LinkOrder[j]] = ver
      BY <1>1, <1>2, <1>5, <2>1
    <3> QED BY <1>1, <1>2, <1>6, <2>1, <3>1 DEF Deploying
  <2>2. CASE step = 4
    <3>1. \A k \in Kind : live'[k] = ver
      BY <1>5, <2>2, LinkOrderOnto
    <3> QED BY <1>1, <1>2, <1>6, <2>2, <3>1 DEF Deploying
  <2> QED BY <1>1, <2>1, <2>2
<1>8. Numbers' /\ Writing'
  BY <1>1, <1>2 DEF Numbers, Writing
<1> QED BY <1>4, <1>7, <1>8

-----------------------------------------------------------------------------
(* Everything else.                                                        *)

\* The verb goes on or ends, and writes nothing that the invariant speaks of.
PlainStep ==
  WriteConf \/ BeginRenew \/ DeployFails \/ DecideSkip \/ BeginDelete \/ DeleteLive \/ Stop

LEMMA PlainIInv == IInv /\ PlainStep => IInv'
<1> SUFFICES ASSUME IInv, PlainStep PROVE IInv'
  OBVIOUS
<1> USE DEF IInv, Goto, End, disk
<1>1. UNCHANGED <<archive, keyOf, mishaps>>
  BY DEF PlainStep, WriteConf, BeginRenew, DeployFails, DecideSkip, BeginDelete, DeleteLive, Stop
<1>2. /\ \/ pc' \in {"idle", "recover", "decideAnyway", "deleteLive", "deleteArchive"}
            /\ step' = 1
         \/ pc' = "deleteLive" /\ step' = step
      /\ ver' \in {ver, None}
  BY DEF PlainStep, WriteConf, BeginRenew, DeployFails, DecideSkip, BeginDelete, DeleteLive, Stop
<1>3. TypeOK'
  <2>1. step' \in 1..4 /\ pc' \in Labels /\ ver' \in Ver \cup {None}
    BY <1>2 DEF TypeOK, Labels
  <2>2. live' \in [Kind -> Ver \cup {None}] /\ previous' \in [Kind -> Ver \cup {None}]
    BY DEF PlainStep, WriteConf, BeginRenew, DeployFails, DecideSkip, BeginDelete, DeleteLive,
           Stop, TypeOK
  <2>3. liveDir' \in BOOLEAN /\ conf' \in BOOLEAN
    BY DEF PlainStep, WriteConf, BeginRenew, DeployFails, DecideSkip, BeginDelete, DeleteLive,
           Stop, TypeOK
  <2> QED BY <1>1, <2>1, <2>2, <2>3 DEF TypeOK
<1>4. Numbers' /\ Writing'
  BY <1>1, <1>2 DEF Numbers, Writing
<1>5. Deploying'
  <2>1. pc' \notin {"recoverLink", "recoverDone", "highest", "relink", "decide"}
    BY <1>2
  <2>2. pc' = "recover" => \A j \in 1..4 : ~(j < step')
    BY <1>2
  <2> QED BY <2>1, <2>2 DEF Deploying
<1> QED BY <1>3, <1>4, <1>5

LEMMA RemovalIInv == IInv /\ (DeleteArchive \/ UserDeletes) => IInv'
<1> SUFFICES ASSUME IInv, DeleteArchive \/ UserDeletes PROVE IInv'
  OBVIOUS
<1> USE DEF IInv, Goto, End
<1>1. /\ UNCHANGED <<keyOf, live, previous, liveDir, conf>>
      /\ pc' \in {"idle", "deleteArchive"} /\ step' \in 1..4 /\ ver' \in Ver \cup {None}
      /\ archive' = archive \/ \E k \in Kind, v \in Ver : archive' = [archive EXCEPT ![k][v] = None]
  BY DEF DeleteArchive, UserDeletes, Unlink, TypeOK
<1>2. mishaps' \in 0..MaxMishaps
  BY LineageAssumption DEF DeleteArchive, UserDeletes, TypeOK
<1>3. /\ archive' \in [Kind -> [Ver -> Ver \cup {Torn, None}]]
      /\ \A k \in Kind, v \in Ver : archive'[k][v] \in {archive[k][v], None}
  BY <1>1 DEF TypeOK
<1>4. TypeOK'
  BY <1>1, <1>2, <1>3 DEF TypeOK, Labels
<1>5. Numbers'
  BY <1>3 DEF Numbers, Public
<1>6. Writing' /\ Deploying'
  BY <1>1 DEF Writing, Deploying
<1> QED BY <1>4, <1>5, <1>6

LEMMA CertbotIInv == IInv /\ CertbotInterrupted => IInv'
<1> SUFFICES ASSUME IInv, CertbotInterrupted PROVE IInv'
  OBVIOUS
<1> USE DEF IInv
<1>1. PICK n \in Ver, S \in SUBSET Kind :
        /\ NextVersion(n)
        /\ keyOf' = [keyOf EXCEPT ![n] = n]
        /\ archive' = [k \in Kind |-> [archive[k] EXCEPT ![n] = n]]
        /\ previous' = [k \in Kind |-> IF k \in S THEN live[k] ELSE None]
        /\ \/ live' = live
           \/ S = Kind /\ \E M, R \in SUBSET Kind :
                live' = [k \in Kind |-> IF k \in R THEN None ELSE
                                        IF k \in M THEN n ELSE live[k]]
           \/ live' = [k \in Kind |-> n]
  BY DEF CertbotInterrupted
<1>2. live' \in [Kind -> Ver \cup {None}] /\ previous' \in [Kind -> Ver \cup {None}]
  BY <1>1 DEF TypeOK
<1>3. archive' \in [Kind -> [Ver -> Ver \cup {Torn, None}]]
  BY <1>1 DEF TypeOK
<1>4. TypeOK'
  BY <1>1, <1>2, <1>3 DEF CertbotInterrupted, TypeOK
<1>5. Numbers'
  BY <1>1 DEF Numbers, Public, TypeOK
<1>6. Writing' /\ Deploying'
  BY DEF CertbotInterrupted, Writing, Deploying
<1> QED BY <1>4, <1>5, <1>6

LEMMA NextIInv == IInv /\ [Next]_vars => IInv'
<1> SUFFICES ASSUME IInv, [Next]_vars PROVE IInv'
  OBVIOUS
<1>1. CASE UNCHANGED vars
  BY <1>1 DEF vars, IInv, TypeOK, Numbers, Writing, Deploying, NothingAbove, Written, Highest,
              Present
<1>2. CASE Issue \/ DecideRenew
  BY <1>2, BeginWriteIInv DEF Issue, DecideRenew
<1>3. CASE FillPrivkey \/ FillFails
  BY <1>3, FillIInv
<1>4. CASE RecoverStep
  BY <1>4, RecoverIInv
<1>5. CASE PlainStep
  BY <1>5, PlainIInv
<1>6. CASE DeleteArchive \/ UserDeletes
  BY <1>6, RemovalIInv
<1> QED BY <1>1, <1>2, <1>3, <1>4, <1>5, <1>6, WriteFileIInv, LinkFileIInv, PickHighestIInv,
           RelinkIInv, CertbotIInv
        DEF Next, RecoverStep, PlainStep

LEMMA Inductive == Spec => []IInv
  BY InitIInv, NextIInv, PTL DEF Spec

-----------------------------------------------------------------------------
(* The theorems.                                                           *)

\* Every reachable state is well typed.
THEOREM TypeCorrect == Spec => []TypeOK
<1>1. IInv => TypeOK
  BY DEF IInv
<1> QED BY Inductive, <1>1, PTL

\* No link is moved before the version is complete, and the conf is written when the
\* server sees it whole (Write).
THEOREM Publication == Spec => []PublishesComplete
<1>1. IInv => PublishesComplete
  <2> SUFFICES ASSUME IInv PROVE PublishesComplete
    OBVIOUS
  <2>1. ASSUME pc \in {"link", "conf"} PROVE Complete(ver)
    <3>1. /\ ver \in Ver /\ keyOf[ver] \in Ver /\ archive["privkey"][ver] = keyOf[ver]
          /\ \A k \in Public : archive[k][ver] = ver
      BY <2>1 DEF IInv, Writing, Written
    <3>2. \A k \in Kind : archive[k][ver] # None
      BY <3>1, LineageAssumption DEF Ver, Public
    <3> QED BY <3>1, <3>2 DEF Complete, Public, Kind
  <2>2. ASSUME pc = "conf" PROVE Serving /\ live["cert"] = ver
    <3>1. ver \in Ver /\ ver # None /\ Complete(ver) /\ \A k \in Kind : live[k] = ver
      BY <2>1, <2>2, LineageAssumption DEF IInv, Writing, Ver
    <3>2. \A k \in Kind : ReadLive(k) = archive[k][ver]
      BY <3>1 DEF ReadLive
    <3>3. \A k \in Public : archive[k][ver] = ver
      BY <2>2 DEF IInv, Writing, Written
    <3> QED BY <3>1, <3>2, <3>3 DEF Serving, Complete, Kind, Public
  <2> QED BY <2>1, <2>2 DEF PublishesComplete
<1> QED BY Inductive, <1>1, PTL

\* An EnsureDeployed that succeeds has all links at the highest version, and serves it
\* if it is complete, whatever it found (EnsureDeployed, recoverPreviousLinks).
THEOREM Recovery == Spec => []DeployRecovers
<1>1. IInv => DeployRecovers
  <2> SUFFICES ASSUME IInv, pc = "decide", ver # None
               PROVE  /\ \A k \in Kind : live[k] = ver /\ previous[k] = None
                      /\ Highest(ver)
                      /\ Complete(ver) => Serving
    BY DEF DeployRecovers
  <2>1. Highest(ver) /\ \A k \in Kind : live[k] = ver /\ previous[k] = None
    BY DEF IInv, Deploying
  <2>2. ASSUME Complete(ver) PROVE Serving
    <3>1. \A k \in Kind : ReadLive(k) = archive[k][ver]
      BY <2>1 DEF ReadLive
    <3>2. \A k \in Kind : archive[k][ver] # None
      BY <2>2 DEF Complete
    <3>3. ver \in Ver
      BY DEF IInv, TypeOK
    <3>4. \A k \in Public : archive[k][ver] = ver
      BY <3>2, <3>3 DEF IInv, Numbers, Public
    <3> QED BY <2>2, <3>1, <3>2, <3>4 DEF Serving, Complete, Kind, Public
  <2> QED BY <2>1, <2>2
<1> QED BY Inductive, <1>1, PTL

\* An archived file is written once (Write, NextVersion).
THEOREM WrittenOnce == Spec => WriteOnce
<1> DEFINE Once ==
      \A k \in Kind, v \in Ver :
        archive[k][v] \notin {None, Torn} /\ archive'[k][v] # archive[k][v] =>
          archive'[k][v] = None /\ (pc = "deleteArchive" \/ mishaps' > mishaps)
<1>1. IInv /\ [Next]_vars => [Once]_vars
  <2> SUFFICES ASSUME IInv, Next, NEW k \in Kind, NEW v \in Ver,
                      archive[k][v] \notin {None, Torn}, archive'[k][v] # archive[k][v]
               PROVE  archive'[k][v] = None /\ (pc = "deleteArchive" \/ mishaps' > mishaps)
    OBVIOUS
  <2> USE DEF IInv
  <2>1. CASE WriteFile
    <3>1. pc = "write" /\ step \in 1..4 /\ WriteOrder[step] \in Kind /\ ver \in Ver
      BY <2>1, WriteOrderOnto DEF WriteFile, Writing, TypeOK
    <3>2. archive[WriteOrder[step]][ver] = None
      BY <3>1 DEF Writing
    <3>3. k = WriteOrder[step] /\ v = ver
      BY <2>1, <3>1 DEF WriteFile, TypeOK
    <3> QED BY <3>2, <3>3
  <2>2. CASE FillPrivkey \/ FillFails
    <3>1. pc = "fill" /\ archive["privkey"][ver] = Torn
      BY <2>2 DEF FillPrivkey, FillFails, Writing
    <3>2. k = "privkey" /\ v = ver
      BY <2>2, <3>1 DEF FillPrivkey, FillFails, Unlink, TypeOK
    <3> QED BY <3>1, <3>2
  <2>3. CASE DeleteArchive
    BY <2>3 DEF DeleteArchive, Unlink, TypeOK
  <2>4. CASE UserDeletes
    <3>1. mishaps' > mishaps
      BY <2>4 DEF UserDeletes, TypeOK
    <3> QED BY <2>4, <3>1 DEF UserDeletes, Unlink, TypeOK
  <2>5. CASE CertbotInterrupted
    <3>1. PICK n \in Ver : NextVersion(n) /\ archive' = [l \in Kind |-> [archive[l] EXCEPT ![n] = n]]
      BY <2>5 DEF CertbotInterrupted
    <3>2. v = n
      BY <3>1 DEF TypeOK
    <3> QED BY <3>1, <3>2, NextIsNew
  <2>6. CASE ~(WriteFile \/ FillPrivkey \/ FillFails \/ DeleteArchive \/ UserDeletes
               \/ CertbotInterrupted)
    BY <2>6 DEF Next, Issue, BeginWrite, LinkFile, WriteConf, BeginRenew, RecoverSkip,
                RecoverRemove, RecoverLink, RecoverDone, PickHighest, Relink, DeployFails,
                DecideSkip, DecideRenew, BeginDelete, DeleteLive, Stop, disk
  <2> QED BY <2>1, <2>2, <2>3, <2>4, <2>5, <2>6
<1> QED BY Inductive, <1>1, PTL DEF Spec, WriteOnce

\* A live link goes only with the lineage, or while its sentinel is there
\* (recoverPreviousLinks).
THEOREM LinksKept == Spec => LinkNeverLost
<1> DEFINE Found ==
      \A k \in Kind : live[k] # None /\ live'[k] = None => pc = "deleteLive" \/ previous'[k] # None
<1>1. IInv /\ [Next]_vars => [Found]_vars
  <2> SUFFICES ASSUME IInv, Next, NEW k \in Kind, live[k] # None, live'[k] = None,
                      pc # "deleteLive"
               PROVE  previous'[k] # None
    OBVIOUS
  <2> USE DEF IInv
  <2>1. CASE RecoverRemove
    BY <2>1 DEF RecoverRemove, TypeOK
  <2>2. CASE CertbotInterrupted
    BY <2>2, LineageAssumption DEF CertbotInterrupted, TypeOK, Ver
  <2>3. CASE LinkFile \/ Relink
    <3>1. ver \in Ver /\ ver # None
      BY <2>3, LineageAssumption DEF LinkFile, Relink, Writing, Deploying, Ver
    <3> QED BY <2>3, <3>1 DEF LinkFile, Relink, TypeOK
  <2>4. CASE RecoverLink
    BY <2>4 DEF RecoverLink, TypeOK, Deploying
  <2>5. CASE ~(RecoverRemove \/ CertbotInterrupted \/ LinkFile \/ Relink \/ RecoverLink)
    BY <2>5 DEF Next, Issue, BeginWrite, WriteFile, FillPrivkey, FillFails, WriteConf, BeginRenew,
                RecoverSkip, RecoverDone, PickHighest, DeployFails, DecideSkip, DecideRenew,
                BeginDelete, DeleteLive, DeleteArchive, UserDeletes, Stop, disk
  <2> QED BY <2>1, <2>2, <2>3, <2>4, <2>5
<1> QED BY Inductive, <1>1, PTL DEF Spec, LinkNeverLost

\* No link moves to an older version that a newer one stands above (Write,
\* EnsureDeployed).
THEOREM Forwards == Spec => NeverBackwards
<1> DEFINE Forward ==
      \A k \in Kind : live[k] # None /\ live'[k] # None /\ live'[k] < live[k] => ~Present(live[k])
<1>1. IInv /\ [Next]_vars => [Forward]_vars
  <2> SUFFICES ASSUME IInv, Next, NEW k \in Kind, live[k] # None, live'[k] # None,
                      live'[k] < live[k]
               PROVE  ~Present(live[k])
    OBVIOUS
  <2> USE DEF IInv
  <2>1. live[k] \in Ver /\ live[k] \in Nat /\ live'[k] # live[k]
    BY DEF TypeOK, Ver
  <2>2. CASE LinkFile \/ Relink
    <3>1. ver \in Ver /\ NothingAbove(ver)
      BY <2>2 DEF LinkFile, Relink, Writing, Deploying, Highest, NothingAbove
    <3>2. live'[k] = ver
      BY <2>1, <2>2 DEF LinkFile, Relink, TypeOK
    <3> QED BY <2>1, <3>1, <3>2 DEF NothingAbove, Ver
  <2>3. CASE CertbotInterrupted
    <3>1. PICK n \in Ver : NextVersion(n) /\ live'[k] \in {live[k], n, None}
      BY <2>3 DEF CertbotInterrupted
    <3>2. live'[k] = n
      BY <2>1, <3>1
    <3> QED BY <2>1, <3>1, <3>2, NextIsNew DEF NothingAbove, Ver
  <2>4. CASE RecoverLink
    BY <2>1, <2>4 DEF RecoverLink, Deploying, TypeOK
  <2>5. CASE RecoverRemove \/ DeleteLive
    BY <2>1, <2>5 DEF RecoverRemove, DeleteLive, TypeOK
  <2>6. CASE ~(LinkFile \/ Relink \/ CertbotInterrupted \/ RecoverLink \/ RecoverRemove
               \/ DeleteLive)
    BY <2>1, <2>6
       DEF Next, Issue, BeginWrite, WriteFile, FillPrivkey, FillFails, WriteConf, BeginRenew,
           RecoverSkip, RecoverDone, PickHighest, DeployFails, DecideSkip, DecideRenew,
           BeginDelete, DeleteArchive, UserDeletes, Stop, disk
  <2> QED BY <2>2, <2>3, <2>4, <2>5, <2>6
<1> QED BY Inductive, <1>1, PTL DEF Spec, NeverBackwards
============================================================================
