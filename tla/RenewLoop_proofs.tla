-------------------------- MODULE RenewLoop_proofs --------------------------
(***************************************************************************)
(* The renewal loop is correct for any number of lineages, any hooks and   *)
(* credentials and any number of runs.  Its properties are about what an   *)
(* earlier step of a run has left to a later one, so none is inductive:    *)
(* LoopInv, HookInv and SettingInv say what is left.  The timing of one    *)
(* lineage's renewal (RenewTiming) has its theorems at the end.            *)
(***************************************************************************)
EXTENDS RenewLoop, Integers, TLAPS

\* Where the loop has been there is an outcome, and at the end everywhere.
LoopInv ==
  /\ pc # "idle" \/ exit = "ok" => at \in LineageNo
  /\ pc # "idle" => posts = 0
  /\ pc \notin {"idle", "post"} =>
       \A l \in LineageNo : l < at /\ Selected(l) => outcome[l] # "none"
  /\ pc = "post" => \A l \in LineageNo : Selected(l) => outcome[l] # "none"
  /\ ~signalled => \A l \in LineageNo : outcome[l] = "renewed" => l \in deployed
  /\ pc = "idle" /\ exit = "ok" =>
       /\ cli.name # N + 1
       /\ \A l \in LineageNo : Selected(l) => outcome[l] \in {"skipped", "renewed"}

\* A pre-hook that counts as run was started, once, unless a signal came before.
HookInv ==
  /\ pc = "idle" => ran = {}
  /\ \A h \in Hook : started[h] <= 1 /\ (pc # "idle" /\ h \notin ran => started[h] = 0)
  /\ ~signalled => \A h \in ran : started[h] = 1
  /\ pc \in {"dir", "order"} /\ merged.pre # None => merged.pre \in ran

\* The lineage's copy of the configuration, and why it is renewed.
SettingInv ==
  /\ pc \in {"decide", "pre", "dir", "order"} =>
       /\ Selected(at)
       /\ merged.pre = IF cli.pre # None THEN cli.pre ELSE conf[at].pre
       /\ merged.autorenew = IF cli.autorenew = "unset" THEN conf[at].autorenew
                             ELSE cli.autorenew = "yes"
  /\ pc \in {"pre", "dir", "order"} => cli.force \/ merged.autorenew

IInv == TypeOK /\ LoopInv /\ HookInv /\ SettingInv

USE DEF LineageNo

-----------------------------------------------------------------------------
\* The loop at its start.
LEMMA InitIInv == Init => IInv
<1>1. ASSUME Init PROVE TypeOK
  <2>1. cli \in Cli
    BY <1>1, RenewLoopAssumption DEF Init, Cli
  <2>2. started \in [Hook -> Nat]
    BY <1>1 DEF Init
  <2>3. outcome \in [LineageNo -> {"none", "skipped", "renewed", "failed", "parse"}]
    BY <1>1 DEF Init
  <2>4. runs \in 0..MaxRuns
    BY <1>1, RenewLoopAssumption DEF Init
  <2> QED BY <1>1, <2>1, <2>2, <2>3, <2>4 DEF Init, Default, TypeOK
<1>2. Init => LoopInv /\ HookInv /\ SettingInv
  BY DEF Init, Default, LoopInv, HookInv, SettingInv
<1> QED BY <1>1, <1>2 DEF IInv

\* Types, and the loop's position, after the lineage is through.
LEMMA OutcomeGoesOn ==
  ASSUME TypeOK, LoopInv, pc # "idle", pc # "post", cli' = cli,
         NEW o \in {"skipped", "renewed", "failed", "parse"}, Outcome(o)
  PROVE  /\ at' \in LineageNo
         /\ pc' \in {"load", "post"}
         /\ outcome' = [outcome EXCEPT ![at] = o]
         /\ outcome' \in [LineageNo -> {"none", "skipped", "renewed", "failed", "parse"}]
         /\ pc' = "load" =>
              \A l \in LineageNo : l < at' /\ Selected(l)' => outcome'[l] # "none"
         /\ pc' = "post" => \A l \in LineageNo : Selected(l)' => outcome'[l] # "none"
<1>1. N \in Nat /\ at \in LineageNo
  BY RenewLoopAssumption DEF LoopInv
<1>2. outcome \in [LineageNo -> {"none", "skipped", "renewed", "failed", "parse"}]
  BY DEF TypeOK
<1>3. \A l \in LineageNo : l <= at /\ Selected(l)' => outcome'[l] # "none"
  BY <1>1, <1>2 DEF Outcome, LoopInv, Selected
<1>4. CASE at < N
  BY <1>1, <1>2, <1>3, <1>4 DEF Outcome, Advance, Goto
<1>5. CASE ~(at < N)
  BY <1>1, <1>2, <1>3, <1>5 DEF Outcome, Advance, Goto
<1> QED BY <1>4, <1>5

\* The same when another lineage is passed over.
LEMMA PassOverGoesOn ==
  ASSUME TypeOK, LoopInv, PassOver
  PROVE  /\ at' \in LineageNo
         /\ pc' \in {"load", "post"}
         /\ pc' = "load" =>
              \A l \in LineageNo : l < at' /\ Selected(l)' => outcome'[l] # "none"
         /\ pc' = "post" => \A l \in LineageNo : Selected(l)' => outcome'[l] # "none"
<1>1. N \in Nat /\ at \in LineageNo /\ cli' = cli /\ outcome' = outcome
  BY RenewLoopAssumption DEF LoopInv, PassOver, history
<1>2. \A l \in LineageNo : l <= at /\ Selected(l)' => outcome'[l] # "none"
  BY <1>1 DEF PassOver, LoopInv, Selected
<1>3. CASE at < N
  BY <1>1, <1>2, <1>3 DEF PassOver, Advance, Goto
<1>4. CASE ~(at < N)
  BY <1>1, <1>2, <1>4 DEF PassOver, Advance, Goto
<1> QED BY <1>3, <1>4

-----------------------------------------------------------------------------
\* Every step keeps the types.
LEMMA NextTypeOK == IInv /\ [Next]_vars => TypeOK'
<1> SUFFICES ASSUME IInv, [Next]_vars PROVE TypeOK'
  OBVIOUS
<1>0. TypeOK /\ LoopInv /\ N \in Nat /\ MaxRuns \in Nat
  BY RenewLoopAssumption DEF IInv
<1> USE DEF memory, history
<1>1. ASSUME NEW c \in Cli, Begin(c) PROVE TypeOK'
  <2>1. started' \in [Hook -> Nat]
    BY <1>1 DEF Begin
  <2>2. outcome' \in [LineageNo -> {"none", "skipped", "renewed", "failed", "parse"}]
    BY <1>1 DEF Begin
  <2>3. runs' \in 0..MaxRuns
    BY <1>0, <1>1 DEF Begin, TypeOK
  <2> QED BY <1>0, <1>1, <2>1, <2>2, <2>3 DEF Begin, Goto, TypeOK
<1>2. CASE ParseError
  BY <1>0, <1>2, OutcomeGoesOn DEF ParseError, TypeOK
<1>3. CASE Merge
  <2>1. conf[at] \in Conf
    BY <1>0, <1>3 DEF Merge, LoopInv, TypeOK
  <2>2. merged' \in [pre : Hook \cup {None}, autorenew : BOOLEAN]
    BY <1>0, <1>3, <2>1 DEF Merge, TypeOK, Cli, Conf
  <2>3. creds' \in Cred \cup {None}
    BY <1>0, <1>3, <2>1 DEF Merge, TypeOK, Cli, Conf
  <2> QED BY <1>0, <1>3, <2>2, <2>3 DEF Merge, Goto, TypeOK
<1>4. CASE Skip
  BY <1>0, <1>4, OutcomeGoesOn DEF Skip, TypeOK
<1>5. CASE SkipForAri
  BY <1>0, <1>5, OutcomeGoesOn DEF SkipForAri, TypeOK
<1>6. CASE Attempt
  BY <1>0, <1>6 DEF Attempt, Goto, TypeOK
<1>7. CASE NoPreHook
  BY <1>0, <1>7 DEF NoPreHook, Goto, TypeOK
<1>8. CASE PreHook
  <2>1. merged.pre \in Hook /\ ran' \subseteq Hook /\ started' \in [Hook -> Nat]
    BY <1>0, <1>8 DEF PreHook, NewHook, TypeOK
  <2>2. CASE Goto("dir") /\ UNCHANGED <<outcome, at>>
    BY <1>0, <1>8, <2>1, <2>2 DEF PreHook, Goto, TypeOK
  <2>3. CASE Outcome("failed")
    BY <1>0, <1>8, <2>1, <2>3, OutcomeGoesOn DEF PreHook, TypeOK
  <2> QED BY <1>8, <2>2, <2>3 DEF PreHook
<1>9. CASE PreHookCancelled
  BY <1>0, <1>9, OutcomeGoesOn DEF PreHookCancelled, NewHook, TypeOK
<1>10. CASE DirectoryHooks
  <2>1. CASE Goto("order") /\ UNCHANGED <<outcome, at>>
    BY <1>0, <1>10, <2>1 DEF DirectoryHooks, Goto, TypeOK
  <2>2. CASE Outcome("failed")
    BY <1>0, <1>10, <2>2, OutcomeGoesOn DEF DirectoryHooks, TypeOK
  <2> QED BY <1>10, <2>1, <2>2 DEF DirectoryHooks
<1>11. CASE OrderFails
  BY <1>0, <1>11, OutcomeGoesOn DEF OrderFails, TypeOK
<1>12. CASE Order
  <2>1. conf[at] \in Conf /\ at \in LineageNo
    BY <1>0, <1>12 DEF Order, LoopInv, TypeOK
  <2>2. Recorded \in Conf
    BY <1>0, <2>1 DEF Recorded, Conf, TypeOK
  <2> QED BY <1>0, <1>12, <2>1, <2>2 DEF Order, Goto, TypeOK
<1>13. CASE OrderUnrecorded
  BY <1>0, <1>13, OutcomeGoesOn DEF OrderUnrecorded, TypeOK
<1>14. CASE Deploy
  <2>1. deployed' \subseteq LineageNo
    BY <1>0, <1>14 DEF Deploy, LoopInv, TypeOK
  <2> QED BY <1>0, <1>14, <2>1, OutcomeGoesOn DEF Deploy, TypeOK
<1>15. CASE Post
  <2>1. posts' \in {0, 1}
    BY <1>0, <1>15 DEF Post, TypeOK, LoopInv
  <2> QED BY <1>0, <1>15, <2>1 DEF Post, End, Default, Goto, TypeOK
<1>16. CASE SignalArrives
  BY <1>0, <1>16 DEF SignalArrives, TypeOK
<1>17. CASE Kill
  BY <1>0, <1>17 DEF Kill, End, Default, Goto, TypeOK
<1>18. CASE TimePasses
  BY <1>0, <1>18 DEF TimePasses, TypeOK
<1>19. CASE UNCHANGED vars
  BY <1>0, <1>19 DEF vars, TypeOK
<1>20. CASE NoSuchLineage
  BY <1>0, <1>20 DEF NoSuchLineage, Goto, TypeOK
<1>21. CASE PassOver
  BY <1>0, <1>21, PassOverGoesOn DEF PassOver, TypeOK
<1> QED
  BY <1>1, <1>2, <1>3, <1>4, <1>5, <1>6, <1>7, <1>8, <1>9, <1>10, <1>11, <1>12,
     <1>13, <1>14, <1>15, <1>16, <1>17, <1>18, <1>19, <1>20, <1>21 DEF Next

-----------------------------------------------------------------------------
\* Every step keeps what the loop has left behind it.
LEMMA NextLoopInv == IInv /\ [Next]_vars => LoopInv'
<1> SUFFICES ASSUME IInv, [Next]_vars PROVE LoopInv'
  OBVIOUS
<1>0. TypeOK /\ LoopInv /\ N \in Nat
  BY RenewLoopAssumption DEF IInv
<1>a. outcome \in [LineageNo -> {"none", "skipped", "renewed", "failed", "parse"}]
  BY <1>0 DEF TypeOK
<1> USE DEF memory, history, Selected
<1>1. ASSUME NEW c \in Cli, Begin(c) PROVE LoopInv'
  BY <1>0, <1>1 DEF Begin, Goto, LoopInv
<1>2. CASE ParseError
  BY <1>0, <1>a, <1>2, OutcomeGoesOn DEF ParseError, LoopInv
<1>3. CASE Merge
  BY <1>0, <1>3 DEF Merge, Goto, LoopInv
<1>4. CASE Skip
  BY <1>0, <1>a, <1>4, OutcomeGoesOn DEF Skip, LoopInv
<1>5. CASE SkipForAri
  BY <1>0, <1>a, <1>5, OutcomeGoesOn DEF SkipForAri, LoopInv
<1>6. CASE Attempt
  BY <1>0, <1>6 DEF Attempt, Goto, LoopInv
<1>7. CASE NoPreHook
  BY <1>0, <1>7 DEF NoPreHook, Goto, LoopInv
<1>8. CASE PreHook
  <2>1. CASE Goto("dir") /\ UNCHANGED <<outcome, at>>
    BY <1>0, <1>8, <2>1 DEF PreHook, Goto, LoopInv
  <2>2. CASE Outcome("failed")
    BY <1>0, <1>a, <1>8, <2>2, OutcomeGoesOn DEF PreHook, LoopInv
  <2> QED BY <1>8, <2>1, <2>2 DEF PreHook
<1>9. CASE PreHookCancelled
  BY <1>0, <1>a, <1>9, OutcomeGoesOn DEF PreHookCancelled, LoopInv
<1>10. CASE DirectoryHooks
  <2>1. CASE Goto("order") /\ UNCHANGED <<outcome, at>>
    BY <1>0, <1>10, <2>1 DEF DirectoryHooks, Goto, LoopInv
  <2>2. CASE Outcome("failed")
    BY <1>0, <1>a, <1>10, <2>2, OutcomeGoesOn DEF DirectoryHooks, LoopInv
  <2> QED BY <1>10, <2>1, <2>2 DEF DirectoryHooks
<1>11. CASE OrderFails
  BY <1>0, <1>a, <1>11, OutcomeGoesOn DEF OrderFails, LoopInv
<1>12. CASE Order
  BY <1>0, <1>12 DEF Order, Goto, LoopInv
<1>13. CASE OrderUnrecorded
  BY <1>0, <1>a, <1>13, OutcomeGoesOn DEF OrderUnrecorded, LoopInv
<1>14. CASE Deploy
  BY <1>0, <1>a, <1>14, OutcomeGoesOn DEF Deploy, LoopInv
<1>15. CASE Post
  <2>1. exit' = "ok" =>
          /\ cli.name # N + 1
          /\ \A l \in LineageNo : Selected(l) => outcome[l] \in {"skipped", "renewed"}
    BY <1>0, <1>a, <1>15 DEF Post, Failures, LoopInv
  <2> QED BY <1>0, <1>15, <2>1 DEF Post, End, Goto, LoopInv
<1>16. CASE SignalArrives
  BY <1>0, <1>16 DEF SignalArrives, LoopInv
<1>17. CASE Kill
  BY <1>0, <1>17 DEF Kill, End, Goto, LoopInv
<1>18. CASE TimePasses
  BY <1>0, <1>18 DEF TimePasses, LoopInv
<1>19. CASE UNCHANGED vars
  BY <1>0, <1>19 DEF vars, LoopInv
<1>20. CASE NoSuchLineage
  <2>1. \A l \in LineageNo : ~Selected(l)
    BY <1>0, <1>20 DEF NoSuchLineage
  <2> QED BY <1>0, <1>20, <2>1 DEF NoSuchLineage, Goto, LoopInv
<1>21. CASE PassOver
  <2>1. posts' = 0 /\ UNCHANGED <<signalled, outcome, deployed>>
    BY <1>0, <1>21 DEF PassOver, LoopInv
  <2> QED BY <1>0, <1>21, <2>1, PassOverGoesOn DEF LoopInv
<1> QED
  BY <1>1, <1>2, <1>3, <1>4, <1>5, <1>6, <1>7, <1>8, <1>9, <1>10, <1>11, <1>12,
     <1>13, <1>14, <1>15, <1>16, <1>17, <1>18, <1>19, <1>20, <1>21 DEF Next

\* Every step keeps the account of the pre-hooks.
LEMMA NextHookInv == IInv /\ [Next]_vars => HookInv'
<1> SUFFICES ASSUME IInv, [Next]_vars PROVE HookInv'
  OBVIOUS
<1>0. TypeOK /\ LoopInv /\ HookInv /\ None \notin Hook
  BY RenewLoopAssumption DEF IInv
<1> USE DEF memory, history
<1>1. ASSUME NEW c \in Cli, Begin(c) PROVE HookInv'
  BY <1>0, <1>1 DEF Begin, Goto, HookInv
<1>2. ASSUME Outcome("skipped") \/ Outcome("failed") \/ Outcome("parse") \/ Outcome("renewed"),
             pc \notin {"idle", "post"}, cli' = cli
      PROVE  pc' \notin {"idle", "dir", "order"}
  BY <1>0, <1>2, OutcomeGoesOn
<1>3. CASE ParseError \/ Skip \/ SkipForAri \/ OrderFails \/ OrderUnrecorded \/ Deploy
  <2>1. /\ UNCHANGED <<started, ran, merged, signalled>>
        /\ pc # "idle" /\ pc' \notin {"idle", "dir", "order"}
    BY <1>2, <1>3 DEF ParseError, Skip, SkipForAri, OrderFails, OrderUnrecorded, Deploy
  <2> QED BY <1>0, <2>1 DEF HookInv
<1>4. CASE Merge \/ Attempt \/ Order \/ NoSuchLineage \/ PassOver
  <2>1. /\ UNCHANGED <<started, ran, signalled>>
        /\ pc # "idle" /\ pc' \notin {"idle", "dir", "order"}
    BY <1>4 DEF Merge, Attempt, Order, NoSuchLineage, PassOver, Advance, Goto
  <2> QED BY <1>0, <2>1 DEF HookInv
<1>11. CASE Post \/ Kill
  <2>1. UNCHANGED started /\ ran' = {} /\ pc' = "idle"
    BY <1>11 DEF Post, Kill, End, Goto
  <2> QED BY <1>0, <2>1 DEF HookInv
<1>5. CASE NoPreHook
  BY <1>0, <1>5 DEF NoPreHook, NewHook, Goto, HookInv
<1>6. CASE PreHook
  <2>1. merged.pre \in Hook /\ started \in [Hook -> Nat] /\ started[merged.pre] = 0
    BY <1>0, <1>6 DEF PreHook, NewHook, TypeOK, HookInv
  <2>2. started' = [started EXCEPT ![merged.pre] = 1] /\ ran' = ran \cup {merged.pre}
    BY <1>6, <2>1 DEF PreHook
  <2>3. UNCHANGED <<signalled, merged>> /\ pc # "idle" /\ pc' # "idle"
    BY <1>2, <1>6 DEF PreHook, Goto
  <2> QED BY <1>0, <2>1, <2>2, <2>3 DEF HookInv, TypeOK
<1>7. CASE PreHookCancelled
  <2>1. pc # "idle" /\ pc' \notin {"idle", "dir", "order"}
    BY <1>2, <1>7 DEF PreHookCancelled
  <2> QED BY <1>0, <1>7, <2>1 DEF PreHookCancelled, HookInv
<1>8. CASE DirectoryHooks
  <2>1. pc = "dir" /\ pc' # "idle" /\ UNCHANGED <<started, ran, merged, signalled>>
    BY <1>2, <1>8 DEF DirectoryHooks, Goto
  <2> QED BY <1>0, <2>1 DEF HookInv
<1>9. CASE SignalArrives
  BY <1>0, <1>9 DEF SignalArrives, HookInv
<1>10. CASE TimePasses \/ UNCHANGED vars
  BY <1>0, <1>10 DEF TimePasses, vars, HookInv
<1> QED
  BY <1>1, <1>3, <1>4, <1>5, <1>6, <1>7, <1>8, <1>9, <1>10, <1>11 DEF Next

\* Every step keeps the lineage's copy of the configuration in accord with the
\* command line and the conf it was made from.
LEMMA NextSettingInv == IInv /\ [Next]_vars => SettingInv'
<1> SUFFICES ASSUME IInv, [Next]_vars PROVE SettingInv'
  OBVIOUS
<1>0. TypeOK /\ LoopInv /\ SettingInv
  BY DEF IInv
<1> USE DEF memory, history, Selected
<1>1. ASSUME NEW c \in Cli, Begin(c) PROVE SettingInv'
  BY <1>1 DEF Begin, Goto, SettingInv
<1>2. ASSUME NEW o \in {"skipped", "renewed", "failed", "parse"}, Outcome(o),
             pc \notin {"idle", "post"}, cli' = cli
      PROVE  SettingInv'
  BY <1>0, <1>2, OutcomeGoesOn DEF SettingInv
<1>3. CASE ParseError \/ Skip \/ SkipForAri \/ OrderFails \/ OrderUnrecorded \/ Deploy
           \/ PreHookCancelled
  BY <1>2, <1>3 DEF ParseError, Skip, SkipForAri, OrderFails, OrderUnrecorded, Deploy,
                    PreHookCancelled
<1>4. CASE Merge
  BY <1>4 DEF Merge, Goto, SettingInv
<1>5. CASE Attempt
  BY <1>0, <1>5 DEF Attempt, Wanted, Goto, SettingInv
<1>6. CASE NoPreHook
  BY <1>0, <1>6 DEF NoPreHook, Goto, SettingInv
<1>7. CASE PreHook
  <2>1. CASE Goto("dir") /\ UNCHANGED <<outcome, at>>
    BY <1>0, <1>7, <2>1 DEF PreHook, Goto, SettingInv
  <2> QED BY <1>2, <1>7, <2>1 DEF PreHook
<1>8. CASE DirectoryHooks
  <2>1. CASE Goto("order") /\ UNCHANGED <<outcome, at>>
    BY <1>0, <1>8, <2>1 DEF DirectoryHooks, Goto, SettingInv
  <2> QED BY <1>2, <1>8, <2>1 DEF DirectoryHooks
<1>9. CASE Order \/ Post \/ Kill \/ NoSuchLineage \/ PassOver
  BY <1>9 DEF Order, Post, Kill, NoSuchLineage, PassOver, Advance, End, Goto, SettingInv
<1>10. CASE SignalArrives \/ TimePasses \/ UNCHANGED vars
  BY <1>0, <1>10 DEF SignalArrives, TimePasses, vars, SettingInv
<1> QED
  BY <1>1, <1>3, <1>4, <1>5, <1>6, <1>7, <1>8, <1>9, <1>10 DEF Next

LEMMA Inductive == Spec => []IInv
<1>1. IInv /\ [Next]_vars => IInv'
  BY NextTypeOK, NextLoopInv, NextHookInv, NextSettingInv DEF IInv
<1> QED BY InitIInv, <1>1, PTL DEF Spec

-----------------------------------------------------------------------------
\* Every reachable state of the renewal loop is well typed.
THEOREM TypeCorrect == Spec => []TypeOK
<1>1. IInv => TypeOK
  BY DEF IInv
<1> QED BY Inductive, <1>1, PTL

\* Across all lineages a pre-hook is started at most once (PreRunner.Run), and
\* no order is made before its pre-hook was (renewOne).
THEOREM HooksOnceBefore == Spec => []PreHookOnceBefore
<1>1. IInv => PreHookOnceBefore
  <2> SUFFICES ASSUME IInv PROVE PreHookOnceBefore
    OBVIOUS
  <2>1. \A h \in Hook : started[h] <= 1
    BY DEF IInv, HookInv
  <2>2. pc = "order" /\ merged.pre # None /\ ~signalled => started[merged.pre] = 1
    <3> SUFFICES ASSUME pc = "order", merged.pre # None, ~signalled
                 PROVE  started[merged.pre] = 1
      OBVIOUS
    <3>1. merged.pre \in ran
      BY DEF IInv, HookInv
    <3> QED BY <3>1 DEF IInv, HookInv
  <2> QED BY <2>1, <2>2 DEF PreHookOnceBefore
<1> QED BY Inductive, <1>1, PTL

\* A run that exits 0 has left no lineage out and nothing undone (Renew).
THEOREM ExitStatus == Spec => []ExitOkIsTrue
<1>1. IInv => ExitOkIsTrue
  <2> SUFFICES ASSUME IInv, pc = "idle", exit = "ok" PROVE ExitOkIsTrue
    BY DEF ExitOkIsTrue
  <2>1. /\ cli.name # N + 1
        /\ \A l \in LineageNo : Selected(l) => outcome[l] \in {"skipped", "renewed"}
    BY DEF IInv, LoopInv
  <2>2. \A l \in LineageNo : outcome[l] = "renewed" /\ ~signalled => l \in deployed
    BY DEF IInv, LoopInv
  <2>3. \E l \in LineageNo : Selected(l)
    <3>1. cli.name \in 0..(N + 1) /\ N \in Nat
      BY RenewLoopAssumption DEF IInv, TypeOK, Cli
    <3>2. CASE cli.name = 0
      <4>1. at \in LineageNo
        BY DEF IInv, LoopInv
      <4> QED BY <3>2, <4>1 DEF Selected
    <3>3. CASE cli.name # 0
      <4>1. cli.name \in LineageNo
        BY <2>1, <3>1, <3>3
      <4> QED BY <4>1 DEF Selected
    <3> QED BY <3>2, <3>3
  <2> QED BY <2>1, <2>2, <2>3 DEF ExitOkIsTrue
<1> QED BY Inductive, <1>1, PTL

\* What is recorded for a lineage survives its renewals (mergeFromRenewalConf,
\* writeRenewalConf).
THEOREM SettingsSurvive == Spec => SettingsKept
<1> DEFINE Kept ==
      \A l \in LineageNo :
        /\ conf'[l] # conf[l] => Selected(l)
        /\ conf'[l].pre # conf[l].pre => conf'[l].pre = cli.pre /\ cli.pre # None
        /\ conf[l].creds # None => conf'[l].creds # None
        /\ ~conf[l].autorenew /\ conf'[l].autorenew =>
             cli.force \/ cli.autorenew = "yes"
<1>1. IInv /\ [Next]_vars => [Kept]_vars
  <2> SUFFICES ASSUME IInv, Next PROVE Kept
    OBVIOUS
  <2>1. CASE Order
    <3>1. conf' = [conf EXCEPT ![at] = Recorded] /\ at \in LineageNo
      BY <2>1 DEF Order, IInv, LoopInv
    <3>2. conf \in [LineageNo -> Conf]
      BY DEF IInv, TypeOK
    <3>3. Selected(at) /\ merged.pre = IF cli.pre # None THEN cli.pre ELSE conf[at].pre
      BY <2>1 DEF Order, IInv, SettingInv
    <3>4. cli.force \/ cli.autorenew = "yes" \/ conf[at].autorenew
      BY <2>1 DEF Order, IInv, SettingInv
    <3>5. Recorded.pre # conf[at].pre => Recorded.pre = cli.pre /\ cli.pre # None
      BY <3>3 DEF Recorded
    <3>6. conf[at].creds # None => Recorded.creds # None
      BY DEF Recorded
    <3> QED BY <3>1, <3>2, <3>3, <3>4, <3>5, <3>6
  <2>2. CASE ~Order
    <3>1. conf' = conf
      BY <2>2 DEF Next, Begin, NoSuchLineage, PassOver, ParseError, Merge, Skip, SkipForAri, Attempt, NoPreHook,
                  PreHook, PreHookCancelled, DirectoryHooks, OrderFails, OrderUnrecorded,
                  Deploy, Post, SignalArrives, Kill, TimePasses
    <3> QED BY <3>1
  <2> QED BY <2>1, <2>2
<1> QED BY Inductive, <1>1, PTL DEF Spec, SettingsKept
-----------------------------------------------------------------------------
(* When the loop attempts a lineage: the cooldown, for any lifetimes, any  *)
(* setting of renew_before_expiry and any answers of the CA.  A run that   *)
(* defers finds only the value in the conf, not which run ordered what and *)
(* when: the invariant (Spent) says that what is left of a cooldown and    *)
(* the time since the last order add up to no more than the cooldown, once *)
(* the run that set it has come to its order.                              *)

CONSTANTS Lifetime, ShortCutoff, RenewBefore, Cooldown, LongestWait
VARIABLES cert, before, autorenew, retry, reason, stage, flags, idled, setter

Timing == INSTANCE RenewTiming WITH pc <- stage, cli <- flags

Spent ==
  /\ setter = "running" => stage = "before"
  /\ reason = "cooldown" => setter # "none"
  /\ reason = "cooldown" /\ retry > 0 /\ setter # "stopped" =>
       IF setter = "running" THEN retry <= Cooldown ELSE idled + retry <= Cooldown

TimingInv == Timing!TypeOK /\ Spent

LEMMA TimingInit ==
  ASSUME Timing!Constants, Timing!Init
  PROVE  TimingInv
<1>1. PICK l \in Lifetime : cert = [life |-> l, age |-> 0]
  BY DEF Timing!Init
<1>2. l \in Nat /\ cert \in [life : {l}, age : 0..(l + 1)]
  BY <1>1 DEF Timing!Constants
<1>3. 0 \in 0..LongestWait /\ Cooldown + 1 \in 0..(Cooldown + 1)
  BY DEF Timing!Constants
<1> QED BY <1>2, <1>3 DEF Timing!Init, TimingInv, Timing!TypeOK, Spent, Timing!Cli,
                          Timing!Unattended

\* The certificate, its age capped.
LEMMA NewCert ==
  ASSUME Timing!Constants, NEW l \in Lifetime, NEW c, c = [life |-> l, age |-> 0]
  PROVE  \E m \in Lifetime : c \in [life : {m}, age : 0..(m + 1)]
<1>1. l \in Nat /\ 0 \in 0..(l + 1)
  BY DEF Timing!Constants
<1> QED BY <1>1

LEMMA TimingNext ==
  ASSUME Timing!Constants, TimingInv, [Timing!Next]_Timing!vars
  PROVE  TimingInv'
<1> USE DEF TimingInv
<1>1. /\ retry \in 0..LongestWait /\ idled \in 0..(Cooldown + 1)
      /\ Cooldown \in 0..LongestWait /\ Cooldown \in Nat /\ LongestWait \in Nat
  BY DEF Timing!Constants, Timing!TypeOK
<1>2. /\ autorenew \in BOOLEAN /\ before \in RenewBefore \cup {None}
      /\ reason \in {"none", "ca", "cooldown"} /\ flags \in Timing!Cli
      /\ \E l \in Lifetime : cert \in [life : {l}, age : 0..(l + 1)]
      /\ setter \in {"none", "running", "ordered", "stopped"}
  BY DEF Timing!TypeOK
<1>3. ASSUME NEW c \in Timing!Cli, Timing!Begin(c) PROVE TimingInv'
  BY <1>3 DEF Timing!Begin, Timing!conf, Timing!history, Timing!TypeOK, Spent
<1>4. CASE Timing!Skip \/ Timing!Want \/ Timing!OrderFails
  BY <1>4 DEF Timing!Skip, Timing!Want, Timing!OrderFails, Timing!conf,
              Timing!history, Timing!TypeOK, Spent
<1>12. CASE Timing!Kill \/ Timing!BeforeFails
  <2>1. /\ UNCHANGED <<cert, Timing!conf, retry, reason, flags, idled>> /\ stage' = "idle"
        /\ setter' = IF setter = "running" THEN "stopped" ELSE setter
    BY <1>12 DEF Timing!Kill, Timing!BeforeFails, Timing!End
  <2>2. Timing!TypeOK'
    BY <1>2, <2>1 DEF Timing!conf, Timing!TypeOK
  <2>3. Spent'
    BY <1>2, <2>1 DEF Spent
  <2> QED BY <2>2, <2>3
<1>13. CASE Timing!Order
  <2>1. /\ UNCHANGED <<cert, Timing!conf, retry, reason, flags>>
        /\ stage' = "order" /\ idled' = 0
        /\ setter' = IF setter = "running" THEN "ordered" ELSE setter
    BY <1>13 DEF Timing!Order
  <2>2. 0 \in 0..(Cooldown + 1)
    BY <1>1
  <2>3. Timing!TypeOK'
    BY <1>2, <2>1, <2>2 DEF Timing!conf, Timing!TypeOK
  <2>4. Spent'
    <3>1. retry \in Nat /\ idled \in Nat
      BY <1>1
    <3>2. setter' # "running"
      BY <2>1
    <3>3. ASSUME reason = "cooldown", retry > 0, setter' # "stopped" PROVE retry <= Cooldown
      BY <1>1, <2>1, <3>1, <3>3 DEF Spent
    <3> QED BY <1>1, <1>2, <2>1, <3>2, <3>3 DEF Spent
  <2> QED BY <2>3, <2>4
<1>5. CASE Timing!NotAsked \/ Timing!NoHint
  BY <1>5 DEF Timing!NotAsked, Timing!NoHint, Timing!Attempt, Timing!conf,
              Timing!history, Timing!TypeOK, Spent
<1>6. CASE Timing!Cached
  BY <1>6 DEF Timing!Cached, Timing!Defer, Timing!conf, Timing!history, Timing!TypeOK,
              Spent
<1>7. CASE Timing!AskFails
  <2>1. /\ UNCHANGED <<cert, Timing!conf, flags, idled>> /\ stage' = "before"
        /\ retry' = Cooldown /\ reason' = "cooldown" /\ setter' = "running"
    BY <1>7 DEF Timing!AskFails, Timing!Attempt
  <2>2. Timing!TypeOK'
    BY <1>1, <1>2, <2>1 DEF Timing!conf, Timing!TypeOK
  <2>3. Spent'
    BY <1>1, <2>1 DEF Spent
  <2> QED BY <2>2, <2>3
<1>8. ASSUME NEW w \in 0..LongestWait, Timing!Hint(w) PROVE TimingInv'
  <2>1. /\ UNCHANGED <<cert, Timing!conf, flags, idled, setter>>
        /\ retry' = w /\ reason' = "ca" /\ stage = "ari" /\ stage' \in {"idle", "before"}
    BY <1>8 DEF Timing!Hint, Timing!Attempt, Timing!Defer, Timing!history
  <2>2. Timing!TypeOK'
    BY <1>1, <1>2, <2>1 DEF Timing!conf, Timing!TypeOK
  <2>3. Spent'
    BY <2>1 DEF Spent
  <2> QED BY <2>2, <2>3
<1>9. CASE Timing!Renewed \/ Timing!Reissued
  <2>1. /\ \E l \in Lifetime : cert' \in [life : {l}, age : 0..(l + 1)]
        /\ autorenew' = TRUE
        /\ UNCHANGED <<before, retry, reason, flags, idled, setter>>
        /\ stage # "before" /\ stage' = "idle"
    BY <1>9, NewCert DEF Timing!Renewed, Timing!Reissued, Timing!history
  <2> QED BY <2>1 DEF Timing!TypeOK, Spent
<1>10. CASE Timing!Tick
  <2>1. UNCHANGED <<Timing!conf, reason, stage, flags, setter>>
        /\ retry' = (IF retry = 0 THEN 0 ELSE retry - 1)
        /\ idled' = (IF idled > Cooldown THEN idled ELSE idled + 1)
    BY <1>10 DEF Timing!Tick
  <2>2. \E l \in Lifetime : cert' \in [life : {l}, age : 0..(l + 1)]
    <3>1. PICK l \in Lifetime : cert \in [life : {l}, age : 0..(l + 1)]
      BY <1>2
    <3>2. l \in Nat /\ cert.life = l /\ cert.age \in 0..(l + 1)
      BY <3>1 DEF Timing!Constants
    <3>3. cert.age <= cert.life => cert.age + 1 \in 0..(l + 1)
      BY <3>2
    <3>4. cert.age \in Int /\ cert.life \in Int
      BY <3>2
    <3>5. cert'.life = l /\ cert'.age \in 0..(l + 1) /\ cert' \in [life : {l}, age : 0..(l + 1)]
      <4>1. cert' = [cert EXCEPT !.age = IF cert.age > cert.life THEN cert.age ELSE cert.age + 1]
        BY <1>10 DEF Timing!Tick
      <4> QED BY <3>1, <3>2, <3>3, <3>4, <4>1
    <3> QED BY <3>5
  <2>3. retry' \in 0..LongestWait /\ idled' \in 0..(Cooldown + 1)
    BY <1>1, <2>1
  <2>4. Timing!TypeOK'
    BY <2>1, <2>2, <2>3 DEF Timing!conf, Timing!TypeOK
  <2>5. Spent'
    <3>1. ASSUME reason = "cooldown", retry' > 0, setter # "stopped"
          PROVE  IF setter = "running" THEN retry' <= Cooldown ELSE idled' + retry' <= Cooldown
      <4>1. retry > 0 /\ retry' = retry - 1
        BY <1>1, <2>1, <3>1
      <4>2. IF setter = "running" THEN retry <= Cooldown ELSE idled + retry <= Cooldown
        BY <3>1, <4>1 DEF Spent
      <4>3. CASE setter = "running"
        BY <1>1, <4>1, <4>2, <4>3
      <4>4. CASE setter # "running"
        <5>1. idled' = idled + 1
          BY <1>1, <2>1, <4>1, <4>2, <4>4
        <5> QED BY <1>1, <4>1, <4>2, <4>4, <5>1
      <4> QED BY <4>3, <4>4
    <3> QED BY <2>1, <3>1 DEF Spent
  <2> QED BY <2>4, <2>5
<1>11. CASE UNCHANGED Timing!vars
  BY <1>11 DEF Timing!vars, Timing!conf, Timing!history, Timing!TypeOK, Spent
<1> QED
  BY <1>3, <1>4, <1>5, <1>6, <1>7, <1>8, <1>9, <1>10, <1>11, <1>12,
     <1>13 DEF Timing!Next, Timing!Step

LEMMA TimingInductive ==
  ASSUME Timing!Constants
  PROVE  Timing!Spec => []TimingInv
<1>1. TimingInv /\ [Timing!Next]_Timing!vars => TimingInv'
  BY TimingNext
<1> QED BY TimingInit, <1>1, PTL DEF Timing!Spec

\* Every reachable state of the timing is well typed.
THEOREM TimingTypeCorrect ==
  ASSUME Timing!Constants
  PROVE  Timing!Spec => []Timing!TypeOK
<1>1. TimingInv => Timing!TypeOK
  BY DEF TimingInv
<1> QED BY TimingInductive, <1>1, PTL

\* A run defers for the cooldown only while less time has passed since an order than
\* the cooldown, or because the run that set it was stopped (ariDecision, renewOne).
THEOREM CooldownAfterAttempt ==
  ASSUME Timing!Constants
  PROVE  Timing!Spec => Timing!CooldownFollowsAttempt
<1> DEFINE Recent == Timing!Cached /\ reason = "cooldown" =>
                       \/ setter = "ordered" /\ idled <= Cooldown
                       \/ setter = "stopped"
<1>1. TimingInv => Recent
  <2> SUFFICES ASSUME TimingInv, retry > 0, reason = "cooldown", stage = "ari",
                      setter # "stopped"
               PROVE  setter = "ordered" /\ idled <= Cooldown
    BY DEF Timing!Cached
  <2>1. setter = "ordered"
    BY DEF TimingInv, Timing!TypeOK, Spent
  <2>2. idled + retry <= Cooldown
    BY <2>1 DEF TimingInv, Spent
  <2>3. retry \in Nat /\ idled \in Nat /\ Cooldown \in Nat
    BY DEF Timing!Constants, TimingInv, Timing!TypeOK
  <2> QED BY <2>1, <2>2, <2>3
<1>2. TimingInv /\ [Timing!Next]_Timing!vars => [Recent]_Timing!vars
  BY <1>1
<1> QED BY TimingInductive, <1>2, PTL DEF Timing!Spec, Timing!CooldownFollowsAttempt
=============================================================================
