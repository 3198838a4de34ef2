---------------------------- MODULE Issue_proofs ----------------------------
(***************************************************************************)
(* What the verbs promise about a lineage and its conf, for any domains,   *)
(* names and key types and any number of orders.  What a verb decides when *)
(* it begins is carried out steps later, so the invariant says what a plan *)
(* is worth until then (Meant, Promised), how far the two stores may be    *)
(* apart (Tells), when the post-hook is owed (Owing), and that a removal   *)
(* keeps to what revoke has seen (Spared).                                 *)
(***************************************************************************)
EXTENDS Issue, TLAPS

Plan == [verb : {"certonly", "run", "renew"}, n : LineageName, names : SUBSET Domain,
         ktype : KeyType, asked : BOOLEAN, reuse : BOOLEAN, newkey : BOOLEAN,
         server : {"production", "staging"}, dry : BOOLEAN, quiet : BOOLEAN]

\* Until the conf is written: a plan keeps the type of the key.
Meant(p) ==
  /\ p \in Plan
  /\ p.verb # "run" /\ ~p.asked /\ conf[p.n] # None => p.ktype = conf[p.n].ktype

\* Until the order: it drops no name unasked, and it reuses a key that is to be.
Promised(p) ==
  /\ p.verb = "certonly" /\ p.quiet /\ Own(p.n) /\ cert[p.n] # None =>
       cert[p.n].names \subseteq p.names
  /\ p.verb = "renew" /\ conf[p.n].reuse => p.reuse

PlanInv ==
  /\ pc \in {"pre", "preDir", "order", "conf"} => Meant(plan)
  /\ pc \in {"pre", "preDir", "order"} => Promised(plan) /\ orders < MaxOrders
  /\ pc = "conf" => cert[plan.n].names = plan.names
  /\ pc \in {"remove", "removeFiles"} => plan.n \in LineageName

\* Nobody but the lineage that waits for its conf is told about wrongly.
Tells ==
  \A n \in LineageName :
    Own(n) /\ cert[n] # None /\ n \notin torn /\ ~(pc = "conf" /\ plan.n = n) =>
      conf[n].names = cert[n].names

Owing ==
  /\ pc = "pre" => owed = IF plan.verb = "renew" THEN "all" ELSE "none"
  /\ pc = "preDir" => owed = IF plan.verb = "renew" THEN "all" ELSE "flag"
  /\ pc \in {"remove", "removeFiles"} => owed = "none"
  /\ PostHookRuns

IInv == TypeOK /\ PlanInv /\ Tells /\ Owing

LEMMA InitIInv == Init => IInv
<1> SUFFICES ASSUME Init PROVE IInv
  OBVIOUS
<1>1. TypeOK
  <2>1. 0 \in 0..MaxOrders /\ 0 \in 0..MaxEdits
    BY IssueAssumption
  <2> QED BY <2>1 DEF Init, TypeOK
<1>2. PlanInv /\ Tells /\ Owing
  BY DEF Init, PlanInv, Tells, Owing, PostHookRuns, Own
<1> QED BY <1>1, <1>2 DEF IInv

-----------------------------------------------------------------------------
(* What the verbs plan.                                                    *)

LEMMA NewPlanTyped ==
  ASSUME NEW v \in {"certonly", "run", "renew"}, NEW n \in LineageName,
         NEW D \in SUBSET Domain, NEW f \in Flags
  PROVE  /\ NewPlan(v, n, D, f) \in Plan
         /\ NewPlan(v, n, D, f).verb = v
         /\ NewPlan(v, n, D, f).n = n
         /\ NewPlan(v, n, D, f).names = D
<1>1. /\ f.ktype \in KeyType \cup {None} /\ f.key \in {"unset", "reuse", "new"}
      /\ f.dry \in BOOLEAN
  BY IssueAssumption DEF Flags
<1>2. (IF f.ktype = None THEN Usual ELSE f.ktype) \in KeyType
  BY <1>1, IssueAssumption
<1>3. (IF f.dry THEN "staging" ELSE "production") \in {"production", "staging"}
  OBVIOUS
<1> QED BY <1>1, <1>2, <1>3 DEF NewPlan, Plan

\* A plan that nobody has merged with a conf is good when there is none.
LEMMA NewPlanGood ==
  ASSUME NEW v \in {"certonly", "run"}, NEW n \in LineageName, NEW D \in SUBSET Domain,
         NEW f \in Flags, v = "run" \/ conf[n] = None
  PROVE  Meant(NewPlan(v, n, D, f)) /\ Promised(NewPlan(v, n, D, f))
  BY NewPlanTyped DEF Meant, Promised, Own

LEMMA RequestTyped ==
  ASSUME NEW q \in Request
  PROVE  q.names \in SUBSET Domain /\ q.n \in LineageName
  BY DEF Request

LEMMA CertonlyGood ==
  ASSUME TypeOK, NEW q \in Request, NEW f \in Flags, NEW m \in Mode, NEW a \in Prompt,
         Certonly(q, f, m, a)
  PROVE  \E p : Begin(p) /\ Meant(p) /\ Promised(p)
<1> DEFINE Quiet == a = "off" /\ m \notin {"force", "expand"}
           P(n) == [NewPlan("certonly", n, q.names, f) EXCEPT !.quiet = Quiet]
<1>1. PICK outcome \in Dispatch(q, m, a) \ {"skip", "refuse"} :
        \E n \in IF outcome = "newcert" THEN Duplicates ELSE {q.n} :
          Begin(MergeExistingKeyType(P(n), outcome))
  BY DEF Certonly
<1>2. PICK n \in IF outcome = "newcert" THEN Duplicates ELSE {q.n} :
        Begin(MergeExistingKeyType(P(n), outcome))
  BY <1>1
<1>3. n \in LineageName /\ (outcome = "newcert" => conf[n] = None)
  BY <1>2, RequestTyped DEF Duplicates
<1>4. /\ P(n) \in Plan /\ P(n).verb = "certonly" /\ P(n).n = n /\ P(n).names = q.names
      /\ P(n).quiet = Quiet
  <2>1. PICK x : /\ x = NewPlan("certonly", n, q.names, f)
                 /\ x \in Plan /\ x.verb = "certonly" /\ x.n = n /\ x.names = q.names
    BY <1>3, NewPlanTyped, RequestTyped
  <2>2. Quiet \in BOOLEAN
    OBVIOUS
  <2>3. [x EXCEPT !.quiet = Quiet] \in Plan
    BY <2>1, <2>2 DEF Plan
  <2>4. P(n) = [x EXCEPT !.quiet = Quiet]
    BY <2>1
  <2> HIDE DEF P, Quiet
  <2> QED BY <2>1, <2>3, <2>4 DEF Plan
<1>5. conf[q.n] # None /\ conf[q.n] \in Conf
  BY RequestTyped DEF Certonly, TypeOK
<1> DEFINE M == MergeExistingKeyType(P(n), outcome)
<1>6. M \in Plan /\ M.verb = "certonly" /\ M.n = n /\ M.names = q.names /\ M.quiet = Quiet
  <2> HIDE DEF P
  <2>1. CASE outcome \in {"renew", "expand"} /\ ~P(n).asked
    <3>1. M = [P(n) EXCEPT !.ktype = conf[n].ktype] /\ conf[n].ktype \in KeyType
      BY <2>1, <1>2, <1>4, <1>5 DEF MergeExistingKeyType, Conf
    <3> QED BY <3>1, <1>4 DEF Plan
  <2>2. CASE ~(outcome \in {"renew", "expand"} /\ ~P(n).asked)
    BY <2>2, <1>4 DEF MergeExistingKeyType
  <2> QED BY <2>1, <2>2
<1>7. outcome \in {"renew", "expand", "newcert"}
  BY <1>1 DEF Dispatch, Mode, Prompt
<1>8. ~M.asked /\ conf[n] # None => M.ktype = conf[n].ktype
  <2> HIDE DEF P
  <2>1. CASE outcome = "newcert"
    BY <2>1, <1>3
  <2>2. CASE outcome \in {"renew", "expand"}
    BY <2>2, <1>2, <1>4, <1>5 DEF MergeExistingKeyType, Plan, Conf
  <2> QED BY <2>1, <2>2, <1>7
\* Unasked, only a certificate with the same names is replaced.
<1>9. Quiet /\ outcome # "newcert" => SameSANSet(Existing(q.n), q.names)
  BY <1>1 DEF Dispatch, Mode, Prompt
<1>10. Quiet /\ Own(n) /\ cert[n] # None => cert[n].names \subseteq q.names
  <2>1. CASE outcome = "newcert"
    BY <2>1, <1>3 DEF Own
  <2>2. CASE outcome # "newcert"
    BY <2>2, <1>2, <1>9 DEF SameSANSet, Existing, Own
  <2> QED BY <2>1, <2>2
<1>11. Meant(M) /\ Promised(M)
  BY <1>6, <1>8, <1>10 DEF Meant, Promised
<1> QED BY <1>2, <1>11

LEMMA RenewGood ==
  ASSUME TypeOK, NEW n \in LineageName, NEW f \in Flags, Renew(n, f)
  PROVE  \E p : Begin(p) /\ Meant(p) /\ Promised(p)
<1>1. conf[n] # None /\ conf[n] \in Conf
  BY DEF Renew, TypeOK
<1>2. PICK x : /\ x = NewPlan("renew", n, conf[n].names, f)
               /\ x \in Plan /\ x.verb = "renew" /\ x.n = n
  BY <1>1, NewPlanTyped DEF Conf
<1> DEFINE M == MergeFromRenewalConf(x, conf[n])
<1>3. M \in Plan /\ M.verb = "renew" /\ M.n = n
  BY <1>1, <1>2 DEF MergeFromRenewalConf, Plan, Conf
<1>4. /\ ~M.asked => M.ktype = conf[n].ktype
      /\ conf[n].reuse => M.reuse
  BY <1>1, <1>2 DEF MergeFromRenewalConf, Plan, Conf
<1>5. Meant(M) /\ Promised(M)
  BY <1>3, <1>4 DEF Meant, Promised
<1>6. Begin(M)
  BY <1>2 DEF Renew
<1> QED BY <1>5, <1>6

-----------------------------------------------------------------------------
(* The steps.                                                              *)

LEMMA BeginIInv ==
  ASSUME IInv, NEW p, Begin(p), Meant(p), Promised(p)
  PROVE  IInv'
<1> USE DEF IInv, Begin, counters
<1>1. TypeOK'
  <2>1. owed' \in {"none", "flag", "all"} /\ cancelled' \in BOOLEAN
    OBVIOUS
  <2> QED BY <2>1 DEF TypeOK
<1>2. PlanInv'
  BY DEF PlanInv, Meant, Promised, Own
<1>3. Tells' /\ Owing'
  BY DEF Tells, Owing, PostHookRuns, Own
<1> QED BY <1>1, <1>2, <1>3

LEMMA VerbIInv == IInv /\ Verb => IInv'
<1> SUFFICES ASSUME IInv, Verb PROVE IInv'
  OBVIOUS
<1>1. CASE \E q \in Request, f \in Flags : CertonlyNew(q, f) \/ Run(q, f)
  <2>1. PICK q \in Request, f \in Flags : CertonlyNew(q, f) \/ Run(q, f)
    BY <1>1
  <2>2. \E p : Begin(p) /\ Meant(p) /\ Promised(p)
    BY <2>1, NewPlanGood, RequestTyped DEF CertonlyNew, Run
  <2> QED BY <2>2, BeginIInv
<1>2. CASE \E q \in Request, f \in Flags, m \in Mode, a \in Prompt : Certonly(q, f, m, a)
  BY <1>2, CertonlyGood, BeginIInv DEF IInv
<1>3. CASE \E n \in LineageName, f \in Flags : Renew(n, f)
  BY <1>3, RenewGood, BeginIInv DEF IInv
<1>4. CASE \E n \in LineageName : Revoke(n) \/ Delete(n)
  <2>1. PICK n \in LineageName, v \in {"revoke", "delete"} : BeginRemoval(v, n)
    BY <1>4 DEF Revoke, Delete
  <2>2. plan'.n = n
    BY <2>1 DEF BeginRemoval, Removal
  <2>3. TypeOK'
    BY <2>1 DEF BeginRemoval, IInv, TypeOK, counters
  <2>4. PlanInv' /\ Tells' /\ Owing'
    BY <2>1, <2>2 DEF BeginRemoval, IInv, PlanInv, Tells, Owing, PostHookRuns, Own, counters
  <2> QED BY <2>3, <2>4 DEF IInv
<1>5. CASE \E n \in LineageName, k \in KeyType, r \in BOOLEAN : Reconfigure(n, k, r)
  <2>1. PICK n \in LineageName, k \in KeyType, r \in BOOLEAN : Reconfigure(n, k, r)
    BY <1>5
  <2>2. conf[n] \in Conf /\ conf[n] # None
    BY <2>1 DEF Reconfigure, IInv, TypeOK
  <2>3. /\ conf' \in [LineageName -> Conf \cup {None}]
        /\ \A m \in LineageName \ {n} : conf'[m] = conf[m]
        /\ conf'[n].at = conf[n].at /\ conf'[n].names = conf[n].names
    BY <2>1, <2>2 DEF Reconfigure, IInv, TypeOK, Conf
  <2>4. TypeOK'
    <3>1. edits' \in 0..MaxEdits
      BY <2>1, IssueAssumption DEF Reconfigure, IInv, TypeOK
    <3> QED BY <2>1, <2>3, <3>1 DEF Reconfigure, IInv, TypeOK
  <2>5. Tells'
    BY <2>1, <2>2, <2>3 DEF Reconfigure, IInv, Tells, Own
  <2>6. PlanInv' /\ Owing'
    BY <2>1 DEF Reconfigure, IInv, PlanInv, Owing, PostHookRuns
  <2> QED BY <2>4, <2>5, <2>6 DEF IInv
<1> QED BY <1>1, <1>2, <1>3, <1>4, <1>5 DEF Verb

LEMMA HandCopyIInv ==
  ASSUME IInv, NEW n \in LineageName, NEW m \in LineageName, HandCopy(n, m)
  PROVE  IInv'
<1> USE DEF IInv, HandCopy
<1>1. TypeOK'
  <2>1. edits' \in 0..MaxEdits
    BY IssueAssumption DEF TypeOK
  <2>2. conf' \in [LineageName -> Conf \cup {None}]
    BY DEF TypeOK
  <2> QED BY <2>1, <2>2 DEF TypeOK
<1>2. ~Own(m)' /\ \A k \in LineageName \ {m} : conf'[k] = conf[k]
  BY DEF TypeOK, Own
<1>3. Tells'
  BY <1>2 DEF Tells, Own
<1>4. PlanInv' /\ Owing'
  BY DEF PlanInv, Owing, PostHookRuns
<1> QED BY <1>1, <1>3, <1>4

\* Nothing is written.
QuietStep ==
  PreHook \/ PreHookDir \/ PreHooksFail \/ DeployHooks \/ PostHook \/ OrderFails \/ Install \/ Signal

LEMMA QuietStepIInv == IInv /\ QuietStep => IInv'
<1> SUFFICES ASSUME IInv, QuietStep PROVE IInv'
  OBVIOUS
<1> USE DEF IInv
<1>1. UNCHANGED <<conf, cert, torn, counters>> /\ (pc = "conf" => pc' = "conf" /\ plan' = plan)
  BY DEF QuietStep, PreHook, PreHookDir, PreHooksFail, DeployHooks, PostHook, OrderFails, Install, Signal,
         At
<1>2. TypeOK'
  BY DEF QuietStep, PreHook, PreHookDir, PreHooksFail, DeployHooks, PostHook, OrderFails, Install, Signal,
         At, Goto, Ending, TypeOK, counters
<1>3. PlanInv'
  <2>1. \/ pc' \notin {"pre", "preDir", "order", "conf", "remove", "removeFiles"}
        \/ pc = "pre" /\ pc' = "preDir" /\ plan' = plan
        \/ pc = "preDir" /\ pc' = "order" /\ plan' = plan
        \/ pc' = pc /\ plan' = plan
    BY DEF QuietStep, PreHook, PreHookDir, PreHooksFail, DeployHooks, PostHook, OrderFails, Install,
           Signal, At, Goto, Ending
  <2> QED BY <1>1, <2>1 DEF PlanInv, Meant, Promised, Own, counters
<1>4. Tells'
  BY <1>1 DEF Tells, Own
<1>5. Owing'
  <2> USE DEF Owing, PostHookRuns, At, Goto, Ending
  <2>1. CASE PreHook \/ PreHookDir \/ DeployHooks \/ OrderFails \/ Install
    BY <2>1 DEF PreHook, PreHookDir, DeployHooks, OrderFails, Install
  <2>2. CASE PreHooksFail
    BY <2>2 DEF PreHooksFail
  <2>3. CASE PostHook
    BY <2>3 DEF PostHook
  <2>4. CASE Signal
    BY <2>4 DEF Signal
  <2> QED BY <2>1, <2>2, <2>3, <2>4 DEF QuietStep
<1> QED BY <1>2, <1>3, <1>4, <1>5

LEMMA OrderIInv == IInv /\ Order => IInv'
<1> SUFFICES ASSUME IInv, Order PROVE IInv'
  OBVIOUS
<1> USE DEF IInv, Order, At, Goto
<1>1. plan \in Plan /\ Meant(plan)
  BY DEF PlanInv, Meant
<1>2. plan.n \in LineageName /\ plan.names \in SUBSET Domain
  BY <1>1 DEF Plan
<1>3. Issued \in Cert /\ Issued.names = plan.names
  <2>1. cert[plan.n] # None => cert[plan.n].key \in {0, 1} /\ 1 - cert[plan.n].key \in {0, 1}
    <3>1. cert[plan.n] # None => cert[plan.n].key \in {0, 1}
      BY <1>2 DEF TypeOK, Cert
    <3> QED BY <3>1
  <2> QED BY <1>2, <2>1 DEF Issued, Cert
<1>4. TypeOK'
  <2>1. orders' \in 0..MaxOrders
    BY IssueAssumption DEF TypeOK, PlanInv
  <2>2. cert' \in [LineageName -> Cert \cup {None}]
    BY <1>2, <1>3 DEF TypeOK
  <2> QED BY <2>1, <2>2 DEF TypeOK
<1>5. PlanInv'
  BY <1>1, <1>2, <1>3 DEF PlanInv, Meant, TypeOK
<1>6. Tells'
  BY <1>2 DEF Tells, Own, TypeOK
<1>7. Owing'
  BY DEF Owing, PostHookRuns
<1> QED BY <1>4, <1>5, <1>6, <1>7

LEMMA WriteRenewalConfIInv == IInv /\ (WriteRenewalConf \/ WriteRenewalConfFails) => IInv'
<1> SUFFICES ASSUME IInv, WriteRenewalConf \/ WriteRenewalConfFails PROVE IInv'
  OBVIOUS
<1> USE DEF IInv, At, Ending
<1>1. pc = "conf" /\ plan \in Plan /\ cert[plan.n].names = plan.names
  BY DEF WriteRenewalConf, WriteRenewalConfFails, PlanInv, Meant
<1>2. plan.n \in LineageName /\ Recorded \in Conf
  BY <1>1 DEF Plan, Conf, Recorded
<1>3. TypeOK'
  BY <1>2 DEF WriteRenewalConf, WriteRenewalConfFails, TypeOK, counters
<1>4. PlanInv' /\ Owing'
  BY DEF WriteRenewalConf, WriteRenewalConfFails, PlanInv, Owing, PostHookRuns
<1>5. Tells'
  <2>1. CASE WriteRenewalConf
    BY <1>1, <1>2, <2>1 DEF WriteRenewalConf, Tells, Own, TypeOK, Recorded
  <2>2. CASE WriteRenewalConfFails
    BY <1>1, <1>2, <2>2 DEF WriteRenewalConfFails, Tells, Own
  <2> QED BY <2>1, <2>2
<1> QED BY <1>3, <1>4, <1>5

LEMMA DeleteIInv == IInv /\ (DeleteConf \/ DeleteFiles) => IInv'
<1> SUFFICES ASSUME IInv, DeleteConf \/ DeleteFiles PROVE IInv'
  OBVIOUS
<1> USE DEF IInv, At, Goto, Ending, DeleteConf, DeleteFiles
<1>1. plan.n \in LineageName
  BY DEF PlanInv
<1>2. TypeOK'
  BY <1>1 DEF TypeOK, counters
<1>3. PlanInv' /\ Owing'
  BY DEF PlanInv, Owing, PostHookRuns
<1>4. Tells'
  BY <1>1 DEF Tells, Own, TypeOK
<1> QED BY <1>2, <1>3, <1>4

LEMMA KillIInv == IInv /\ Kill => IInv'
<1> SUFFICES ASSUME IInv, Kill PROVE IInv'
  OBVIOUS
<1> USE DEF IInv, At, Ending, Kill
<1>1. pc = "conf" => plan.n \in LineageName
  BY DEF PlanInv, Meant, Plan
<1>2. TypeOK'
  BY <1>1 DEF TypeOK, counters
<1>3. PlanInv' /\ Owing'
  BY DEF PlanInv, Owing, PostHookRuns
<1>4. Tells'
  BY DEF Tells, Own
<1> QED BY <1>2, <1>3, <1>4

LEMMA NextIInv == IInv /\ [Next]_vars => IInv'
<1> SUFFICES ASSUME IInv, [Next]_vars PROVE IInv'
  OBVIOUS
<1>1. CASE UNCHANGED vars
  BY <1>1 DEF vars, counters, IInv, TypeOK, PlanInv, Meant, Promised, Tells, Owing,
              PostHookRuns, Own
<1>2. CASE QuietStep
  BY <1>2, QuietStepIInv
<1>3. CASE WriteRenewalConf \/ WriteRenewalConfFails
  BY <1>3, WriteRenewalConfIInv
<1>4. CASE \E n, m \in LineageName : HandCopy(n, m)
  BY <1>4, HandCopyIInv
<1> QED BY <1>1, <1>2, <1>3, <1>4, VerbIInv, OrderIInv, DeleteIInv, KillIInv
        DEF Next, Step, QuietStep

LEMMA Inductive == Spec => []IInv
  BY InitIInv, NextIInv, PTL DEF Spec

-----------------------------------------------------------------------------
(* Revocation.  What hasOverlappingArchiveDir has seen is worth nothing    *)
(* once two confs give archives that are not named after them, of which    *)
(* one may be in the other's name.                                         *)

\* The conf n gives the archive of another name.
Foreign(n) == conf[n] # None /\ conf[n].at # n

OneForeign == \A n, m \in LineageName : Foreign(n) /\ Foreign(m) => n = m

\* Until the files are gone: no other conf gives them.
Spared ==
  pc \in {"remove", "removeFiles"} /\ plan.verb = "revoke" =>
    \A m \in LineageName \ {plan.n} : conf[m] # None => conf[m].at # plan.n

\* What a verb that is to write begins with.
Issuing ==
  \/ \E q \in Request, f \in Flags : CertonlyNew(q, f) \/ Run(q, f)
  \/ \E q \in Request, f \in Flags, m \in Mode, a \in Prompt : Certonly(q, f, m, a)
  \/ \E n \in LineageName, f \in Flags : Renew(n, f)

LEMMA IssuingBegins == IInv /\ Issuing => \E p : Begin(p)
<1> SUFFICES ASSUME IInv, Issuing PROVE \E p : Begin(p)
  OBVIOUS
<1>1. CASE \E q \in Request, f \in Flags : CertonlyNew(q, f) \/ Run(q, f)
  BY <1>1 DEF CertonlyNew, Run
<1>2. CASE \E q \in Request, f \in Flags, m \in Mode, a \in Prompt : Certonly(q, f, m, a)
  BY <1>2, CertonlyGood DEF IInv
<1>3. CASE \E n \in LineageName, f \in Flags : Renew(n, f)
  BY <1>3 DEF Renew
<1> QED BY <1>1, <1>2, <1>3 DEF Issuing

LEMMA RevokeSpared ==
  ASSUME OneForeign, NEW n \in LineageName, Revoke(n)
  PROVE  Spared'
<1>1. /\ plan'.n = n /\ UNCHANGED conf
      /\ conf[n] # None
  BY DEF Revoke, BeginRemoval, Removal
<1>2. ASSUME NEW m \in LineageName \ {n}, conf[m] # None, conf[m].at = n
      PROVE  FALSE
  <2>1. CASE conf[n].at = n
    BY <1>2, <2>1 DEF Revoke, Overlaps
  \* The copy n gives another archive, and so does m: there would be two.
  <2>2. CASE conf[n].at # n
    BY <1>1, <1>2, <2>2 DEF OneForeign, Foreign
  <2> QED BY <2>1, <2>2
<1> QED BY <1>1, <1>2 DEF Spared

LEMMA SparedStep == IInv /\ Spared /\ OneForeign /\ [Next]_vars => Spared'
<1> SUFFICES ASSUME IInv, Spared, OneForeign, [Next]_vars PROVE Spared'
  OBVIOUS
<1>1. CASE UNCHANGED vars
  BY <1>1 DEF vars, Spared
<1>2. CASE \E n \in LineageName : Revoke(n)
  BY <1>2, RevokeSpared
<1>3. CASE \E n \in LineageName : Delete(n)
  BY <1>3 DEF Delete, BeginRemoval, Removal, Spared
<1>4. CASE Issuing
  <2>1. pc' = "pre"
    BY <1>4, IssuingBegins DEF Begin
  <2> QED BY <2>1 DEF Spared
<1>5. CASE \/ \E n \in LineageName, k \in KeyType, r \in BOOLEAN : Reconfigure(n, k, r)
           \/ \E n, m \in LineageName : HandCopy(n, m)
  <2>1. pc' = "idle"
    BY <1>5 DEF Reconfigure, HandCopy
  <2> QED BY <2>1 DEF Spared
<1>6. CASE Signal
  BY <1>6 DEF Signal, Spared
<1>7. CASE DeleteConf
  <2>1. /\ pc = "remove" /\ plan' = plan
        /\ \A m \in LineageName \ {plan.n} : conf'[m] = conf[m]
    BY <1>7 DEF DeleteConf, At, Goto, IInv, TypeOK
  <2> QED BY <2>1 DEF Spared
<1>8. CASE \/ PreHook \/ PreHookDir \/ PreHooksFail \/ DeployHooks \/ PostHook
           \/ Order \/ OrderFails \/ WriteRenewalConf \/ WriteRenewalConfFails \/ Install
           \/ DeleteFiles \/ Kill
  <2>1. pc' \notin {"remove", "removeFiles"}
    BY <1>8 DEF PreHook, PreHookDir, PreHooksFail, DeployHooks, PostHook, Order, OrderFails,
                WriteRenewalConf, WriteRenewalConfFails, Install, DeleteFiles, Kill,
                Goto, Ending
  <2> QED BY <2>1 DEF Spared
<1> QED BY <1>1, <1>2, <1>3, <1>4, <1>5, <1>6, <1>7, <1>8 DEF Next, Verb, Step, Issuing

-----------------------------------------------------------------------------
(* The theorems.                                                           *)

\* Every reachable state is well typed.
THEOREM TypeCorrect == Spec => []TypeOK
<1>1. IInv => TypeOK
  BY DEF IInv
<1> QED BY Inductive, <1>1, PTL

\* What a conf says of its certificate is true, but where a run ended between the two
\* (writeRenewalConf).
THEOREM ConfIsTrue == Spec => []ConfTells
<1>1. IInv => ConfTells
  BY DEF IInv, Tells, ConfTells
<1> QED BY Inductive, <1>1, PTL

\* A verb whose pre-hooks have all succeeded does not return without the post-hook,
\* unless a signal came (Certonly, Run, Renew).
THEOREM PostHooks == Spec => []PostHookRuns
<1>1. IInv => PostHookRuns
  BY DEF IInv, Owing
<1> QED BY Inductive, <1>1, PTL

\* certonly takes no name away from a lineage unasked (findCertDispatch).
THEOREM NamesKept == Spec => NoShrink
<1> DEFINE Kept ==
      \A n \in LineageName :
        /\ Order /\ plan.n = n /\ plan.verb = "certonly" /\ plan.quiet
        /\ Own(n) /\ cert[n] # None
        => cert[n].names \subseteq cert'[n].names
<1>1. IInv /\ [Next]_vars => [Kept]_vars
  <2> SUFFICES ASSUME IInv, NEW n \in LineageName, Order, plan.n = n,
                      plan.verb = "certonly", plan.quiet, Own(n), cert[n] # None
               PROVE  cert[n].names \subseteq cert'[n].names
    OBVIOUS
  <2>1. cert[n].names \subseteq plan.names
    BY DEF IInv, PlanInv, Promised, Order, At
  <2>2. cert'[n].names = plan.names
    BY DEF Order, Issued, IInv, TypeOK
  <2> QED BY <2>1, <2>2
<1> QED BY Inductive, <1>1, PTL DEF Spec, NoShrink

\* A lineage keeps the type of its key until it is told another (mergeExistingKeyType,
\* mergeFromRenewalConf).
THEOREM KeyTypesKept == Spec => KeyTypeKept
<1> DEFINE Kept ==
      \A n \in LineageName :
        /\ WriteRenewalConf /\ plan.n = n /\ plan.verb # "run" /\ ~plan.asked
        /\ conf[n] # None
        => conf'[n].ktype = conf[n].ktype
<1>1. IInv /\ [Next]_vars => [Kept]_vars
  <2> SUFFICES ASSUME IInv, NEW n \in LineageName, WriteRenewalConf, plan.n = n,
                      plan.verb # "run", ~plan.asked, conf[n] # None
               PROVE  conf'[n].ktype = conf[n].ktype
    OBVIOUS
  <2>1. plan.ktype = conf[n].ktype
    BY DEF IInv, PlanInv, Meant, WriteRenewalConf, At
  <2>2. conf'[n].ktype = plan.ktype
    BY DEF WriteRenewalConf, Recorded, IInv, TypeOK
  <2> QED BY <2>1, <2>2
<1> QED BY Inductive, <1>1, PTL DEF Spec, KeyTypeKept

\* A renewal keeps the key of a lineage that is set to reuse it, unless --new-key is
\* given (mergeFromRenewalConf, loadPriorPrivkey).
THEOREM KeysReused == Spec => KeyReused
<1> DEFINE Kept ==
      \A n \in LineageName :
        /\ Order /\ plan.n = n /\ plan.verb = "renew" /\ ~plan.newkey
        /\ conf[n].reuse /\ cert[n] # None
        => cert'[n].key = cert[n].key
<1>1. IInv /\ [Next]_vars => [Kept]_vars
  <2> SUFFICES ASSUME IInv, NEW n \in LineageName, Order, plan.n = n,
                      plan.verb = "renew", ~plan.newkey, conf[n].reuse, cert[n] # None
               PROVE  cert'[n].key = cert[n].key
    OBVIOUS
  <2>1. plan.reuse
    BY DEF IInv, PlanInv, Promised, Order, At
  <2>2. KeepsKey
    BY <2>1 DEF KeepsKey
  <2>3. Issued.key = cert[n].key
    BY <2>2 DEF Issued
  <2> QED BY <2>3 DEF Order, IInv, TypeOK
<1> QED BY Inductive, <1>1, PTL DEF Spec, KeyReused

\* While no two confs give archives of other names, revocation removes no file that the
\* conf of another lineage gives, however long ago it was looked for
\* (hasOverlappingArchiveDir).
THEOREM RevocationSpares == Spec /\ []OneForeign => RevokeSparesOthers
<1> DEFINE Sparing ==
      \A n \in LineageName :
        DeleteFiles /\ plan.verb = "revoke" /\ plan.n = n =>
          \A m \in LineageName \ {n} : conf[m] # None => conf[m].at # n
<1>1. Init => Spared
  BY DEF Init, Spared
<1>2. Spared => [Sparing]_vars
  BY DEF Spared, DeleteFiles, At
<1> HIDE DEF Sparing
<1>3. Spec /\ []OneForeign => [][Sparing]_vars
  BY Inductive, SparedStep, <1>1, <1>2, PTL DEF Spec
<1> QED BY <1>3 DEF RevokeSparesOthers, Sparing
============================================================================
