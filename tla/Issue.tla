------------------------------- MODULE Issue --------------------------------
(***************************************************************************)
(* The verbs that make, replace, change and remove a certificate:          *)
(* certonly with its decision what to do about a lineage that exists       *)
(* (findCertDispatch), run, one lineage's pass of renew, revoke, delete    *)
(* and reconfigure; the hooks around them; and the two stores they write   *)
(* one after the other: the certificate (storage.Write, one step here, see *)
(* Lineage) and the renewal configuration that tells later runs what it is *)
(* (writeRenewalConf).  The verbs hold the process lock, so one runs at a  *)
(* time; signals and crashes come at any moment.                           *)
(*                                                                         *)
(* A verb that refuses, or decides that there is nothing to do, changes    *)
(* nothing and is no step.                                                 *)
(***************************************************************************)
EXTENDS Naturals, FiniteSets

CONSTANTS
  Domain,      \* DNS names
  LineageName, \* certificate names
  NameOf,      \* the certificate name a domain gives when it comes first; None
               \* when it never does
  KeyType,     \* values of --key-type
  Usual,       \* the one that is the default
  MayDryRun,   \* whether --dry-run is used
  MaxOrders,   \* bound: orders after which no more is begun
  MaxEdits,    \* bound: confs copied by hand or reconfigured
  None         \* no file, no flag, no verb

ASSUME IssueAssumption ==
  /\ NameOf \in [Domain -> LineageName \cup {None}]
  /\ Usual \in KeyType /\ MayDryRun \in BOOLEAN
  /\ MaxOrders \in Nat /\ MaxEdits \in Nat
  /\ None \notin LineageName \cup KeyType

VARIABLES
  conf,        \* renewal/<name>.conf
  cert,        \* what live/<name>/ shows
  pc,          \* where the verb is
  plan,        \* what it has decided, as long as it matters
  cancelled,   \* a signal has cancelled its context
  owed,        \* history: the pre-hooks that have run with no post-hook since: "none",
               \* "flag" (--pre-hook) or "all"
  torn,        \* history: lineages whose conf was not written after the certificate
  orders,      \* history: orders that have succeeded
  edits        \* history: confs copied by hand or reconfigured

counters == <<orders, edits>>
vars == <<conf, cert, pc, plan, cancelled, owed, torn, counters>>

\* `at` is archive_dir and the paths, `names` domains, `reuse` reuse_key.
Conf == [at : LineageName, names : SUBSET Domain, ktype : KeyType, reuse : BOOLEAN,
         server : {"production", "staging"}]

\* Two keys in turn tell a new key from the one before it.
Cert == [names : SUBSET Domain, key : {0, 1}]

\* What is asked for: the domains, and --cert-name or the name of the first domain.
Request == {q \in [names : SUBSET Domain \ {{}}, n : LineageName, pinned : BOOLEAN] :
              q.pinned \/ \E d \in q.names : q.n = NameOf[d]}

\* --key-type; --reuse-key, also with --new-key; --dry-run.
Flags == [ktype : KeyType \cup {None}, key : {"unset", "reuse", "new"},
          dry : {FALSE, MayDryRun}]

\* --force-renewal and so on (of several the first counts), and the answer to the
\* question, "off" when none can be asked.
Mode == {"none", "force", "duplicate", "expand", "reinstall"}
Prompt == {"yes", "no", "off"}

\* The conf n is about the files named after it.
Own(n) == conf[n] # None /\ conf[n].at = n

Init ==
  /\ conf = [n \in LineageName |-> None]
  /\ cert = [n \in LineageName |-> None]
  /\ pc = "idle" /\ plan = None
  /\ cancelled = FALSE /\ owed = "none" /\ torn = {}
  /\ orders = 0 /\ edits = 0

-----------------------------------------------------------------------------
(* What to do about the lineage that exists.                               *)

\* sansFromCertOrEmpty of the path the conf gives
Existing(n) == IF cert[conf[n].at] = None THEN {} ELSE cert[conf[n].at].names

\* Slip: the lengths are not compared, and only one of the inclusions is.
SameSANSetCovers(have, want) == want \subseteq have

SameSANSet(have, want) == have = want

\* findCertDispatch, with both answers of needsRenewal.
Dispatch(q, mode, prompt) ==
  LET identical == SameSANSet(Existing(q.n), q.names)
      covers == q.names \subseteq Existing(q.n)
  IN  CASE mode = "force" -> {"renew"}
        [] mode = "duplicate" -> {"newcert"}
        [] mode = "expand" /\ ~identical -> {"expand"}
        [] mode = "reinstall" /\ identical -> {"renew", "skip"}
        [] mode \in {"none", "expand"} /\ identical ->
             {IF prompt = "no" THEN "skip" ELSE "renew"}
        [] mode \in {"none", "reinstall"} /\ ~identical /\ covers ->
             {CASE prompt = "yes" -> "expand"
                [] prompt = "no" -> "newcert"
                [] prompt = "off" -> "refuse"}
        [] mode \in {"none", "reinstall"} /\ ~identical /\ ~covers -> {"newcert"}

\* A name that nextDuplicateCertName finds free.
Duplicates == {n \in LineageName : conf[n] = None}

\* Both refusals to change the type of a lineage's key by the way.
KeyTypeRefused(q, f) ==
  /\ f.ktype # None /\ f.ktype # conf[q.n].ktype
  /\ ~q.pinned \/ f.key = "reuse"

\* Slip: --key-type has no default.
NewPlanNoDefault(verb, n, names, f) ==
  [verb |-> verb, n |-> n, names |-> names, ktype |-> f.ktype, asked |-> f.ktype # None,
   reuse |-> f.key # "unset", newkey |-> f.key = "new",
   server |-> IF f.dry THEN "staging" ELSE "production", dry |-> f.dry, quiet |-> FALSE]

NewPlan(verb, n, names, f) ==
  [verb |-> verb, n |-> n, names |-> names,
   ktype |-> IF f.ktype = None THEN Usual ELSE f.ktype, asked |-> f.ktype # None,
   reuse |-> f.key # "unset", newkey |-> f.key = "new",
   server |-> IF f.dry THEN "staging" ELSE "production", dry |-> f.dry, quiet |-> FALSE]

\* Slip: the type is merged when the lineage is renewed, not when it is expanded.
MergeExistingKeyTypeRenewed(p, outcome) ==
  IF outcome = "renew" /\ ~p.asked THEN [p EXCEPT !.ktype = conf[p.n].ktype] ELSE p

\* mergeExistingKeyType: a lineage that is replaced keeps the type of its key.
MergeExistingKeyType(p, outcome) ==
  IF outcome \in {"renew", "expand"} /\ ~p.asked
  THEN [p EXCEPT !.ktype = conf[p.n].ktype]
  ELSE p

Begin(p) ==
  /\ pc = "idle" /\ orders < MaxOrders
  /\ pc' = "pre" /\ plan' = p
  /\ cancelled' = FALSE
  /\ owed' = IF p.verb = "renew" THEN "all" ELSE "none"
  /\ UNCHANGED <<conf, cert, torn, counters>>

CertonlyNew(q, f) ==
  /\ conf[q.n] = None
  /\ Begin(NewPlan("certonly", q.n, q.names, f))

Certonly(q, f, mode, prompt) ==
  /\ conf[q.n] # None
  /\ \E outcome \in Dispatch(q, mode, prompt) \ {"skip", "refuse"} :
       /\ outcome \in {"renew", "expand"} => ~KeyTypeRefused(q, f)
       /\ \E n \in IF outcome = "newcert" THEN Duplicates ELSE {q.n} :
            LET p == [NewPlan("certonly", n, q.names, f) EXCEPT
                        !.quiet = prompt = "off" /\ mode \notin {"force", "expand"}]
            IN  Begin(MergeExistingKeyType(p, outcome))

\* `run` looks at no lineage.
Run(q, f) == Begin(NewPlan("run", q.n, q.names, f))

\* Slip: reuse_key is not read back.
MergeFromRenewalConfNewKey(p, r) ==
  [p EXCEPT !.ktype = IF p.asked THEN @ ELSE r.ktype,
            !.server = IF p.dry THEN @ ELSE r.server]

\* mergeFromRenewalConf: what the user has not set comes from the conf.
MergeFromRenewalConf(p, r) ==
  [p EXCEPT !.ktype = IF p.asked THEN @ ELSE r.ktype,
            !.reuse = @ \/ r.reuse,
            !.server = IF p.dry THEN @ ELSE r.server]

\* The leaf can be read, and is due or forced (RenewTiming).
Renew(n, f) ==
  /\ conf[n] # None
  /\ cert[conf[n].at] # None
  /\ Begin(MergeFromRenewalConf(NewPlan("renew", n, conf[n].names, f), conf[n]))

-----------------------------------------------------------------------------
(* Hooks.  A command is not started when the context is cancelled; a hook  *)
(* that is not set is no error then.                                       *)

At(label) == pc = label

\* On to the next part, or to the end, of which no part looks at the plan.
Goto(label) == pc' = label /\ UNCHANGED plan
Ending(label) == pc' = label /\ plan' = None

\* --pre-hook.  Renew has deferred its post-hook before, the others have not yet.
PreHook ==
  /\ At("pre")
  /\ Goto("preDir")
  /\ owed' = IF owed = "all" THEN owed ELSE "flag"
  /\ UNCHANGED <<conf, cert, cancelled, torn, counters>>

\* The hooks of renewal-hooks/pre; from here on everybody's post-hook is deferred.
PreHookDir ==
  /\ At("preDir")
  /\ Goto("order")
  /\ owed' = "all"
  /\ UNCHANGED <<conf, cert, cancelled, torn, counters>>

PreHooksFail ==
  /\ At("pre") \/ At("preDir")
  /\ Ending(IF plan.verb = "renew" THEN "post" ELSE "idle")
  /\ UNCHANGED <<conf, cert, cancelled, owed, torn, counters>>

DeployHooks ==
  /\ At("deploy")
  /\ Ending("post")
  /\ UNCHANGED <<conf, cert, cancelled, owed, torn, counters>>

PostHook ==
  /\ At("post")
  /\ Ending("idle")
  /\ owed' = IF cancelled THEN owed ELSE "none"
  /\ UNCHANGED <<conf, cert, cancelled, torn, counters>>

-----------------------------------------------------------------------------
(* The order (Obtain) and the installation.                                *)

\* The key of live/<name>/, with --reuse-key, and otherwise another one.
KeepsKey == plan.reuse /\ ~plan.newkey /\ cert[plan.n] # None

Issued ==
  [names |-> plan.names,
   key |-> CASE cert[plan.n] = None -> 0
             [] cert[plan.n] # None /\ KeepsKey -> cert[plan.n].key
             [] cert[plan.n] # None /\ ~KeepsKey -> 1 - cert[plan.n].key]

Order ==
  /\ At("order") /\ ~cancelled
  /\ cert' = [cert EXCEPT ![plan.n] = Issued]
  /\ orders' = orders + 1
  /\ Goto("conf")
  /\ UNCHANGED <<conf, cancelled, owed, torn, edits>>

\* Slip: the post-hook is deferred only when there is a certificate.
OrderFailsReturns ==
  /\ At("order")
  /\ Ending("idle")
  /\ UNCHANGED <<conf, cert, cancelled, owed, torn, counters>>

\* The account, the authenticator, the challenge, the CA or the disk.
OrderFails ==
  /\ At("order")
  /\ Ending("post")
  /\ UNCHANGED <<conf, cert, cancelled, owed, torn, counters>>

\* Slip: the domains of a conf that exists are preserved.
RecordedKeepsNames ==
  [at |-> plan.n, names |-> IF conf[plan.n] = None THEN plan.names ELSE conf[plan.n].names,
   ktype |-> plan.ktype, reuse |-> plan.reuse, server |-> plan.server]

Recorded ==
  [at |-> plan.n, names |-> plan.names, ktype |-> plan.ktype, reuse |-> plan.reuse,
   server |-> plan.server]

WriteRenewalConf ==
  /\ At("conf")
  /\ conf' = [conf EXCEPT ![plan.n] = Recorded]
  /\ torn' = torn \ {plan.n}
  /\ Ending(IF plan.verb = "run" THEN "install" ELSE "deploy")
  /\ UNCHANGED <<cert, cancelled, owed, counters>>

WriteRenewalConfFails ==
  /\ At("conf")
  /\ torn' = torn \cup {plan.n}
  /\ Ending("post")
  /\ UNCHANGED <<conf, cert, cancelled, owed, counters>>

Install ==
  /\ At("install")
  /\ Ending("deploy") \/ Ending("post")
  /\ UNCHANGED <<conf, cert, cancelled, owed, torn, counters>>

-----------------------------------------------------------------------------
(* Removal.                                                                *)

Removal(v, n) == [verb |-> v, n |-> n, asked |-> FALSE, dry |-> FALSE, quiet |-> FALSE]

BeginRemoval(v, n) ==
  /\ pc = "idle"
  /\ pc' = "remove" /\ plan' = Removal(v, n)
  /\ cancelled' = FALSE /\ owed' = "none"
  /\ UNCHANGED <<conf, cert, torn, counters>>

\* Slip: only the lineage the directory is named after is looked at.
OverlapsOwner(n) == conf[n].at # n /\ conf[conf[n].at] # None

\* hasOverlappingArchiveDir
Overlaps(n) == \E m \in LineageName \ {n} : conf[m] # None /\ conf[m].at = conf[n].at

\* The CA has revoked the certificate of --cert-name, or of --cert-path when a conf
\* gives that path (certPathToLineage); what else uses its archive keeps it.
Revoke(n) ==
  /\ conf[n] # None /\ cert[conf[n].at] # None
  /\ ~Overlaps(n)
  /\ BeginRemoval("revoke", n)

Delete(n) ==
  /\ conf[n] # None \/ cert[n] # None
  /\ BeginRemoval("delete", n)

\* deleteOne
DeleteConf ==
  /\ At("remove")
  /\ conf' = [conf EXCEPT ![plan.n] = None]
  /\ Goto("removeFiles")
  /\ UNCHANGED <<cert, cancelled, owed, torn, counters>>

DeleteFiles ==
  /\ At("removeFiles")
  /\ cert' = [cert EXCEPT ![plan.n] = None]
  /\ torn' = torn \ {plan.n}
  /\ Ending("idle")
  /\ UNCHANGED <<conf, cancelled, owed, counters>>

-----------------------------------------------------------------------------
(* Everything else.                                                        *)

\* The settings that later runs use; --server, --account and --domain are refused.
Reconfigure(n, ktype, reuse) ==
  /\ pc = "idle" /\ edits < MaxEdits
  /\ conf[n] # None
  /\ conf' = [conf EXCEPT ![n].ktype = ktype, ![n].reuse = reuse]
  /\ edits' = edits + 1
  /\ UNCHANGED <<cert, pc, plan, cancelled, owed, torn, orders>>

\* The user copies the conf of a lineage to a new name.
HandCopy(n, m) ==
  /\ pc = "idle" /\ edits < MaxEdits
  /\ Own(n) /\ conf[m] = None
  /\ conf' = [conf EXCEPT ![m] = conf[n]]
  /\ edits' = edits + 1
  /\ UNCHANGED <<cert, pc, plan, cancelled, owed, torn, orders>>

Signal ==
  /\ pc # "idle" /\ ~cancelled
  /\ cancelled' = TRUE
  /\ UNCHANGED <<conf, cert, pc, plan, owed, torn, counters>>

Kill ==
  /\ pc # "idle"
  /\ Ending("idle")
  /\ owed' = "none"
  /\ torn' = IF At("conf") THEN torn \cup {plan.n} ELSE torn
  /\ UNCHANGED <<conf, cert, cancelled, counters>>

Step ==
  \/ PreHook \/ PreHookDir \/ PreHooksFail \/ DeployHooks \/ PostHook
  \/ Order \/ OrderFails \/ WriteRenewalConf \/ WriteRenewalConfFails \/ Install
  \/ DeleteConf \/ DeleteFiles

Verb ==
  \/ \E q \in Request, f \in Flags : CertonlyNew(q, f) \/ Run(q, f)
  \/ \E q \in Request, f \in Flags, m \in Mode, a \in Prompt : Certonly(q, f, m, a)
  \/ \E n \in LineageName, f \in Flags : Renew(n, f)
  \/ \E n \in LineageName : Revoke(n) \/ Delete(n)
  \/ \E n \in LineageName, k \in KeyType, r \in BOOLEAN : Reconfigure(n, k, r)

Next ==
  \/ Verb \/ Step \/ Signal \/ Kill
  \/ \E n, m \in LineageName : HandCopy(n, m)

Spec == Init /\ [][Next]_vars
-----------------------------------------------------------------------------
(* Properties.                                                             *)

TypeOK ==
  /\ conf \in [LineageName -> Conf \cup {None}]
  /\ cert \in [LineageName -> Cert \cup {None}]
  /\ pc \in {"idle", "pre", "preDir", "order", "conf", "install", "deploy", "post",
             "remove", "removeFiles"}
  /\ pc \notin {"pre", "preDir", "order", "conf", "remove", "removeFiles"} => plan = None
  /\ cancelled \in BOOLEAN /\ owed \in {"none", "flag", "all"}
  /\ torn \subseteq LineageName
  /\ orders \in 0..MaxOrders /\ edits \in 0..MaxEdits

\* The domains a conf records are those of the certificate it points at, but where a
\* run ended between the two; a renewal asks for what the conf says
\* (writeRenewalConf, mergeFromRenewalConf).
ConfTells ==
  \A n \in LineageName :
    Own(n) /\ cert[n] # None /\ n \notin torn /\ pc # "conf" =>
      conf[n].names = cert[n].names

\* Nobody loses a name by asking for a certificate: certonly that is neither
\* forced nor told to expand, and cannot ask, never replaces a certificate by one
\* without some of its names (findCertDispatch).
NoShrink ==
  [][\A n \in LineageName :
       /\ Order /\ plan.n = n /\ plan.verb = "certonly" /\ plan.quiet
       /\ Own(n) /\ cert[n] # None
       => cert[n].names \subseteq cert'[n].names]_vars

\* A lineage keeps the type of its key until --key-type or reconfigure say another
\* (mergeExistingKeyType, mergeFromRenewalConf); `run` looks at no lineage.
KeyTypeKept ==
  [][\A n \in LineageName :
       /\ WriteRenewalConf /\ plan.n = n /\ plan.verb # "run" /\ ~plan.asked
       /\ conf[n] # None
       => conf'[n].ktype = conf[n].ktype]_vars

\* A lineage set to reuse its key has the same key after any renewal that was not
\* told --new-key (reuse_key, loadPriorPrivkey).
KeyReused ==
  [][\A n \in LineageName :
       /\ Order /\ plan.n = n /\ plan.verb = "renew" /\ ~plan.newkey
       /\ conf[n].reuse /\ cert[n] # None
       => cert'[n].key = cert[n].key]_vars

\* Revocation removes no file that the conf of another lineage names
\* (hasOverlappingArchiveDir).
RevokeSparesOthers ==
  [][\A n \in LineageName :
       DeleteFiles /\ plan.verb = "revoke" /\ plan.n = n =>
         \A m \in LineageName \ {n} : conf[m] # None => conf[m].at # n]_vars

\* Whatever becomes of the order, a verb whose pre-hooks have all succeeded runs the
\* post-hook before it returns, unless a signal came (the deferred function of
\* Certonly, Run and Renew).  "Regardless of outcome" (hooks.go:5) it does not run: a
\* script of renewal-hooks/pre that fails has Certonly and Run return before they
\* defer it, and what --pre-hook has stopped stays so.
PostHookRuns == pc = "idle" /\ owed = "all" => cancelled

\* --dry-run is "Run as if obtaining a cert without writing to disk"
\* (flags.go:227).
DryRunWritesNothing ==
  [][plan # None /\ plan.dry => UNCHANGED <<conf, cert>>]_vars
=============================================================================
