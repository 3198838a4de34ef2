----------------------------- MODULE RenewLoop -----------------------------
(***************************************************************************)
(* `go-certbot renew` (verbs/renew.go) over all lineages: what is restored *)
(* from their renewal confs and recorded in them again (renewOne,          *)
(* mergeFromRenewalConf, writeRenewalConf), the hooks around them          *)
(* (internal/hooks) and how the verb ends.  One action is one step of      *)
(* renewOne or of the loop; a signal only cancels the context, so that     *)
(* hooks are not started and orders fail while the loop goes on.  What     *)
(* EnsureDeployed and storage.Write do to one lineage is in Lineage.       *)
(***************************************************************************)
EXTENDS Naturals, FiniteSets

CONSTANTS
  N,        \* the lineages are 1..N, in the order of their names
  Hook,     \* pre-hook commands
  Cred,     \* credentials files of a DNS plugin
  None,     \* no hook, no credentials
  DirHooks, \* renewal-hooks/pre has scripts (and --directory-hooks is on)
  MaxRuns   \* bound: invocations

ASSUME RenewLoopAssumption ==
  /\ N \in Nat /\ MaxRuns \in Nat
  /\ None \notin Hook \cup Cred
  /\ DirHooks \in BOOLEAN

LineageNo == 1..N

\* What a renewal conf records, as far as it matters here.
Conf == [pre : Hook \cup {None}, creds : Cred \cup {None}, autorenew : BOOLEAN]

\* The command line: --pre-hook, --autorenew or --no-autorenew, --cert-name (0: it is
\* not given; N + 1: no conf has that name), --force-renewal, --dry-run.
Cli == [pre : Hook \cup {None}, autorenew : {"unset", "yes", "no"}, name : 0..(N + 1),
        force : BOOLEAN, dry : BOOLEAN]

VARIABLES
  conf,      \* conf[l]: renewal/<l>.conf
  due,       \* the lineages whose certificate is near its expiry
  pc, at,    \* where renew is, and the lineage its loop is at
  cli,       \* the command line of this run
  creds,     \* cfg.DNSCredentials[plugin]: ONE map, which every lineage's copy
             \* of the configuration refers to
  merged,    \* the lineage's copy of the configuration: pre-hook, autorenew
  ran,       \* PreRunner.ran
  started,   \* started[h]: how often pre-hook h was started in this run
  outcome,   \* outcome[l] of this run
  deployed,  \* the lineages whose deploy hooks were reached in this run
  posts,     \* how often the post-hook was started in this run
  signalled, \* the context is cancelled
  exit,      \* how the last run ended
  runs       \* invocations so far (bounded by MaxRuns)

memory == <<creds, merged, ran>>
history == <<started, outcome, deployed, posts>>
vars == <<conf, due, pc, at, cli, memory, history, signalled, exit, runs>>

Default == [pre |-> None, autorenew |-> TRUE]

\* Lineages as certonly or Certbot have recorded them.
Init ==
  /\ conf \in [LineageNo -> Conf]
  /\ due = {}
  /\ pc = "idle" /\ at = 1
  /\ cli = [pre |-> None, autorenew |-> "unset", name |-> 0,
            force |-> FALSE, dry |-> FALSE]
  /\ creds = None /\ merged = Default /\ ran = {}
  /\ started = [h \in Hook |-> 0]
  /\ outcome = [l \in LineageNo |-> "none"]
  /\ deployed = {} /\ posts = 0
  /\ signalled = FALSE /\ exit = "none" /\ runs = 0

-----------------------------------------------------------------------------
(* The loop.                                                               *)

Goto(label) == pc' = label

\* The process ends, and its memory with it.
End ==
  /\ Goto("idle")
  /\ creds' = None /\ merged' = Default /\ ran' = {}

\* Slip: off by one.
AdvanceTooFar ==
  IF at <= N THEN at' = at + 1 /\ Goto("load") ELSE at' = at /\ Goto("post")

\* On to the next lineage, or to the summary.
Advance == IF at < N THEN at' = at + 1 /\ Goto("load") ELSE at' = at /\ Goto("post")

\* The lineage is through.
Outcome(o) ==
  /\ outcome' = [outcome EXCEPT ![at] = o]
  /\ Advance

\* The lineages that --cert-name leaves.
Selected(l) == cli.name \in {0, l}

Begin(c) ==
  /\ pc = "idle" /\ N > 0
  /\ runs < MaxRuns
  /\ runs' = runs + 1
  /\ cli' = c
  /\ at' = 1 /\ Goto("load")
  /\ started' = [h \in Hook |-> 0]
  /\ outcome' = [l \in LineageNo |-> "none"]
  /\ deployed' = {} /\ posts' = 0
  /\ signalled' = FALSE /\ exit' = "none"
  /\ UNCHANGED <<conf, due, memory>>

\* No conf has the name that is asked for: an error, but the post-hook is deferred.
NoSuchLineage ==
  /\ pc = "load"
  /\ cli.name = N + 1
  /\ Goto("post")
  /\ UNCHANGED <<conf, due, at, cli, memory, history, signalled, exit, runs>>

\* Another lineage than the one that is asked for.
PassOver ==
  /\ pc = "load"
  /\ ~Selected(at) /\ cli.name # N + 1
  /\ Advance
  /\ UNCHANGED <<conf, due, cli, memory, history, signalled, exit, runs>>

\* The conf does not parse; or it is merged, and the certificate it names cannot be
\* read.
ParseError ==
  /\ pc \in {"load", "decide"}
  /\ Selected(at)
  /\ Outcome("parse")
  /\ UNCHANGED <<conf, due, cli, memory, started, deployed, posts, signalled, exit, runs>>

\* Slip: --autorenew counts for the lineages whose conf says no.
MergeUnset ==
  /\ pc = "load"
  /\ Selected(at)
  /\ merged' = [pre |-> IF cli.pre # None THEN cli.pre ELSE conf[at].pre,
                autorenew |-> cli.autorenew # "no"]
  /\ creds' = IF creds = None THEN conf[at].creds ELSE creds
  /\ Goto("decide")
  /\ UNCHANGED <<conf, due, at, cli, ran, history, signalled, exit, runs>>

\* mergeFromRenewalConf: the command line wins.  The credentials go into the map,
\* unless it has some by now.
Merge ==
  /\ pc = "load"
  /\ Selected(at)
  /\ merged' = [pre |-> IF cli.pre # None THEN cli.pre ELSE conf[at].pre,
                autorenew |-> IF cli.autorenew = "unset" THEN conf[at].autorenew
                              ELSE cli.autorenew = "yes"]
  /\ creds' = IF creds = None THEN conf[at].creds ELSE creds
  /\ Goto("decide")
  /\ UNCHANGED <<conf, due, at, cli, ran, history, signalled, exit, runs>>

\* autorenew, of the command line or else of the conf, and due.
Wanted == cli.force \/ (merged.autorenew /\ at \in due)

Skip ==
  /\ pc = "decide"
  /\ ~Wanted
  /\ Outcome("skipped")
  /\ UNCHANGED <<conf, due, cli, memory, started, deployed, posts, signalled, exit, runs>>

\* The CA's renewal information says wait.
SkipForAri ==
  /\ pc = "decide"
  /\ Wanted /\ ~cli.force /\ ~cli.dry
  /\ Outcome("skipped")
  /\ UNCHANGED <<conf, due, cli, memory, started, deployed, posts, signalled, exit, runs>>

Attempt ==
  /\ pc = "decide"
  /\ Wanted
  /\ Goto("pre")
  /\ UNCHANGED <<conf, due, at, cli, memory, history, signalled, exit, runs>>

-----------------------------------------------------------------------------
(* Hooks before the order.                                                 *)

\* Slip: every lineage starts its pre-hook.
NewHookAlways == merged.pre # None

\* PreRunner.Run: the lineage has a pre-hook that was not run yet.
NewHook == merged.pre # None /\ merged.pre \notin ran

NoPreHook ==
  /\ pc = "pre"
  /\ ~NewHook
  /\ Goto("dir")
  /\ UNCHANGED <<conf, due, at, cli, memory, history, signalled, exit, runs>>

\* The command counts as run from now on, whether it succeeds or not.
PreHook ==
  /\ pc = "pre"
  /\ NewHook
  /\ ~signalled
  /\ ran' = ran \cup {merged.pre}
  /\ started' = [started EXCEPT ![merged.pre] = @ + 1]
  /\ \/ Goto("dir") /\ UNCHANGED <<outcome, at>>
     \/ Outcome("failed")
  /\ UNCHANGED <<conf, due, cli, creds, merged, deployed, posts, signalled, exit, runs>>

\* With the context cancelled it is not even started.
PreHookCancelled ==
  /\ pc = "pre"
  /\ NewHook
  /\ signalled
  /\ ran' = ran \cup {merged.pre}
  /\ Outcome("failed")
  /\ UNCHANGED <<conf, due, cli, creds, merged, started, deployed, posts, signalled,
                 exit, runs>>

\* renewal-hooks/pre, for every lineage.
DirectoryHooks ==
  /\ pc = "dir"
  /\ \/ (DirHooks => ~signalled) /\ Goto("order") /\ UNCHANGED <<outcome, at>>
     \/ DirHooks /\ Outcome("failed")
  /\ UNCHANGED <<conf, due, cli, memory, started, deployed, posts, signalled, exit, runs>>

-----------------------------------------------------------------------------
(* The order and what follows it.                                          *)

\* Account, registration or order fail, always so once the context is cancelled.
OrderFails ==
  /\ pc = "order"
  /\ Outcome("failed")
  /\ UNCHANGED <<conf, due, cli, memory, started, deployed, posts, signalled, exit, runs>>

\* writeRenewalConf: what is set is recorded, the rest of the conf stays.  autorenew
\* is True from now on, with --no-autorenew as well.
Recorded ==
  [pre |-> IF merged.pre # None THEN merged.pre ELSE conf[at].pre,
   creds |-> IF creds # None THEN creds ELSE conf[at].creds,
   autorenew |-> TRUE]

\* The new version is on disk and in the conf, a dry run's as well.
Order ==
  /\ pc = "order"
  /\ ~signalled
  /\ due' = due \ {at}
  /\ conf' = [conf EXCEPT ![at] = Recorded]
  /\ Goto("deploy")
  /\ UNCHANGED <<at, cli, memory, history, signalled, exit, runs>>

\* The version is on disk, the conf is not rewritten.
OrderUnrecorded ==
  /\ pc = "order"
  /\ ~signalled
  /\ due' = due \ {at}
  /\ Outcome("failed")
  /\ UNCHANGED <<conf, cli, memory, started, deployed, posts, signalled, exit, runs>>

\* Deploy hooks.  Their errors are warnings; a cancelled one is an error.
Deploy ==
  /\ pc = "deploy"
  /\ deployed' = IF signalled THEN deployed ELSE deployed \cup {at}
  /\ Outcome("renewed")
  /\ UNCHANGED <<conf, due, cli, memory, started, posts, signalled, exit, runs>>

\* Slip: a conf that does not parse does not count.
FailedOnly == {l \in LineageNo : outcome[l] = "failed"}

Failures == {l \in LineageNo : outcome[l] \in {"failed", "parse"}}

\* The summary, and the deferred post-hook.
Post ==
  /\ pc = "post"
  /\ posts' = IF signalled THEN posts ELSE posts + 1
  /\ exit' = IF Failures = {} /\ cli.name # N + 1 THEN "ok" ELSE "failed"
  /\ End
  /\ UNCHANGED <<conf, due, at, cli, started, outcome, deployed, signalled, runs>>

-----------------------------------------------------------------------------
(* From outside.                                                           *)

SignalArrives ==
  /\ pc # "idle"
  /\ ~signalled
  /\ signalled' = TRUE
  /\ UNCHANGED <<conf, due, pc, at, cli, memory, history, exit, runs>>

Kill ==
  /\ pc # "idle"
  /\ End
  /\ exit' = "killed"
  /\ UNCHANGED <<conf, due, at, cli, history, signalled, runs>>

TimePasses ==
  /\ pc = "idle"
  /\ \E l \in LineageNo \ due : due' = due \cup {l}
  /\ UNCHANGED <<conf, pc, at, cli, memory, history, signalled, exit, runs>>

Next ==
  \/ \E c \in Cli : Begin(c)
  \/ NoSuchLineage \/ PassOver \/ ParseError \/ Merge \/ Skip \/ SkipForAri \/ Attempt
  \/ NoPreHook \/ PreHook \/ PreHookCancelled \/ DirectoryHooks
  \/ OrderFails \/ Order \/ OrderUnrecorded \/ Deploy \/ Post
  \/ SignalArrives \/ Kill \/ TimePasses

Spec == Init /\ [][Next]_vars
-----------------------------------------------------------------------------
(* Properties.                                                             *)

TypeOK ==
  /\ conf \in [LineageNo -> Conf]
  /\ due \subseteq LineageNo /\ deployed \subseteq LineageNo
  /\ pc \in {"idle", "load", "decide", "pre", "dir", "order", "deploy", "post"}
  /\ at \in LineageNo \cup {1}
  /\ cli \in Cli
  /\ creds \in Cred \cup {None}
  /\ merged \in [pre : Hook \cup {None}, autorenew : BOOLEAN]
  /\ ran \subseteq Hook
  /\ started \in [Hook -> Nat]
  /\ outcome \in [LineageNo -> {"none", "skipped", "renewed", "failed", "parse"}]
  /\ posts \in {0, 1}
  /\ signalled \in BOOLEAN
  /\ exit \in {"none", "ok", "failed", "killed"}
  /\ runs \in 0..MaxRuns

\* An order is made only after its pre-hook was started, and across all lineages
\* a pre-hook is started once ("deduped across the whole invocation", PreRunner).
PreHookOnceBefore ==
  /\ \A h \in Hook : started[h] <= 1
  /\ pc = "order" /\ merged.pre # None /\ ~signalled => started[merged.pre] = 1

\* A run that exits 0 has reached every lineage, or the one it was asked for,
\* wherever others gave up, and whatever it attempted is renewed and deployed, unless
\* a signal came before the deploy hooks (the loop and the summary of Renew, renewOne).
ExitOkIsTrue ==
  pc = "idle" /\ exit = "ok" =>
    /\ \E l \in LineageNo : Selected(l)
    /\ \A l \in LineageNo : Selected(l) =>
      /\ outcome[l] \in {"skipped", "renewed"}
      /\ outcome[l] = "renewed" /\ ~signalled => l \in deployed

\* The settings of a lineage survive the renewals of all: its conf changes only in
\* a run that is to renew it, its pre-hook only to the command line's, credentials once
\* recorded are never dropped, and one whose user has switched renewal off stays so
\* unless it is forced or the command line says --autorenew (what mergeFromRenewalConf
\* restores, writeRenewalConf records).
SettingsKept ==
  [][\A l \in LineageNo :
       /\ conf'[l] # conf[l] => Selected(l)
       /\ conf'[l].pre # conf[l].pre => conf'[l].pre = cli.pre /\ cli.pre # None
       /\ conf[l].creds # None => conf'[l].creds # None
       /\ ~conf[l].autorenew /\ conf'[l].autorenew =>
            cli.force \/ cli.autorenew = "yes"]_vars

\* The copies of the configuration are independent ("shallow copy is fine; we
\* mutate only scalar fields below", renew.go:192): what a lineage is renewed
\* with, and what is recorded for it, are its own credentials.
CredentialsOwn ==
  [][\A l \in LineageNo : conf[l].creds # None => conf'[l].creds = conf[l].creds]_vars
=============================================================================
