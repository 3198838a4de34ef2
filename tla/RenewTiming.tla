---------------------------- MODULE RenewTiming ----------------------------
(***************************************************************************)
(* When `renew` attempts one lineage (needsRenewal and the renewal         *)
(* information of verbs/ari.go), over any number of runs.  What a run      *)
(* leaves for the next is one value in the conf, [acme_renewal_info]       *)
(* ari_retry_after: the time the CA asked to wait for, or the end of a     *)
(* cooldown after the CA could not be asked.                               *)
(*                                                                         *)
(* Time is counted in ticks.  Nothing is an absolute time: the age of the  *)
(* certificate stops when it is expired, and ari_retry_after is what is    *)
(* left of it, so that there is no last tick.                              *)
(***************************************************************************)
EXTENDS Integers

CONSTANTS
  Lifetime,    \* validity periods the CA may choose
  ShortCutoff, \* below it a certificate is renewed at half its life
  RenewBefore, \* values of renew_before_expiry the user may have set
  Cooldown,    \* ariErrorCooldown
  LongestWait, \* bound: the longest wait the CA asks for
  None         \* renew_before_expiry is not set, or does not parse

Constants ==
  /\ Lifetime \subseteq Nat \ {0} /\ ShortCutoff \in Nat
  /\ RenewBefore \subseteq Nat /\ None \notin RenewBefore
  /\ Cooldown \in Nat \ {0} /\ LongestWait \in Nat /\ Cooldown <= LongestWait

ASSUME RenewTimingAssumption == Constants

VARIABLES
  cert,      \* [life, age]: the certificate in live/
  before,    \* renew_before_expiry in the conf
  autorenew, \* autorenew in the conf
  retry,     \* what is left of ari_retry_after, 0 when it is past or not there
  reason,    \* who set it: "none", "ca" or "cooldown"
  pc,        \* where renewOne is
  cli,       \* --force-renewal, --dry-run, --autorenew or --no-autorenew of this run
  idled,     \* history: ticks since the last order, as long as they matter
  setter     \* history: how the run that set the last cooldown went on, "running",
             \* "ordered" or "stopped" before its order

conf == <<before, autorenew>>
history == <<idled, setter>>
vars == <<cert, conf, retry, reason, pc, cli, history>>

Cli == [force : BOOLEAN, dry : BOOLEAN, autorenew : {"unset", "yes", "no"}]
Unattended == [force |-> FALSE, dry |-> FALSE, autorenew |-> "unset"]

Init ==
  /\ \E l \in Lifetime : cert = [life |-> l, age |-> 0]
  /\ before \in RenewBefore \cup {None}
  /\ autorenew \in BOOLEAN
  /\ retry = 0 /\ reason = "none"
  /\ pc = "idle"
  /\ cli = Unattended
  /\ idled = Cooldown + 1 /\ setter = "none"

-----------------------------------------------------------------------------
(* needsRenewal.                                                           *)

Expired == cert.age >= cert.life

\* now + renew_before_expiry is after NotAfter; or half, or two thirds, of the
\* lifetime has passed.
Due ==
  IF before # None THEN cert.life - cert.age < before
  ELSE cert.age >= IF cert.life < ShortCutoff THEN cert.life \div 2
                                              ELSE (2 * cert.life) \div 3

\* mergeFromRenewalConf: the conf counts unless the command line says otherwise.
Merged == IF cli.autorenew = "unset" THEN autorenew ELSE cli.autorenew = "yes"

Wanted == cli.force \/ (Merged /\ Due)

Begin(c) ==
  /\ pc = "idle"
  /\ pc' = "decide"
  /\ cli' = c
  /\ UNCHANGED <<cert, conf, retry, reason, history>>

Skip ==
  /\ pc = "decide"
  /\ ~Wanted
  /\ pc' = "idle"
  /\ UNCHANGED <<cert, conf, retry, reason, cli, history>>

Want ==
  /\ pc = "decide"
  /\ Wanted
  /\ pc' = "ari"
  /\ UNCHANGED <<cert, conf, retry, reason, cli, history>>

-----------------------------------------------------------------------------
(* ariDecision.                                                            *)

Attempt == pc' = "before"
Defer == pc' = "idle"

\* Slip: an expired certificate waits like any other.
AsksCaAlways == ~cli.force /\ ~cli.dry

\* The CA's hint counts, unless the user forces the renewal or tries it out, or
\* the certificate is expired.
AsksCa == ~cli.force /\ ~cli.dry /\ ~Expired

NotAsked ==
  /\ pc = "ari"
  /\ ~AsksCa
  /\ Attempt
  /\ UNCHANGED <<cert, conf, retry, reason, cli, history>>

\* readARIRetryAfter has a time that is not past.
Cached ==
  /\ pc = "ari"
  /\ AsksCa
  /\ retry > 0
  /\ Defer
  /\ UNCHANGED <<cert, conf, retry, reason, cli, history>>

\* Slip: the lineage waits for the cooldown it has just begun.
AskFailsDefers ==
  /\ pc = "ari" /\ AsksCa /\ retry = 0
  /\ retry' = Cooldown /\ reason' = "cooldown"
  /\ Defer
  /\ UNCHANGED <<cert, conf, cli, history>>

\* There is no account, no directory or no answer: later runs leave the CA alone
\* for a while, this one goes on to renew.
AskFails ==
  /\ pc = "ari"
  /\ AsksCa
  /\ retry = 0
  /\ retry' = Cooldown /\ reason' = "cooldown"
  /\ setter' = "running"
  /\ Attempt
  /\ UNCHANGED <<cert, conf, cli, idled>>

\* The leaf cannot be read, or the CA has no renewal information, or ShouldRenewAt
\* names no time.
NoHint ==
  /\ pc = "ari"
  /\ AsksCa
  /\ retry = 0
  /\ Attempt
  /\ UNCHANGED <<cert, conf, retry, reason, cli, history>>

\* It names a time, past (w = 0) or to come.
Hint(w) ==
  /\ pc = "ari"
  /\ AsksCa
  /\ retry = 0
  /\ retry' = w /\ reason' = "ca"
  /\ IF w > 0 THEN Defer ELSE Attempt
  /\ UNCHANGED <<cert, conf, cli, history>>

-----------------------------------------------------------------------------
(* What comes before the order, the order, and what happens around runs.   *)

\* The run ends.
End ==
  /\ pc' = "idle"
  /\ setter' = IF setter = "running" THEN "stopped" ELSE setter

\* The random sleep (time passes meanwhile), the pre-hooks, account and registration
\* are behind it.
Order ==
  /\ pc = "before"
  /\ pc' = "order"
  /\ idled' = 0
  /\ setter' = IF setter = "running" THEN "ordered" ELSE setter
  /\ UNCHANGED <<cert, conf, retry, reason, cli>>

\* One of them fails.
BeforeFails ==
  /\ pc = "before"
  /\ End
  /\ UNCHANGED <<cert, conf, retry, reason, cli, idled>>

\* writeRenewalConf keeps the section [acme_renewal_info].
Renewed ==
  /\ pc = "order"
  /\ \E l \in Lifetime : cert' = [life |-> l, age |-> 0]
  /\ autorenew' = TRUE
  /\ pc' = "idle"
  /\ UNCHANGED <<before, retry, reason, cli, history>>

OrderFails ==
  /\ pc = "order"
  /\ pc' = "idle"
  /\ UNCHANGED <<cert, conf, retry, reason, cli, history>>

\* The process dies.
Kill ==
  /\ pc # "idle"
  /\ End
  /\ UNCHANGED <<cert, conf, retry, reason, cli, idled>>

\* certonly replaces the certificate; the hint that is cached stays.
Reissued ==
  /\ pc = "idle"
  /\ \E l \in Lifetime : cert' = [life |-> l, age |-> 0]
  /\ autorenew' = TRUE
  /\ UNCHANGED <<before, retry, reason, pc, cli, history>>

Tick ==
  /\ cert' = [cert EXCEPT !.age = IF @ > cert.life THEN @ ELSE @ + 1]
  /\ retry' = IF retry = 0 THEN 0 ELSE retry - 1
  /\ idled' = IF idled > Cooldown THEN idled ELSE idled + 1
  /\ UNCHANGED <<conf, reason, pc, cli, setter>>

Step ==
  \/ Skip \/ Want \/ NotAsked \/ Cached \/ AskFails \/ NoHint
  \/ \E w \in 0..LongestWait : Hint(w)
  \/ Order \/ BeforeFails \/ Renewed \/ OrderFails

Next == (\E c \in Cli : Begin(c)) \/ Step \/ Kill \/ Reissued \/ Tick

\* A timer starts `renew` again and again, and its runs come to their end more often
\* than they are killed; every run goes on or dies, and the clock runs.  Nothing is
\* assumed of the CA, the hooks, the account or the user's own runs.
Fairness ==
  /\ SF_vars(Begin(Unattended)) /\ WF_vars(Step) /\ WF_vars(Tick)
  /\ SF_vars(cli = Unattended /\ (Skip \/ Want))
  /\ SF_vars(cli = Unattended /\ (NotAsked \/ Cached \/ AskFails \/ NoHint
                                   \/ \E w \in 0..LongestWait : Hint(w)))

Spec == Init /\ [][Next]_vars /\ Fairness
-----------------------------------------------------------------------------
(* Properties.                                                             *)

Replaced == cert.age = 0

TypeOK ==
  /\ \E l \in Lifetime : cert \in [life : {l}, age : 0..(l + 1)]
  /\ before \in RenewBefore \cup {None} /\ autorenew \in BOOLEAN
  /\ retry \in 0..LongestWait /\ reason \in {"none", "ca", "cooldown"}
  /\ pc \in {"idle", "decide", "ari", "before", "order"}
  /\ cli \in Cli
  /\ idled \in 0..(Cooldown + 1)
  /\ setter \in {"none", "running", "ordered", "stopped"}

\* For a certificate that is due a run at last goes on to renew it, or it is replaced
\* by other means, whatever the CA answers and however often it cannot be asked: what
\* it asks for ends with the certificate (the expiry test of renewOne, ariDecision).
DueIsAttempted == autorenew /\ Due ~> pc = "before" \/ Replaced

\* The cooldown by itself never stands between a certificate and its order: a run
\* defers for it only within a cooldown's length after an order, unless the run that
\* set it was stopped in between, by a kill, a hook or its account ("an error means
\* no ARI hint; fall back to renew_before_expiry", ari.go:24).
CooldownFollowsAttempt ==
  [][Cached /\ reason = "cooldown" =>
       \/ setter = "ordered" /\ idled <= Cooldown
       \/ setter = "stopped"]_vars
=============================================================================
