------------------------------ MODULE Servers ------------------------------
(***************************************************************************)
(* The nginx and apache plugins at work: runs that answer http-01          *)
(* challenges for one lineage or for several, install a certificate and    *)
(* enhance a site, one after the other, with reloads that fail and runs    *)
(* that are killed.  What an edit does to the configuration is in          *)
(* NginxEdits and ApacheEdits; this module has the order of the calls, the *)
(* plugin object that lives as long as the run, and the snapshot (one      *)
(* value here, see Checkpoint).                                            *)
(***************************************************************************)
EXTENDS Integers, Sequences, FiniteSets, SequencesExt

CONSTANTS
  Layout,  \* configurations to begin with: records of server and conf
  Domain,  \* DNS names, sequences of labels
  MaxRuns, \* bound: runs
  Foreign, \* a certificate of the user's own
  None     \* no certificate, no file

Root == "nginx.conf"
N == INSTANCE NginxEdits
A == INSTANCE ApacheEdits

\* A certificate is known by the domains it is for.
Orders == SUBSET Domain \ {{}}

Cert == {None, Foreign} \cup Orders

ASSUME ServersAssumption ==
  /\ Domain \subseteq Seq(STRING)
  /\ \A l \in Layout :
       \/ l.server = "nginx" /\ l.conf \in N!Config(Cert) /\ N!ByHand(l.conf)
       \/ l.server = "apache" /\ A!IsConfig(l.conf, Cert) /\ A!ByHand(l.conf)
  /\ MaxRuns \in Nat
  /\ None # Foreign /\ \A S \in SUBSET Domain : None # S /\ Foreign # S

VARIABLES
  server,     \* the plugin in use
  conf,       \* the server's configuration on disk
  challenges, \* the domains whose answer is in place; None when there is neither
              \* challenge conf nor scratch directory
  saved,      \* what is in <work_dir>/in-progress/: one configuration or none
  pc,
  job,        \* what the run has to do
  plugin,     \* the fields of the plugin object that outlive a call
  want,       \* history: the configuration with all that was installed, and no more
  runs        \* history: runs begun

vars == <<server, conf, challenges, saved, pc, job, plugin, want, runs>>

IsNginx == server = "nginx"

\* Domains of the lineages to renew; what comes then; a certificate; a failure so far.
Job(todo, then, D, redirect) ==
  [todo |-> todo, then |-> then, domains |-> D, redirect |-> redirect, failed |-> FALSE]

Idle == Job(<<>>, "end", {}, FALSE)
Fresh == [paths |-> {}, include |-> FALSE, bucket |-> FALSE]

Init ==
  /\ \E l \in Layout : server = l.server /\ conf = l.conf /\ want = l.conf
  /\ challenges = None /\ saved = {}
  /\ pc = "idle" /\ job = Idle /\ plugin = Fresh
  /\ runs = 0

\* The change that the installer makes of it.
Edited(c, j) ==
  CASE j.then = "install" /\ IsNginx -> N!Install(c, j.domains, j.domains, j.redirect)
    [] j.then = "install" /\ ~IsNginx -> A!Install(c, j.domains, j.domains, j.redirect)
    [] j.then # "install" /\ IsNginx -> N!Enhance(c, j.domains, j.then)
    [] j.then # "install" /\ ~IsNginx -> A!Enhance(c, j.domains, j.then)

\* The blocks it is about; without any it refuses.
EditHits(c, j) ==
  CASE j.then = "install" /\ IsNginx -> N!Hits(c, j.domains)
    [] j.then = "install" /\ ~IsNginx -> A!Hits(c, j.domains, "443") \cup A!Hits(c, j.domains, "80")
    [] j.then # "install" /\ IsNginx -> N!EnhanceHits(c, j.domains)
    [] j.then # "install" /\ ~IsNginx -> A!Hits(c, j.domains, "443")

\* `nginx -t`; what `apachectl configtest` looks at is not changed.
Loads == IsNginx => N!Loads(conf, challenges # None)

\* What a restore brings back; Save keeps the older snapshot.
Restored == IF saved = {} THEN {conf} ELSE saved

Save == saved' = Restored

Stop == pc' = "idle" /\ job' = Idle /\ plugin' = Fresh

\* The main program: what a run left open is undone before anything else.
Begin(j) ==
  /\ pc = "idle" /\ runs < MaxRuns
  /\ conf' \in Restored
  /\ saved' = {}
  /\ pc' = IF j.todo = <<>> THEN "edit" ELSE "prepare"
  /\ job' = j
  /\ runs' = runs + 1
  /\ UNCHANGED <<server, challenges, plugin, want>>

\* The lineage is done: the next one, the installation, or the end.
NextLineage(failed) ==
  LET todo == Tail(job.todo)
      j == [job EXCEPT !.todo = todo, !.failed = @ \/ failed]
  IN  CASE todo # <<>> -> pc' = "prepare" /\ job' = j /\ UNCHANGED plugin
        [] todo = <<>> /\ j.then # "end" /\ ~j.failed ->
             pc' = "edit" /\ job' = j /\ UNCHANGED plugin
        [] OTHER -> Stop

-----------------------------------------------------------------------------
(* The challenge (Prepare, Present, Cleanup).                              *)

D == Head(job.todo)

\* injectChallengeLocations, injectChallengeAliases
Inject ==
  IF IsNginx
  THEN /\ conf' = N!Inject(conf, D)
       /\ plugin' = [paths |-> plugin.paths \cup N!Touched(conf, D),
                     include |-> ~conf.include, bucket |-> conf.bucket = "none"]
  ELSE /\ conf' = A!Inject(conf, D)
       /\ plugin' = [plugin EXCEPT !.paths = @ \cup A!Touched(conf, D)]

\* Only apache needs a virtual host.
CanInject == ~IsNginx => A!ChallengeHits(conf, D) # {}

Prepare ==
  /\ pc = "prepare" /\ CanInject
  /\ Inject
  /\ challenges' = {}
  /\ Save
  /\ pc' = "injected"
  /\ UNCHANGED <<server, job, want, runs>>

PrepareRefused ==
  /\ pc = "prepare" /\ ~CanInject
  /\ NextLineage(TRUE)
  /\ UNCHANGED <<server, conf, challenges, saved, want, runs>>

PrepareReloads ==
  /\ pc = "injected" /\ Loads
  /\ pc' = "present"
  /\ UNCHANGED <<server, conf, challenges, saved, job, plugin, want, runs>>

\* Prepare returns the error, and Obtain does not call Cleanup.
PrepareReloadFails ==
  /\ pc = "injected"
  /\ NextLineage(TRUE)
  /\ UNCHANGED <<server, conf, challenges, saved, want, runs>>

Present ==
  /\ pc = "present"
  /\ challenges' = D
  /\ pc' = "validate"
  /\ UNCHANGED <<server, conf, saved, job, plugin, want, runs>>

\* The server's answer to Present, the CA's to the order, and CleanUp of each domain.
Validated(ok) ==
  /\ pc = "validate"
  /\ challenges' = {}
  /\ pc' = "cleanup"
  /\ job' = [job EXCEPT !.failed = @ \/ ~ok]
  /\ UNCHANGED <<server, conf, saved, plugin, want, runs>>

\* Only apache ends its checkpoint; whether the server takes the configuration makes
\* no difference.
Cleanup ==
  /\ pc = "cleanup"
  /\ conf' = IF IsNginx THEN N!RemoveChallenge(conf, plugin.paths, plugin.include, plugin.bucket)
             ELSE A!RemoveChallenge(conf, plugin.paths)
  /\ saved' = IF IsNginx THEN saved ELSE {}
  /\ challenges' = None
  /\ NextLineage(FALSE)
  /\ UNCHANGED <<server, want, runs>>

-----------------------------------------------------------------------------
(* Install and Enhance.                                                    *)

MakeEdit ==
  /\ pc = "edit" /\ EditHits(conf, job) # {}
  /\ conf' = Edited(conf, job)
  /\ Save
  /\ pc' = "edited"
  /\ UNCHANGED <<server, challenges, job, plugin, want, runs>>

EditRefused ==
  /\ pc = "edit" /\ EditHits(conf, job) = {}
  /\ Stop
  /\ UNCHANGED <<server, conf, challenges, saved, want, runs>>

EditReloads ==
  /\ pc = "edited" /\ Loads
  /\ saved' = {}
  /\ want' = Edited(want, job)
  /\ Stop
  /\ UNCHANGED <<server, conf, challenges, runs>>

EditReloadFails ==
  /\ pc = "edited"
  /\ Stop
  /\ UNCHANGED <<server, conf, challenges, saved, want, runs>>

Kill ==
  /\ pc # "idle"
  /\ Stop
  /\ UNCHANGED <<server, conf, challenges, saved, want, runs>>

-----------------------------------------------------------------------------

Verb ==
  \/ \E S \in Orders : Begin(Job(<<S>>, "end", {}, FALSE))
  \/ \E S, T \in Orders : Begin(Job(<<S, T>>, "end", {}, FALSE))
  \/ \E S \in Orders, r \in BOOLEAN :
       Begin(Job(<<S>>, "install", S, r)) \/ Begin(Job(<<>>, "install", S, r))
  \/ \E S \in Orders, what \in {"hsts", "staple", "redirect"} : Begin(Job(<<>>, what, S, FALSE))

Next ==
  \/ Verb
  \/ Prepare \/ PrepareRefused \/ PrepareReloads \/ PrepareReloadFails
  \/ Present \/ (\E ok \in BOOLEAN : Validated(ok)) \/ Cleanup
  \/ MakeEdit \/ EditRefused \/ EditReloads \/ EditReloadFails
  \/ Kill

Spec == Init /\ [][Next]_vars
-----------------------------------------------------------------------------
(* Properties.                                                             *)

Blocks == conf.blocks

IsConfig(c) == IF IsNginx THEN c \in N!Config(Cert) ELSE A!IsConfig(c, Cert)

TypeOK ==
  /\ server \in {"nginx", "apache"}
  /\ \A c \in {conf, want} \cup saved : IsConfig(c)
  /\ challenges = None \/ challenges \in SUBSET Domain
  /\ pc \in {"idle", "prepare", "injected", "present", "validate", "cleanup", "edit", "edited"}
  /\ job \in [todo : Seq(Orders), then : {"end", "install", "hsts", "staple", "redirect"},
             domains : SUBSET Domain, redirect : BOOLEAN, failed : BOOLEAN]
  /\ plugin \in [paths : SUBSET (IF IsNginx THEN STRING ELSE STRING \X {"source", A!Copy}),
                include : BOOLEAN, bucket : BOOLEAN]
  /\ runs \in 0..MaxRuns

\* What the challenge makes of a rewrite of the user's own is not the matter here.
Known(c) ==
  IF IsNginx
  THEN [c EXCEPT !.blocks = [i \in DOMAIN @ |->
          IF @[i].acme = "own" THEN [@[i] EXCEPT !.acme = "none"] ELSE @[i]]]
  ELSE c

\* Challenges leave nothing behind: between two runs the configuration, or the one
\* that the next run begins by restoring, is what the user wrote and what was
\* installed, however many lineages were renewed, whatever failed and whenever the run
\* was killed (Cleanup: "removes the injected location blocks", nginx configurator.go:113).
GivenBack ==
  pc = "idle" => \A c \in Restored : Known(c) = Known(want)

\* Whenever nginx is given a configuration to load, while a challenge is answered or
\* after an edit, the file that it includes is there (writeInitialChallengeConf before
\* the include, and the Cleanup of both).  It is not between a Cleanup and the end of a
\* renewal run in which an earlier Prepare had failed: the include of that one stays,
\* addedInclude having been overwritten.
IncludeIsThere ==
  IsNginx /\ pc \in {"injected", "validate", "edited"} =>
    (conf.include => challenges # None)

\* The CA's request is answered: where it arrives the challenge is in place, for every
\* domain that a virtual host names, and for all if none names any.
ChallengeAnswered ==
  pc = "validate" =>
    \A d \in D :
      IF IsNginx THEN conf.include /\ d \in challenges
      ELSE \/ A!Hits(conf, {d}, "80") = {} /\ A!Hits(conf, D, "80") # {}
           \/ A!OnPort(conf, "80") \cap A!Visible(conf) = {}
           \/ \E i \in A!Routes(conf, "80", d) : Blocks[i].snippets > 0

\* The user's Include of an Apache host that has one goes, see InstallTwiceIsOnce.
NoIncludes(c) ==
  IF IsNginx THEN c
  ELSE [c EXCEPT !.blocks = [i \in DOMAIN @ |-> [@[i] EXCEPT !.includes = <<>>]]]

\* Installing or enhancing again changes nothing ("Idempotent", enhance.go:16 and
\* configurator.go of both plugins), but for the Include of an Apache host's own: a
\* copy has it, and the second installation replaces it by the plugin's.
InstallTwiceIsOnce ==
  pc = "edited" => NoIncludes(Edited(conf, job)) = NoIncludes(conf)

Routes(c, port, d) == IF IsNginx THEN N!Routes(c, port, d) ELSE A!Routes(c, port, d)

Named(b, S) == IF IsNginx THEN N!Named(b, S) ELSE A!Named(b, S)

Installs == MakeEdit /\ job.then = "install"

\* A host of Apache whose file has another one on port 80 may lose its copy.
Crowded(c) ==
  \E i, j \in A!OnPort(c, "80") : i # j /\ c.blocks[i].file = c.blocks[j].file

\* nginx takes a leading dot and an exact name, or a wildcard of the same labels, for the
\* same name, and of two blocks that have it listens to the first.  The plugin ranks
\* the dot below the others (selectBestServerPerDomain, nameMatchScore).
NamedAlike(c, d) ==
  \E i, j \in DOMAIN c.blocks : i # j /\
    \E n \in c.blocks[i].names, m \in c.blocks[j].names :
      /\ n.form = "dot" /\ m.form # "dot" /\ n.labels = m.labels
      /\ N!NameMatchScore(n, d) > 0 /\ N!NameMatchScore(m, d) > 0

\* Somebody names d, with nginx unambiguously; with Apache, on port 443 if anybody
\* names a requested domain there, and not in a crowded file.
Promised(c, S, d) ==
  IF IsNginx THEN (\E i \in DOMAIN c.blocks : N!Named(c.blocks[i], {d})) /\ ~NamedAlike(c, d)
  ELSE IF A!Hits(c, S, "443") # {} THEN A!Hits(c, {d}, "443") # {}
       ELSE A!Hits(c, {d}, "80") # {} /\ ~Crowded(c)

\* After an installation the server presents the new certificate for every requested
\* name that a host has and, with nginx, that no two blocks have in forms that nginx
\* takes for one name and the plugin does not: the block the plugin has chosen is the
\* one the server chooses (selectBestServerPerDomain, Install).  Of such a pair the
\* plugin secures the exact name, and nginx may go on to serve the leading dot.
InstalledIsServed ==
  [][Installs =>
       \A d \in job.domains : Promised(conf, job.domains, d) =>
         \E i \in Routes(conf', "443", d) : conf'.blocks[i].cert = job.domains]_vars

\* No other domain's certificate is changed, unless its block serves a requested domain
\* too (selectBestServerPerDomain: "including less-specific wildcards the user didn't
\* intend to receive the cert", configurator.go:590-591) or, no block naming a
\* requested domain, is a default server.  Apache changes every host that names one.
OthersKeepTheirs ==
  [][Installs =>
       \A d \in Domain \ job.domains :
         \A i \in Routes(conf, "443", d), j \in Routes(conf', "443", d) :
           \/ conf'.blocks[j].cert = conf.blocks[i].cert
           \/ /\ IsNginx
              /\ \/ \E e \in job.domains : j \in Routes(conf', "443", e)
                 \/ \A k \in DOMAIN Blocks : ~Named(Blocks[k], job.domains)
           \/ /\ ~IsNginx
              /\ Named(conf'.blocks[j], job.domains) \/ Crowded(conf)]_vars

\* The block that answers for d, whatever became of its place.
Answering(c, port, d) ==
  {[names |-> c.blocks[i].names, file |-> c.blocks[i].file] : i \in Routes(c, port, d)}

\* Plain HTTP is answered as before, by the same block: the listen that is added for
\* HTTPS does not take the place of the implied port 80 (addListenSSL).
HttpKept ==
  [][MakeEdit =>
       \A d \in Domain : Answering(conf', "80", d) = Answering(conf, "80", d)]_vars

Redirected(b) == IF IsNginx THEN b.redirects ELSE {n.labels : n \in b.redirects}

Loops(c) ==
  {d \in Domain : \E i \in Routes(c, "443", d) : d \in Redirected(c.blocks[i])}

\* No edit redirects a name to itself: the redirect goes to a block that does not
\* answer HTTPS, also when the same installation makes others do
\* (addRedirectIfHTTPOnly, and the order of Install).  A block that is made to answer
\* HTTPS, or is copied, with a redirect an earlier run gave it, does loop.
RedirectsDoNotLoop ==
  [][MakeEdit =>
       \A d \in Loops(conf') \ Loops(conf) :
         \E i \in DOMAIN conf.blocks : d \in Redirected(conf.blocks[i])]_vars
=============================================================================
