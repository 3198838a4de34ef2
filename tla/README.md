# TLA+ models of go-certbot

Specifications of the stateful parts of go-certbot: the process locks, a
certificate lineage on disk, the verbs that issue, renew, change and remove one,
the decision when to renew, ACME accounts, the edits that the nginx and apache
plugins make and the snapshots that undo them, the rotation of the log, and the
renewal loop with its hooks.  TLC checks them on small instances; TLAPS proves
what matters of all of them for every value of their constants.  Paths below are relative to
`src/internal/` unless they say otherwise.

    tlc -workers 2 -config MCProcessLock.cfg MCProcessLock.tla
    for m in *_proofs.tla; do tlapm $m; done

## The system

`cmd.Main` parses flags and ini files, opens the log, locks three directories,
rolls back what a crashed run left of the web server's configuration, installs a
signal handler and dispatches one verb.  A verb obtains, renews, installs,
revokes or deletes certificates.  The ACME exchange is the lego library; what is
go-certbot's own is what happens around it on disk, in hooks and in the server's
configuration, shared with other invocations of go-certbot and of Certbot.

| component | code | state | operations | correct when |
|---|---|---|---|---|
| process locks | `processlock/` | `.certbot.lock` in three directories, fcntl locks, descriptors | AcquireDirs, tryAcquire, Release | one process per directory; each start gets all locks or gives up |
| certificate lineage | `storage/lineage.go`, `verbs/delete.go` | `archive/<name>/<kind><N>.pem`, `live/<name>/<kind>.pem`, Certbot's `previous_*` links | Write, EnsureDeployed, recoverPreviousLinks, NextVersion, deleteOne | what is served is a matching set; archived files are written once; a crash at any point is recovered from |
| issuance | `client/` | account, key, CSR, the renewal conf | Obtain, EnsureRegistered, writeRenewalConf, loadPriorPrivkey | the version on disk carries the key it certifies; the conf describes it |
| configuration checkpoints | `checkpoint/`, `verbs/rollback.go` | `<work_dir>/in-progress/`, `<work_dir>/backups/`, `inFlightDir` in memory | Save, MarkClean, RestoreInFlight, RecoverInterrupted, Restore | a change of configuration happens as a whole or not at all |
| entry point, signals | `cmd/main.go`, `errorhandler/` | cleanup stack, cancelled context, exit status | Main, dispatch, the signal goroutine | a signal undoes what is unfinished and nothing else |
| nginx and apache plugins | `plugins/nginx/`, `plugins/apache/` | parsed configuration, injected challenge snippets | Prepare, Present, Cleanup, Install, testAndReload | a challenge leaves no trace; a failed reload restores |
| renewal loop | `verbs/renew.go`, `verbs/ari.go` | recorded settings, per-run outcomes, the cached renewal time | Renew, renewOne, mergeFromRenewalConf, needsRenewal, ariDecision | each lineage keeps its own settings; one failure stops nobody else; the exit status tells |
| hooks | `hooks/` | the commands that ran | Run, RunDir, PreRunner.Run | a pre-hook runs once and before; post-hooks always |
| accounts | `account/`, `verbs/accounts.go` | account directories, keys, symlinked servers | load, save, register, deactivate | the CA and the disk agree after a crash |
| issuing verbs | `verbs/certonly.go`, `run.go`, `select.go`, `install.go`, `enhance.go` | which lineage a request means | expand, reinstall, renew or new | no lineage is replaced by accident |
| revocation, reconfiguration | `verbs/revoke.go`, `reconfigure.go` | a conf and its rollback | Revoke, Reconfigure | a failed test renewal leaves the conf alone |
| renewal confs | `storage/renewalconf/` | a configobj file | Load, Save, Set... | what is not understood survives |
| log file | `logfile/` | `letsencrypt.log[.k]` | Setup, rotate | no log is lost before its time |
| command line | `cmd/flags.go`, `iniconfig.go`, `config/` | the configuration and what the user set | precedence argv, ini, default | the same settings Certbot would use |
| challenge plugins | `plugins/webroot`, `standalone`, `manual` | challenge files, a listener | Present, CleanUp | nothing is left behind |
| DNS plugins | `plugins/dns/` | credentials | adapters around lego | - |
| listing, prompts, subscription | `verbs/certificates.go`, `display/`, `eff/`, `extenv/` | none | printing | - |

How they interact: the locks are what lets the other components assume one
process at a time, with two exceptions that are modelled: the log is rotated
before the locks are taken, so by several processes at once, and Certbot's own leftovers (its lock files, its
`previous_*` links) are on the same disk.  Within one process there are two
goroutines that share state, the verb and the signal handler; they meet in
`checkpoint` and in the context that hooks and orders run with.  The renewal loop
calls EnsureDeployed, hooks, Obtain (which writes the lineage and its conf) and
the plugins, which use the checkpoints.  What one run leaves for the next is on disk:
the conf (its settings and the hint of the CA), the archive, the accounts, an open
checkpoint, and the server's configuration with what was installed in it.

What is hard: death between any two file-system calls, and again during the
recovery from it; a signal at any time; a lineage that fails while others go on;
state that survives a run (confs, open checkpoints, archives) and is misread by
the next; the unlink-and-recreate race of the lock files.

## Modules

| module | models | uses |
|---|---|---|
| `LockTable` | what the locks promise: a table of owners, changed atomically | - |
| `ProcessLock` | `processlock.go` call by call, with the kernel's fcntl rules | implements `LockTable` |
| `Lineage` | one lineage's archive and live links: Write, EnsureDeployed, delete, the key choice of Obtain | - |
| `Issue` | certonly with its dispatch, run, one lineage's renew, revoke, delete, reconfigure, over several lineages and their confs | - |
| `RenewLoop` | `renew` over several lineages: merge, pre-hooks, order, deploy and post-hooks, what is recorded, the exit status | - |
| `RenewTiming` | whether `renew` attempts a lineage: needsRenewal, the CA's hint and its cooldown, over any number of runs | - |
| `Accounts` | account directories, their migration from a predecessor server, and the account at the CA | - |
| `ConfigStore` | what the checkpoints promise: the configuration changes in one step, with an undo stack | - |
| `Checkpoint` | `checkpoint.go`, with the installers, authenticators, the rollback verb, startup recovery and the signal goroutine that use it | implements `ConfigStore` |
| `NginxEdits` | which server blocks nginx chooses and what every edit of the plugin does to them | - |
| `ApacheEdits` | the same for Apache's virtual hosts | - |
| `Servers` | runs of the plugins: Prepare, Present, Cleanup, Install, Enhance, with reloads that fail and kills | composes `NginxEdits`, `ApacheEdits` |
| `LogRotation` | `logfile.go`, as the entry point uses it before and under the locks | - |
| `*_proofs` | theorems on `ProcessLock`, `Lineage`, `Checkpoint`, `Issue`, `RenewLoop` (with `RenewTiming`), `Accounts`, `LogRotation`, `Servers` (with the two modules of edits) | the module, TLAPS |
| `MC*` | instances for TLC | the module of that name |

The modules describe the same program at different grains.  `Issue` takes a Write as one
step, `Lineage` has its file-system calls; `RenewLoop` takes the decision to renew as
a choice, `RenewTiming` is that decision; `Servers` takes the checkpoint as one
value that is restored when a run begins, `Checkpoint` has the calls of it and takes
the edits as texts.  All but `ProcessLock` and `LogRotation` have one process, which is what
`ProcessLock` shows the locks to establish.

A definition whose comment says *Slip* is a mistake somebody could make in the
code next to it; no specification uses it.  It shows which property would notice.
Every module with variables but the two abstract ones states a `TypeOK`.

### ProcessLock
One action is one system call: `Open`, `Lock` (fcntl), `CheckFresh`/`CheckStale`
(the Stat/Fstat comparison) and `Retry` are tryAcquire; `LockRefused`,
`OpenFails`, `SystemCallFails` (any other error of fcntl, stat or fstat) and `GiveUp` the
error paths of AcquireDirs; `Remove` and `Close`
Release.  `disk` maps a lock file's name to an inode, `locker` an inode to the
process that has its fcntl lock.  Inodes are reused as soon as nothing refers to
them; the owner may lock again; closing any descriptor of an inode drops the
process's lock on it; `Crash` closes everything at any moment.

### Lineage
`archive[kind][v]` and `live[kind]` are the files and links.  Write is
`BeginWrite` (NextVersion and the copies), four `WriteFile`s (the key as
`FillPrivkey`: created with O_EXCL and then filled, so that it can be found torn),
four `LinkFile`s and `WriteConf`.  EnsureDeployed is `RecoverSkip`/`RecoverRemove`/
`RecoverLink`/`RecoverDone` per kind and `PickHighest` with four `Relink`s.  deleteOne
is `BeginDelete` (the conf), `DeleteLive`, `DeleteArchive`.  `Stop` ends the process
anywhere, `CertbotInterrupted` leaves the links and sentinels of a Certbot killed
in the middle of `update_all_links_to`, `UserDeletes` is one file removed by hand.

### Checkpoint
Two goroutines, `Main` and `Signal`, with program counters.  Save is the copies
(`SaveCopies`), one `SaveLine` per path for FILEPATHS or NEW_FILES, and the mark in memory
(`SaveMark`); an installer has read its files before (`job`) and then writes them one by one,
each by os.WriteFile, which truncates (`WriteFile`) and fills (`FillFile`); between the two the
file is `CutShort`.  It reloads, and promotes (`TakeClean`, `Promote`) or returns the
error.  Authenticators inject (`BeginAuthenticate` and the same writes), wait for the CA
(`ChallengeDone`) and clean up: apache's goes through every file it has injected into in this
run and the root configuration, nginx's through its own; each is read (`ReadBack`), or cannot
be (`ReadBackFails`: apache passes on, nginx gives up), and is written back without the
snippet by os.WriteFile (`WriteBack`), whether a checkpoint has it or not.  The steps
of restoreDir (`RestoreFile`, a rename; `RestoreNew`, `UnlinkNew`, `RemoveDir`, `RestoreFails`) serve the
recovery at startup and the signal goroutine, and with `DropCheckpoint` the rollback verb.
`inFlightMu` makes taking the directory one step.

A signal comes at any time after the handler is installed, and the verb goes on beside
the goroutine that restores; `Crash` ends the process between any two steps, and
`CrashInRemoveAll` inside an os.RemoveAll, of a recovery, of the signal goroutine or of a
rollback, which leaves any part of the directory (`Remains`).  Two history variables say what
the properties have to leave open: `cut`, the in-progress directory is what a removal has left of
it, and `raced`, the signal goroutine has restored while Main was saving or rewriting files, in
this run or in one whose checkpoint is still there.

### LogRotation
One action is one system call of `rotate` and `Setup`.  Nothing keeps two processes from
being in it at once (`InSetup`; `met` remembers which invocations were).  Logs are numbered as they
are created; `text[l]` says which invocations have lines in log `l`.  `Acquire` is
the lock as `LockTable` has it.

### Issue
A conf records the lineage whose files it names (`at`; a hand-copied conf names
another's), the domains, the type of the key, `reuse_key` and the server; a
certificate its names and its key.  `Certonly` is findCertDispatch: `Dispatch` gives
what a request may lead to for every flag and every answer at the prompt, with
both answers of needsRenewal.  `CertonlyNew`, `Run` and `Renew` begin the same
pass: `PreHook` (the flag), `PreHookDir` (the scripts), `Order` (the ACME order and
storage.Write), `WriteRenewalConf`, `Install` for run, `DeployHooks`, `PostHook`.  `owed` follows
which pre-hooks have run with no post-hook since; `PreHooksFail` ends certonly and run at
once and sends renew to its post-hook.  `Order` fails, `WriteRenewalConf` fails, `Signal`
cancels the context and `Kill` ends the process anywhere.  Revocation and delete
are `Revoke`/`Delete`, `DeleteConf`, `DeleteFiles`; revoke looks for other confs of the
archive first (`Overlaps`), delete does not.  `Reconfigure` changes the settings
that later runs use; `HandCopy` is a user who copies a conf.  A verb that refuses is no step.

### RenewTiming
Time is in ticks, and relative: the certificate's age and what is left of
`ari_retry_after`.  One run is `Begin`, `Skip` or `Want` (needsRenewal and the expiry
test), then `NotAsked`, `Cached`, `AskFails`, `NoHint` or `Hint(w)` (the branches of
ariDecision).  A run that goes on sleeps, runs its pre-hooks and loads the account
(label `before`; time passes, and `BeforeFails` or `Kill` may end it there, with the cooldown in the
conf already), then makes the `Order`, which is `Renewed` or `OrderFails`.  The command line may have
--autorenew, --no-autorenew, --force-renewal or --dry-run.  `Tick`, `Kill`, `Reissued` (certonly replaces
the certificate, and the hint in the conf stays) may come between.

### Accounts
`entry[server][id]` is an account directory: missing, some of its three files, all of
them, or a symlink; `root` is the directory of the current server, which may be a
symlink to the predecessor's as a whole.  `LoadPinned...` is Load with `--account`, `Find`,
`MigrateRemove` and `MigrateLink` FindAll, `Create`/`Register`/`SaveBegin`/`SaveDone` a new
account, `Deactivate`/`RemoveAccount`/`RemoveRoot` unregister.  The CA's answers can be
lost after it has acted; saves fail; `Kill` comes anywhere.

### NginxEdits, ApacheEdits, Servers
A configuration is the blocks in the files' order: a sequence for nginx, and for Apache
hosts at even numbers, so that a copy has the place just before its source.  Names are
sequences of labels with a form (exact, wildcard, leading dot, trailing wildcard, regular
expression); a block has its listens or port, a certificate, a redirect, the
enhancements, and what the challenge put into it.  `Routes` is the rule by which the
*server* chooses a block for a request, an external definition; `BestFor`, `Hits` and
`Rank` are how the *plugin* chooses, and the properties compare the two.  The
edits are functions from configurations to configurations: `Inject`, `RemoveChallenge`,
`Install`, `Enhance`.  `Servers` puts them in the order of the calls, with the fields of
the plugin object that outlive a lineage (`plugin`), the snapshot (`saved`, a set with one
configuration or none), reloads that fail
(always possible; certain where the server would refuse the file), runs over
one or two lineages and kills.  `want` is the configuration with what was
successfully installed and nothing else.

### RenewLoop
One action is one step of renewOne.  Three settings stand for a conf: a pre-hook
(restored if the command line has none, recorded if set), the credentials of a
DNS plugin (held in a map all copies of the configuration share) and autorenew
(recorded as True by every issuance).  The command line may set the pre-hook and autorenew
either way, force, try out, or ask for one lineage with --cert-name (`Selected`, `PassOver`;
`NoSuchLineage` when there is none of that name).  Orders and hooks fail at will; a signal cancels the
context, after which hooks are not started and orders fail.  What an ACME server
answers and the suggested renewal window are free choices.

## Runs

| run | instance | shows |
|---|---|---|
| `locks` | 3 processes, 2 of 3 directories each, in crossing orders; 3 inodes, one start each | mutual exclusion, the refinement of `LockTable`, and that every start ends in all locks or in giving up |
| `lineage` | 3 versions, `--reuse-key`, one file deleted by hand | write-once archives, complete publication, no lost link, no link moved backwards, recovery from every mixture |
| `issue` | 2 names, a lineage and its duplicate, 2 key types, 2 orders, one conf copied or reconfigured | a conf tells what its certificate is; nobody loses a name by asking; the key and its type are kept; revocation spares other lineages; after all pre-hooks have run, the post-hooks run whatever becomes of the order |
| `issue_dry_run` | the same with `--dry-run`, one order | **disagreement**: `run --dry-run` writes a certificate of the staging server and a conf that records that server (in the trace it is the lineage's first; `Order` overwrites an older one just so) |
| `renew` | 2 lineages, 2 hooks, 1 credentials file, 1 invocation with any flags from any confs, signal and kill anywhere | settings survive renewals, pre-hooks are deduplicated and come first, exit 0 means what it says |
| `renew_credentials` | 2 credentials files, 1 invocation | **disagreement**: a lineage is renewed with its predecessor's DNS credentials, and they are recorded for it |
| `renew_timing` | certificates of 4 and of 9 ticks, three values of renew_before_expiry or none, waits up to 6 | for a certificate that is due a run at last goes on to renew it, whatever the CA answers; a run defers for a cooldown only soon after an order, or where the run that set it was stopped before its own |
| `accounts` | 2 accounts of a predecessor, 2 new ones, any number of runs | no key of a valid account is lost; an account without a key is explained; a closed one does not come back |
| `checkpoint` | both plugins, 2 files (the root configuration and one that an installer makes), 1 text, 1 backup; signals at any time, kills anywhere, inside os.WriteFile and os.RemoveAll included | startup recovery; the configuration a startup comes up with changes only where it may; the refinement of `ConfigStore` |
| `rollback` | installers only, 2 files, 3 texts of installers and the user, 2 backups, `--checkpoints` 1 or 2; signals and kills as above | a checkpoint that is rolled back is removed only when its files are back, also when it is the second of two that share a file, or what a kill has left of one |
| `servers` | about eighty configurations of two or three blocks, 2 domains, 3 runs | challenges leave nothing behind and are answered; installing twice is installing once; the new certificate is served, other domains keep theirs and their HTTP, no redirect loops |
| `logs` | 3 processes, `max_log_backups` 0, 1 or 3, 6 invocations, any number of them in Setup at once | a rotation loses a log only to a newer one, and the oldest where rotations do not meet; the running invocation's log stays for `max_log_backups` others that do not meet |

`TypeOK` is checked in `locks`, `renew`, `accounts` and `issue`; those of the other modules
are proved.

### Bounds
* `MaxStarts`, `MaxVersion`, `MaxMishaps`, `MaxTexts`, `MaxBackups`, `MaxRollback`,
  `MaxRuns`, `MaxOrders`, `MaxEdits` bound counters in guards; nothing else refers to them.
  Where one is used up the behaviour ends, which is why these runs do not look for deadlock.
  In `locks` an invocation that ran or gave up is over for good.  That nothing
  waits for ever there is what `EveryStartDecided` says.  `Accounts` has no counter and
  looks for deadlock; it stops making accounts when the ids are used up.
* Three processes: a holder that unlinks, one that has the unlinked file open, and
  one that makes the next file.  Three inodes let names move to a fresh inode
  while two orphans are open; an `Open` that needs a fourth inode has to wait.
* Three versions: the one served, one left half-written, one written over the rest.
* Two orders: a lineage is made and then replaced, duplicated or renewed, with removals,
  kills and an edit of a conf in between without a bound or with the one of `MaxEdits`.
* `RenewTiming`: 4 and 9 ticks are below and above `ShortCutoff`; renew_before_expiry is never,
  within the lifetime or longer than it; `LongestWait` is longer than the rest of a
  certificate's life, so that a hint can outlive what it was given for.
* Four accounts: two that are taken over, singly by `--account` or together, and two
  that are registered one after the other.
* Three runs of the plugins: one that leaves something, one that meets it, one that
  would be confused by what the second made of it.  The configurations are listed in
  `MCServers`; they have the forms of names and listens for which the plugin's choice and the
  server's are made by different rules.
* Two files, one of which is new, make a change that can be half done and a
  rollback that both restores and removes.  One of them is Apache's root configuration.  One
  text in `checkpoint` is an installation on top of what challenges leave or an edit
  of the user's; three in `rollback` are two installations with an edit between or after
  them, so that the two checkpoints share a file that differs in both.
* Two lineages in `renew`: what one does to the next.  One invocation, which begins with any
  confs that an earlier one could have left.
* `Backups = {0, 1, 3}`: no rotation, a cascade of one, a cascade with a middle.

### Fairness
`ProcessLock` assumes `WF_vars(Step(p))`: a process that is in the
middle of AcquireDirs or Release makes its next system call some time.  Those
calls do not block (the lock is F_SETLK, and `O_CREATE` opens never wait), and the
scheduler is the kernel's.  Nobody is forced to start, to finish a verb or to die.

`RenewTiming` assumes that a timer starts `renew` without flags again and again, that
the clock runs, and that a run comes to its end more often than it is killed: weak
fairness of `Tick` and of a run's next step, strong fairness of `Begin(Unattended)`, which a user's own
runs disable, and of the two decisions of such a run, since a kill disables them.  It is the installed systemd timer or cron
entry that justifies this; of the CA nothing is assumed, it may
refuse every order and answer every request for a hint by an error or a time to come; nor of the
hooks and the account, which may stop every run before its order.

All other properties are safety properties.

## What is proved

`ProcessLock_proofs` proves, for any set of processes, directories and inodes, any
number of directories per process and any bound:

* `TypeCorrect`: `Spec => []TypeOK`.  `TypeInv` adds to it that the loop position and
  the open descriptors fit (`LoopPosition`), without which the indices of `fd` are
  not in range and no step of the induction goes through.
* `Exclusion`: `DirsDistinct /\ Spec => []MutualExclusion`.  That two holders of a
  directory cannot exist is not inductive.  `LockInv` says why: what a holder has
  open is linked under the directory's name and locked by it (`HeldIsLinked`), an
  inode is linked under one name (`NoHardLinks`), and a process in the middle of
  tryAcquire has one descriptor more than locks (`CurrentDescriptor`).  Two holders
  of one directory then hold one inode, which has one owner.
* `Refinement`: `DirsDistinct /\ Spec => ImplementsLockTable`, one step of the
  protocol is one step of the owner table or none.  `CheckFresh` is what
  acquires, and unlinking or closing what releases.

The proofs assume `ProcessLockAssumption` (the types of the constants; TLC evaluates
it in `locks`) and, as a hypothesis of the theorems, `DirsDistinct`: no process names
a directory twice.  `cmd.Main` does not establish that (see below).

`RenewLoop_proofs` proves, for any number of lineages and runs and any hooks and
credentials, `TypeCorrect`, `HooksOnceBefore`, `ExitStatus` and `SettingsSurvive`: all
four properties of the run `renew`.  None is inductive, since each is about what an
earlier step has left.  `LoopInv` says that every lineage the loop has passed has an
outcome, that without a signal a renewed one was deployed, and that an exit of 0
was earned; `HookInv` that a pre-hook in `PreRunner.ran` was started exactly once
unless a signal came first, and one outside of it never; `SettingInv` that the merged
pre-hook is the command line's or the conf's, and that a lineage whose conf has autorenew
off is attempted only by force or with --autorenew.  `SettingsSurvive` then looks at `Order`, the only
step that writes a conf.  The one assumption is `RenewLoopAssumption`, the types of
the constants.  `CredentialsOwn`, which the code violates, is of course not proved;
what holds instead is in `SettingsKept`: recorded credentials are not dropped.

`Lineage_proofs` proves, for any number of versions and mishaps and either value of
`ReuseKey`, all five properties of the run `lineage` and `TypeOK`.  A kill leaves Write
and EnsureDeployed, two loops over the four kinds, anywhere, so the invariant has three
parts beside the types: what a file of version *v* may hold whoever wrote it (`Numbers`), how
far a Write has come and that it works on a version above all others (`Writing`), and
how far EnsureDeployed has come (`Deploying`).  `WriteOnce` and `NeverBackwards` then
follow from `Writing` and `Deploying` step by step.

`Issue_proofs` proves, for any domains, lineages, key types and numbers of orders and edits,
`TypeOK`, `ConfTells`, `PostHookRuns`, `NoShrink`, `KeyTypeKept` and `KeyReused`, and
`RevokeSparesOthers` under a hypothesis.  A verb
decides when it begins and acts steps later, so the invariant says what a plan is
worth until the conf is written (`Meant`) and until the order is made (`Promised`), how
far certificate and conf may be apart (`Tells`) and when the post-hook is owed (`Owing`).
For `RevokeSparesOthers`, `Spared` has what revoke saw when it began hold until the files are
gone.  `RevocationSpares` needs `[]OneForeign`: no two confs give an archive that is not
named after them.  Where there are two, and deletions were cut short between conf and
files, the conf `m` can give the archive `n` while the conf `n` gives another;
hasOverlappingArchiveDir looks at that other, and revoking `n` removes what `m`
gives.  The hypothesis is one about the user, who may copy any number of confs by hand; the run
`issue` has it because `MaxEdits` is 1 there.

`Accounts_proofs` proves all four properties of `accounts` for any ids and any accounts of a
predecessor.  `Storage` says what the directories can look like (an account is in one
of two places, only single links are links), `Fresh` that an id the CA has not seen is
nowhere, `InHand` what a running verb has chosen, `Closed` what may be left of
an account that is closed.  `AccountsAssumption` has ids that are naturals, for the
order in which FindAll sorts them.

`LogRotation_proofs` proves, for any number of processes, invocations and backups and
however many are in Setup at once, `TypeOK`, `RunningLogLasts` and `LogSurvivesRotation`.
`Ordered`: the higher the name, the older the log, and this holds through any interleaving of
cascades, since a rename moves a log to the next name only and nobody gives a log a name but
`Open`.  Hence what a rename overwrites is older than what takes its place.  The rest is
about an invocation that meets no other.  `Rotating`: the name that its next rename gives
is free, but for the last, so that only the oldest log is overwritten.  `Behind`: a log in use
is no further down than there were invocations after its own, and one less while the running
cascade still has to move it.  Where rotations do meet, a cascade can overwrite a log that is
not the oldest (two processes at different places of it), and the running log can go sooner.

About `RenewTiming`, `RenewLoop_proofs` proves `TimingTypeCorrect` and `CooldownAfterAttempt`
(the property `CooldownFollowsAttempt`) for any lifetimes, hints and lengths of a
cooldown.  The two modules are two grains of one loop; the first takes the second as the
instance `Timing`, whose assumption is the theorems' hypothesis `Timing!Constants`.  The
invariant `Spent` adds up, for a cooldown whose run has come to its order: what is left of it
and the ticks since the last order never exceed the cooldown that was set.

`Checkpoint_proofs` proves, for any files, any plugins and any bounds, and without a hypothesis:

* `TypeCorrect`.
* `CrashSafety`, the property `CrashSafe`: what the next startup would make of the disk changes
  only by the user's hand, in MarkClean's rename and in a rollback; but for a file that Cleanup
  rewrites and no checkpoint has, and while the store is `raced` or `cut`.
* `Recovery`, the property `RecoveryClears`: no checkpoint is open when the verb begins, unless
  it is what a removal that was cut short has left: a copy that FILEPATHS names may be
  gone, and the recovery stops there.
* `Rollback`, the property `RollbackReplays`, for any number of checkpoints.  The files seen in a
  later checkpoint of the same rollback are left alone (`checkpoint.go:287`): of a file that
  two have, the earlier copy is never put back, and the property says that and no more.
* `Refinement`: `Spec => ImplementsConfigStore`.  MarkClean's rename is the change, a rollback
  undoes file by file, Cleanup tidies a file that no checkpoint has, and a kill there loses
  it; every other step, of Main or of the signal's goroutine, leaves the store alone.  Nothing is
  claimed of a run whose store is disturbed (`raced` or `cut`).

The properties speak of what the next startup would make of the disk, so the invariant
says at every label what a run has read and what the open checkpoint has of the files.
`Phases`: which labels of the two goroutines go together.  `Working`: what Main has read and which file
it has truncated.  `Replaying`: how far each restoration has come; `Clearing`, that each path of
FILEPATHS has its copy, unless `cut`.  `Guarded`: until a signal races, every file about to be
written is covered and what was read is what is there.  `OneList`: a file is in FILEPATHS
or NEW_FILES but not both, without which a kill inside RemoveAll that takes one of the lists
would change what the other means; it holds because a run installs at most once before its
checkpoint is promoted and authenticators make no files.

`Servers_proofs` proves, for any configurations of the two servers to begin with, any
domains and any number of runs:

* `TypeCorrect`; `LeftAsWanted`, the property `GivenBack`; `IncludeCovered`, the property
  `IncludeIsThere`; `AnsweredWhenAsked`, the property `ChallengeAnswered`; `TwiceIsOnce`, the
  property `InstallTwiceIsOnce`: the invariants of the run `servers`.
* `PlainHttpKept` and `NoRedirectLoop`, the properties `HttpKept` and `RedirectsDoNotLoop`.
* `ApacheServesInstalled` and `ApacheSparesOthers`, the properties `InstalledIsServed` and
  `OthersKeepTheirs`, when all the configurations to begin with are Apache's.

Edits take the change of a block as an operator, which no lemma can quantify over; so
the first lemmas say of each edit what it makes of a configuration block by block, with the
change as a function, and those that follow say what an edit cannot see: an nginx
edit does not look at a challenge (`NKnown` forgets it), so that the edit of a
configuration that differs from the wanted one by a challenge differs from the wanted
result by that challenge (`NEnhancedKnown` and its like).  An induction over blocks
is never needed: where the code takes the first, the last or the best block, the lemmas
`Least` and `Foremost` give one, from the well-foundedness of `<` on the naturals.

`GivenBack` is about the end of a run and does not say what keeps it true.  The
invariant `IInv` follows the wanted configuration through the run, up to what an edit can
see (`Seen`).  `Snapshots`: what is saved is wanted.  `Covered`: where the disk differs
from what is wanted, something is saved; without the two, a kill or a failed reload has
nothing to go back to.  `Intact`: while nothing has failed, each lineage and the
installation find what is wanted, since what is installed on top becomes wanted.
`Reversible`: taking the challenge out gives what is wanted; for nginx only while nothing
has failed, since `addedInclude` is overwritten by the next Prepare, for Apache always,
since `paths` only grows.  `Wanted`: the wanted configuration has nothing of a challenge,
so that Cleanup takes no more out than was put in.  `Answers` has the include or the
snippet in place from Prepare to Cleanup, and `Jobs` and `Types` keep the steps defined.

The assumption, `ServersAssumption`, has layouts that are configurations without
challenge or copies in them (`ByHand`), and certificates distinct from `None` and
`Foreign`; TLC evaluates it in `servers`.

Model-checked only:

* the two liveness properties, `EveryStartDecided` and `DueIsAttempted`: liveness under
  fairness and ENABLED are outside the prover's reach;
* `InstalledIsServed` and `OthersKeepTheirs` for nginx, over the layouts of two domains in the
  run.  With three domains there are layouts in which a block that a certificate goes to
  because of one name takes a name that was not asked for from the block that answered for it,
  so `OthersKeepTheirs` is not true of every layout.  `InstalledIsServed` says nothing of a name
  that two blocks have in forms that nginx takes for one and the plugin does not
  (`NamedAlike`); the run has such layouts.

What recursive operators compute for every input is out of reach too; no module has one.

## What is abstracted

* File contents are numbers: a text, an issuance, a log.  Permissions and owners
  are left out; `writeFile`'s temporary file and rename are one step, and what a
  reader sees is the old or the new file.
* `Save` takes its copies in one step (nobody reads them before the line that
  names them is there), and a line is appended in one.  Its choice of what to copy is made in
  the same step: FILEPATHS is changed by nobody else but a signal's removal.
* In `Checkpoint` a file that a rewriting has cut short is as good as empty; it does
  not parse.  What a failed reload leaves is taken back by the next startup only.
  Writes themselves do not fail; one that did would end the operation as a failed reload does,
  with some of the files written, as a kill leaves them.
* In `RenewLoop` the lineage and the server are reduced to success or failure of
  the order; `Lineage` and `Checkpoint` have the inside of it.
* In `RenewTiming` what comes between the hint and the order (sleep, hooks, account) is one step
  that may fail, with any number of ticks before it.
* In `Issue` the key is one of two that alternate, IP addresses, CSRs and deleting
  several names at once are left out, and so is `renew` with domains on the command line.
* In `Accounts` symlinkToAccountsDir, which FindAll tries when migrateAccountsDir has failed, is no
  step of its own: what kept the one from linking keeps the other.
* In `Servers` a regular expression is a name that matches everything below a domain, the order
  of the files is the order of the blocks, and the file of TLS options, modules and the
  links in `sites-enabled` are left out.  A kill there is between two writes of the whole
  configuration; what it leaves of one file is in `Checkpoint`.

## Disagreements seen while modelling

With a run: the two marked above; `PROJECT.json` quotes the sentences they refute.
Seen on reading the code, or with a variant of a model, without a run now:

* One directory named twice (`--config-dir` and `--work-dir` the same) is locked twice
  by one process; its Release unlinks the name twice, and the second time it may
  be another process's lock file (`processlock/processlock.go:95-101`).
* A delete killed after the conf is gone cannot be repeated: deleteOne looks for
  the conf first (`verbs/delete.go:47-48`).
* A killed Write without a key loses the group bit of the mode that later keys
  inherit (`storage/lineage.go:192-194`, `:397`).
* `--reuse-key` reads the live link only and makes a new key if that dangles, though
  the archive has the old one (`client/client.go:336-342`).
* RestoreInFlight's and Restore's RemoveAll may be cut short, or fail with the
  error dropped (`checkpoint/checkpoint.go:331`, `:308`).  A checkpoint that lost a copy and kept
  FILEPATHS then stops every later recovery, and new snapshots go into the same directory
  (the excuse `cut` of `CrashSafe`).
* Apache's Cleanup rewrites its root configuration, and both plugins' files of earlier lineages,
  by a truncating os.WriteFile without a checkpoint: a kill in between leaves the file
  cut short for good (`plugins/apache/configurator.go:102-107`, `:1107`; nginx's,
  `plugins/nginx/configurator.go:1299`, is covered by the checkpoint it leaves open).
* A signalled verb that returns no error exits with 0 (`cmd/main.go:260`), and the
  process a signal finds hung is not ended: the re-raised signal goes to the
  channel NotifyContext still listens on (`cmd/main.go:235`; `src/CHANGES.md:153-154`).
* Two invocations that rotate at once may push out a log that is not the oldest, and the running
  one's sooner than `max_log_backups` invocations would (`cmd/main.go:161`).
* `max_log_backups = 0` truncates the running invocation's log, before the lock is
  asked for (`cmd/main.go:161` and `:164-165`).
* A conf's `post_hook` is restored and never run (only the command line's is), and
  after a signal the post-hooks are not started (`verbs/renew.go:71-76`; "regardless
  of outcome", `:41-42`).
* Directory pre-hooks run for every lineage (`verbs/renew.go:254-257`; "exactly once",
  `hooks/hooks.go:269-270`).  A pre-hook that fails stops its own lineage and counts as
  run for the next, which is renewed without it.
* Any issuance sets `autorenew = True` (`client/renewalconf.go:65`), so a forced renewal
  switches it on for good, and one with --no-autorenew --force-renewal too.
* `certonly` and `run` return before post-hooks are deferred when a directory
  pre-hook fails after --pre-hook has run (`verbs/certonly.go:122-134`, `run.go:48-62`; "regardless
  of outcome", `hooks/hooks.go:5`).  `PostHookRuns` claims no more than the code does.
* A renewal that is killed or fails after the CA could not be asked and before its order has
  set the cooldown all the same: the next runs wait for it (`verbs/ari.go:66-76`).
* A process killed between the order and the deploy hooks never runs them: the
  lineage is not due any more.

Checkpoints, with a variant of `Checkpoint`:

* A run of the nginx authenticator that succeeds leaves its checkpoint open, since Cleanup
  does not end it; the next startup restores from it, over what the user has
  edited since (`plugins/nginx/configurator.go:114`).
* Two checkpoints of one file, rolled back together, restore only the newer
  (`checkpoint/checkpoint.go:287`).
* After a Write that was killed before its key, EnsureDeployed links a version that
  has none, and the server that was served is not (`storage/lineage.go:249`).
* A signal while an installer saves or writes, or a Cleanup rewrites, removes the checkpoint that
  the later writes need (`cmd/main.go:224`; the excuse `raced` of `CrashSafe`).

Issuing and renewal:

* Names that overlap those of the lineage without covering or being covered get a
  lineage of their own each time; `--expand` may shrink a lineage (`verbs/certonly.go:322`).
* `run --reuse-key --key-type` records a type that the reused key does not have.
* The search for overlapping archives fails open, and delete has none (`verbs/revoke.go:192`).
* Deploy hooks run in a dry run.
* A comment has "0 days ... mean always renew" for renew_before_expiry; the code never renews
  for it before the end (parseRenewBefore).  A cached hint survives a reissue.

Accounts:

* Unregistering an account that was linked by itself removes the link, and the
  predecessor still has it.
* A process killed between deactivation and removal leaves an account that is found, and
  refused by the CA, for ever.
* What is left of a directory that was torn keeps the predecessor's accounts out, so
  that a second account is registered.

nginx plugin:

* `install --redirect` never redirects the block that it has just made HTTPS.
* FindHTTPVHosts looks at top-level `server` blocks of nginx.conf only, so `enhance --redirect`
  changes nothing for one inside `http{}` and reports success.
* A challenge rewrite the user has made himself is removed at Cleanup.
* Two blocks without a listen for HTTP, installed one after the other, both get
  `[::]:443 ipv6only=on`, which nginx refuses (`plugins/nginx/configurator.go:1000`).
* When a Prepare has failed and a later lineage's succeeds, `addedInclude` is overwritten and the
  include outlives the file, until the next run restores.
* A redirect put on a block for one of its names loops once the block is made HTTPS for
  the other.
* A stapling chain keeps the path of the lineage that was installed first.
* The challenge block takes over all HTTP of its domain while it is there.
* Of a leading-dot name and an exact one in two blocks the plugin secures the exact one; nginx
  takes them for one name and listens to the first (`plugins/nginx/configurator.go:582-594`).

apache plugin:

* A copy of a host takes a RewriteRule along, and loops.
* The redirect is for all names of the host, though the comment says for those of the certificate.
* Two `:80` hosts of one file: the second copy overwrites the first, or the other
  host's copy gets the new certificate.
* The second installation replaces a user's own Include in the copy.
* Of the domains of one certificate, those with a `:80` host only are not given a copy when
  another has a `:443` host; every `:443` host that names one is changed.
* A challenge for a domain that no host names may reach a host without the alias.
* a2enmod and the links it makes are in no checkpoint.

Both: an installation that fails leaves its configuration on disk until the next run.

## Not modelled

* Challenge plugins (webroot, standalone, manual): files they remove themselves, a
  listener of lego's, a command of the user's; nothing survives the run.
* DNS plugins: credentials in, a lego provider out.
* Listing, prompts, subscription: printing, and one HTTP request.
* The tables of flags, ini files and help: configuration without state of its own.
  The flags that decide what happens to a lineage are in `Issue`.
* The format of confs (sections, comments, lists), of keys and of accounts; the lexers and
  parsers of the two servers: round trips of text, better served by tests.
* The files of TLS options and their digests; file modes and owners.
* The ACME protocol, which is lego's: an order succeeds, fails, or its answer is lost.
* The cleanup stack of `errorhandler`: nothing registers anything with it.

## Plan

Done: locks, renewal loop and timing, lineage, issuing verbs, accounts, checkpoints, the
log and the server plugins, with proofs.

1. A proof of `InstalledIsServed` for nginx, and what `OthersKeepTheirs` is for more than two
   domains.
2. The challenge plugins and the exit path of the entry point, if they come to keep state.
3. The conf format as a function over sections, with its round trip.
