------------------------------ MODULE Lineage ------------------------------
(***************************************************************************)
(* One certificate lineage on disk and everything that changes it:         *)
(* storage.Write, storage.EnsureDeployed and recoverPreviousLinks          *)
(* (internal/storage/lineage.go), the key choice and the order of writes   *)
(* of client.Obtain (internal/client), and deleteOne (verbs/delete.go).    *)
(*                                                                         *)
(* archive/<name>/ holds cert<N>.pem, chain<N>.pem, fullchain<N>.pem and   *)
(* privkey<N>.pem; live/<name>/ holds a symlink per kind.  One action is   *)
(* one file-system operation that another process, or the next run, can    *)
(* see: the renames of writeFile and replaceSymlink are atomic, the        *)
(* remove-then-symlink of recoverPreviousLinks is not.  The process may    *)
(* stop between any two of them (a crash, or an I/O error it returns).     *)
(* ProcessLock lets one process in at a time, so there is one.             *)
(***************************************************************************)
EXTENDS Naturals, Sequences, FiniteSets

CONSTANTS
  MaxVersion,  \* bound: version numbers (and issuances) go up to it
  MaxMishaps,  \* bound: files the user deletes
  ReuseKey,    \* the runs have --reuse-key (and not --new-key)
  None         \* no file, no link

ASSUME LineageAssumption ==
  /\ MaxVersion \in Nat
  /\ MaxMishaps \in Nat
  /\ ReuseKey \in BOOLEAN
  /\ None \notin Nat

\* A key file that was created and not yet written: it holds no key.
Torn == 0

Kind == {"cert", "privkey", "chain", "fullchain"}
Ver == 1..MaxVersion

VARIABLES
  archive,    \* archive[k][v]: what <k><v>.pem holds, or None.  A certificate
              \* or chain is the number of its issuance, a key is the number
              \* of the issuance it was generated for
  keyOf,      \* keyOf[s]: the key issuance s certifies, or None
  live,       \* live[k]: the version live/<name>/<k>.pem links to, or None
  previous,   \* previous[k]: the version Certbot's previous_<k>.pem links to
  liveDir,    \* live/<name>/ exists
  conf,       \* renewal/<name>.conf exists
  pc, step,   \* the operation under way and the position in its loop
  ver,        \* the version Write creates or EnsureDeployed deploys
  mishaps     \* how often the user meddled (bounded by MaxMishaps)

vars == <<archive, keyOf, live, previous, liveDir, conf, pc, step,
          ver, mishaps>>
disk == <<archive, keyOf, live, previous, liveDir, conf>>

Init ==
  /\ archive = [k \in Kind |-> [v \in Ver |-> None]]
  /\ keyOf = [s \in Ver |-> None]
  /\ live = [k \in Kind |-> None]
  /\ previous = [k \in Kind |-> None]
  /\ liveDir = FALSE
  /\ conf = FALSE
  /\ pc = "idle" /\ step = 1 /\ ver = None /\ mishaps = 0

-----------------------------------------------------------------------------
(* Reading the lineage.                                                    *)

Present(v) == \E k \in Kind : archive[k][v] # None

\* Slip: only the certificates are looked at.
NextVersionOfCert(n) ==
  /\ \A v \in Ver : archive["cert"][v] # None => v < n
  /\ n > 1 => archive["cert"][n - 1] # None

\* n is one more than the highest version of any kind.
NextVersion(n) ==
  /\ \A v \in Ver : Present(v) => v < n
  /\ n > 1 => Present(n - 1)

\* Slip: likewise.
HighestCert(v) ==
  archive["cert"][v] # None /\ \A w \in Ver : archive["cert"][w] # None => w <= v

\* v is the highest version of any kind.
Highest(v) == Present(v) /\ \A w \in Ver : Present(w) => w <= v

\* What live/<name>/<k>.pem reads as: None if it is missing or dangles.
ReadLive(k) == IF live[k] = None THEN None ELSE archive[k][live[k]]

\* loadPriorPrivkey: the deployed key; an unreadable one is no error.
PriorPrivkey == ReadLive("privkey")

\* The key of issuance s: the prior one with --reuse-key, otherwise a new one.
KeyFor(s) == IF ReuseKey /\ PriorPrivkey \notin {None, Torn} THEN PriorPrivkey ELSE s

\* An archived file goes.
Unlink(k, v) == archive' = [archive EXCEPT ![k][v] = None]

-----------------------------------------------------------------------------
(* client.Obtain and storage.Write.                                        *)

WriteOrder == <<"cert", "chain", "fullchain", "privkey">>
LinkOrder == <<"cert", "privkey", "chain", "fullchain">>

Goto(label) == pc' = label /\ step' = 1

\* The operation is over: what it kept in memory is gone.
End == Goto("idle") /\ ver' = None

\* The order is finalized: the certificate exists, Write picks its version and
\* makes the directories.  Issuances are numbered by the version they are
\* written as.
BeginWrite(n) ==
  /\ NextVersion(n)
  /\ ver' = n
  /\ keyOf' = [keyOf EXCEPT ![n] = KeyFor(n)]
  /\ liveDir' = TRUE
  /\ Goto("write")
  /\ UNCHANGED <<archive, live, previous, conf, mishaps>>

\* certonly and run: issue, whatever the state of the lineage.
Issue == pc = "idle" /\ \E n \in Ver : BeginWrite(n)

\* Write lays down one file.  The key is created with O_EXCL, and empty at first.
WriteFile ==
  /\ pc = "write"
  /\ LET k == WriteOrder[step] IN
       IF k = "privkey"
         THEN /\ archive[k][ver] = None
              /\ archive' = [archive EXCEPT ![k][ver] = Torn]
         ELSE archive' = [archive EXCEPT ![k][ver] = ver]
  /\ IF step < Len(WriteOrder) THEN step' = step + 1 /\ pc' = pc ELSE Goto("fill")
  /\ UNCHANGED <<keyOf, live, previous, liveDir, conf, ver, mishaps>>

\* Slip: the error of the write is dropped.
FillSkipped ==
  /\ pc = "fill"
  /\ Goto("link")
  /\ UNCHANGED <<disk, ver, mishaps>>

FillPrivkey ==
  /\ pc = "fill"
  /\ archive' = [archive EXCEPT !["privkey"][ver] = keyOf[ver]]
  /\ Goto("link")
  /\ UNCHANGED <<keyOf, live, previous, liveDir, conf, ver, mishaps>>

\* writeFileExclusive: when the write fails the empty file is removed.
FillFails ==
  /\ pc = "fill"
  /\ Unlink("privkey", ver)
  /\ End
  /\ UNCHANGED <<keyOf, live, previous, liveDir, conf, mishaps>>

\* Write moves one link (replaceSymlink).
LinkFile ==
  /\ pc = "link"
  /\ live' = [live EXCEPT ![LinkOrder[step]] = ver]
  /\ IF step < Len(LinkOrder) THEN step' = step + 1 /\ pc' = pc ELSE Goto("conf")
  /\ UNCHANGED <<archive, keyOf, previous, liveDir, conf, ver, mishaps>>

\* writeRenewalConf: a temporary file renamed over the conf.
WriteConf ==
  /\ pc = "conf"
  /\ conf' = TRUE
  /\ End
  /\ UNCHANGED <<archive, keyOf, live, previous, liveDir, mishaps>>

-----------------------------------------------------------------------------
(* renewOne: EnsureDeployed, then the decision to renew.                   *)

\* A renewal starts from a conf; a missing archive directory is no error.
BeginRenew ==
  /\ pc = "idle"
  /\ conf
  /\ Goto("recover")
  /\ UNCHANGED <<disk, ver, mishaps>>

NextKind(label, after) ==
  IF step < Len(LinkOrder) THEN step' = step + 1 /\ pc' = label ELSE Goto(after)

\* recoverPreviousLinks, for one kind: without a sentinel there is nothing to do.
RecoverSkip ==
  /\ pc = "recover"
  /\ previous[LinkOrder[step]] = None
  /\ NextKind("recover", "highest")
  /\ UNCHANGED <<disk, ver, mishaps>>

\* Slip: the sentinel goes with the link it restores.
RecoverRemoveBoth ==
  /\ pc = "recover"
  /\ previous[LinkOrder[step]] # None
  /\ live' = [live EXCEPT ![LinkOrder[step]] = None]
  /\ previous' = [previous EXCEPT ![LinkOrder[step]] = None]
  /\ pc' = "recoverLink"
  /\ UNCHANGED <<archive, keyOf, liveDir, conf, step, ver, mishaps>>

\* With one, the live link is removed,
RecoverRemove ==
  /\ pc = "recover"
  /\ previous[LinkOrder[step]] # None
  /\ live' = [live EXCEPT ![LinkOrder[step]] = None]
  /\ pc' = "recoverLink"
  /\ UNCHANGED <<archive, keyOf, previous, liveDir, conf, step, ver, mishaps>>

\* made again with the sentinel's target,
RecoverLink ==
  /\ pc = "recoverLink"
  /\ live' = [live EXCEPT ![LinkOrder[step]] = previous[LinkOrder[step]]]
  /\ pc' = "recoverDone"
  /\ UNCHANGED <<archive, keyOf, previous, liveDir, conf, step, ver, mishaps>>

\* Slip: the sentinel stays.
RecoverDoneKeeps ==
  /\ pc = "recoverDone"
  /\ NextKind("recover", "highest")
  /\ UNCHANGED <<disk, ver, mishaps>>

\* and the sentinel removed.
RecoverDone ==
  /\ pc = "recoverDone"
  /\ previous' = [previous EXCEPT ![LinkOrder[step]] = None]
  /\ NextKind("recover", "highest")
  /\ UNCHANGED <<archive, keyOf, live, liveDir, conf, ver, mishaps>>

\* The version to deploy: the highest of any kind.  An empty archive ends it.
PickHighest ==
  /\ pc = "highest"
  /\ \/ \E v \in Ver : Highest(v) /\ ver' = v /\ Goto("relink")
     \/ (\A v \in Ver : ~Present(v)) /\ ver' = None /\ Goto("decide")
  /\ UNCHANGED <<disk, mishaps>>

\* EnsureDeployed moves one link, unless it is already right.
Relink ==
  /\ pc = "relink"
  /\ live' = [live EXCEPT ![LinkOrder[step]] = ver]
  /\ NextKind("relink", "decide")
  /\ UNCHANGED <<archive, keyOf, previous, liveDir, conf, ver, mishaps>>

\* An I/O error of EnsureDeployed is a warning: renewOne goes on regardless.
DeployFails ==
  /\ pc \in {"recover", "recoverLink", "recoverDone", "highest", "relink"}
  /\ Goto("decideAnyway")
  /\ UNCHANGED <<disk, ver, mishaps>>

\* needsRenewal reads the live certificate.  Unreadable: a parse error, nothing
\* is renewed.  Readable: it may or may not be due.
DecideSkip ==
  /\ pc \in {"decide", "decideAnyway"}
  /\ End
  /\ UNCHANGED <<disk, mishaps>>

DecideRenew ==
  /\ pc \in {"decide", "decideAnyway"}
  /\ ReadLive("cert") # None
  /\ \E n \in Ver : BeginWrite(n)

-----------------------------------------------------------------------------
(* deleteOne.                                                              *)

\* The sanity check: neither a conf nor a live directory.
NothingToDelete == ~conf /\ ~liveDir

BeginDelete ==
  /\ pc = "idle"
  /\ ~NothingToDelete
  /\ conf' = FALSE
  /\ Goto("deleteLive")
  /\ UNCHANGED <<archive, keyOf, live, previous, liveDir, ver, mishaps>>

\* RemoveAll(live/<name>) unlinks one entry after the other, in any order,
\* and the directory last.
DeleteLive ==
  /\ pc = "deleteLive"
  /\ \/ \E k \in Kind : /\ live[k] # None \/ previous[k] # None
                        /\ \/ live' = [live EXCEPT ![k] = None] /\ previous' = previous
                           \/ previous' = [previous EXCEPT ![k] = None] /\ live' = live
                        /\ UNCHANGED <<liveDir, pc, step>>
     \/ /\ \A k \in Kind : live[k] = None /\ previous[k] = None
        /\ liveDir' = FALSE
        /\ Goto("deleteArchive")
        /\ UNCHANGED <<live, previous>>
  /\ UNCHANGED <<archive, keyOf, conf, ver, mishaps>>

\* RemoveAll(archive/<name>).
DeleteArchive ==
  /\ pc = "deleteArchive"
  /\ \/ \E k \in Kind, v \in Ver : /\ archive[k][v] # None
                                   /\ Unlink(k, v)
                                   /\ UNCHANGED <<pc, step, ver>>
     \/ /\ \A v \in Ver : ~Present(v)
        /\ UNCHANGED archive
        /\ End
  /\ UNCHANGED <<keyOf, live, previous, liveDir, conf, mishaps>>

-----------------------------------------------------------------------------
(* What happens to the process and to the files from outside.              *)

\* A crash, or an I/O error the operation returns with: it stops where it is.
Stop ==
  /\ pc # "idle"
  /\ End
  /\ UNCHANGED <<disk, mishaps>>

\* The user removes one archived file (the case NextVersion's comment names).
UserDeletes ==
  /\ pc = "idle"
  /\ mishaps < MaxMishaps
  /\ mishaps' = mishaps + 1
  /\ \E k \in Kind, v \in Ver : /\ archive[k][v] # None
                                /\ Unlink(k, v)
  /\ UNCHANGED <<keyOf, live, previous, liveDir, conf, pc, step, ver>>

\* Certbot renews the lineage and is killed while it moves the links: the new
\* version is complete, sentinels exist for S, and it was still making them
\* (no link has moved), or moving links, or removing sentinels (all have moved).
CertbotInterrupted ==
  /\ pc = "idle"
  /\ conf
  /\ \A k \in Kind : live[k] # None /\ previous[k] = None
  /\ \E n \in Ver, S \in SUBSET Kind :
       /\ NextVersion(n)
       /\ keyOf' = [keyOf EXCEPT ![n] = n]
       /\ archive' = [k \in Kind |-> [archive[k] EXCEPT ![n] = n]]
       /\ previous' = [k \in Kind |-> IF k \in S THEN live[k] ELSE None]
       /\ \/ live' = live
          \/ S = Kind /\ \E M, R \in SUBSET Kind :
               live' = [k \in Kind |-> IF k \in R THEN None ELSE
                                       IF k \in M THEN n ELSE live[k]]
          \/ live' = [k \in Kind |-> n]
  /\ UNCHANGED <<liveDir, conf, pc, step, ver, mishaps>>

-----------------------------------------------------------------------------
Next ==
  \/ Issue \/ WriteFile \/ FillPrivkey \/ FillFails \/ LinkFile \/ WriteConf
  \/ BeginRenew \/ RecoverSkip \/ RecoverRemove \/ RecoverLink \/ RecoverDone
  \/ PickHighest \/ Relink \/ DeployFails \/ DecideSkip \/ DecideRenew
  \/ BeginDelete \/ DeleteLive \/ DeleteArchive
  \/ Stop \/ UserDeletes \/ CertbotInterrupted

Spec == Init /\ [][Next]_vars
-----------------------------------------------------------------------------
(* Properties.                                                             *)

Labels == {"idle", "write", "fill", "link", "conf", "recover", "recoverLink",
           "recoverDone", "highest", "relink", "decide", "decideAnyway",
           "deleteLive", "deleteArchive"}

TypeOK ==
  /\ archive \in [Kind -> [Ver -> Ver \cup {Torn, None}]]
  /\ keyOf \in [Ver -> Ver \cup {None}]
  /\ live \in [Kind -> Ver \cup {None}]
  /\ previous \in [Kind -> Ver \cup {None}]
  /\ liveDir \in BOOLEAN /\ conf \in BOOLEAN
  /\ pc \in Labels /\ step \in 1..4
  /\ ver \in Ver \cup {None}
  /\ mishaps \in 0..MaxMishaps

\* Every file of version v is there, and the key is the certificate's.
Complete(v) ==
  /\ \A k \in Kind : archive[k][v] # None
  /\ archive["privkey"][v] = keyOf[archive["cert"][v]]

\* A server that reads live/<name>/ gets one certificate, its chain and its key.
Serving ==
  /\ \A k \in Kind : ReadLive(k) # None
  /\ ReadLive("chain") = ReadLive("cert") /\ ReadLive("fullchain") = ReadLive("cert")
  /\ ReadLive("privkey") = keyOf[ReadLive("cert")]

\* An archived file, once written, is never written again: not after crashes,
\* not after the user deleted other files of its version (NextVersion looks at
\* all four kinds), not next to Certbot.  Only a deletion ends it.
WriteOnce ==
  [][\A k \in Kind, v \in Ver :
       archive[k][v] \notin {None, Torn} /\ archive'[k][v] # archive[k][v] =>
         archive'[k][v] = None /\ (pc = "deleteArchive" \/ mishaps' > mishaps)]_vars

\* Write moves no link before the version is complete, and when it goes on to
\* the conf a server sees the new version whole.
PublishesComplete ==
  /\ pc \in {"link", "conf"} => Complete(ver)
  /\ pc = "conf" => Serving /\ live["cert"] = ver

\* EnsureDeployed, when it succeeds, leaves no sentinel and all four links at
\* the highest version, from whatever mixture a killed Write, a killed
\* EnsureDeployed or a killed Certbot left; a server is served if that version
\* is complete.
DeployRecovers ==
  pc = "decide" /\ ver # None =>
    /\ \A k \in Kind : live[k] = ver /\ previous[k] = None
    /\ Highest(ver)
    /\ Complete(ver) => Serving

\* A live link, once made, disappears only with the lineage or while the
\* sentinel it is restored from is there, so that no crash can lose it.
LinkNeverLost ==
  [][\A k \in Kind : live[k] # None /\ live'[k] = None =>
       pc = "deleteLive" \/ previous'[k] # None]_vars

\* No step moves a live link from one version to an older one, unless nothing of
\* the newer is left.  (Recovery from a sentinel passes through a removed link.)
NeverBackwards ==
  [][\A k \in Kind : live[k] # None /\ live'[k] # None /\ live'[k] < live[k] =>
       ~Present(live[k])]_vars
=============================================================================
