------------------------------ MODULE Accounts ------------------------------
(***************************************************************************)
(* ACME accounts: the directories accounts/<server>/<id>/                  *)
(* (account/storage.go), the account at the CA, and the verbs that make,   *)
(* use, change and remove one (verbs/accounts.go, loadOrCreateAccount and  *)
(* EnsureRegistered for certonly, run, renew and revoke).  Two servers:    *)
(* the current one and the predecessor whose accounts it takes over        *)
(* (reuseServers).  An account exists in two places that are changed one   *)
(* after the other, and the process may die in between.                    *)
(*                                                                         *)
(* One action is one request to the CA or one file-system call that can be *)
(* told apart; the three files of a directory are written in an order in   *)
(* which the directory cannot be loaded before the last.                   *)
(***************************************************************************)
EXTENDS Naturals, FiniteSets

CONSTANTS
  Id,      \* account ids, in the order of their names; an id is its key's hash
  Adopted, \* accounts of the predecessor, from the time of Certbot
  None     \* no --account

ASSUME AccountsAssumption ==
  /\ Id \subseteq Nat /\ Adopted \subseteq Id /\ None \notin Id

Cur == "v02"
Prev == "v01"

VARIABLES
  root,     \* accounts/<Cur>: "none", "dir", or a "link" to accounts/<Prev>
  entry,    \* entry[s][i]: what is at accounts/<s>/<i>: "none", "torn" (some of
            \* its files), "full", or a "link" to accounts/<Prev>/<i>
  ca,       \* ca[i]: "none", "valid", "deactivated"
  pc,       \* where the verb is
  verb,     \* the verb
  acct,     \* the account it has chosen
  saved,    \* history: accounts whose directory has been complete
  torn,     \* history: accounts a verb left halfway between CA and disk
  linked    \* history: accounts the current server has linked one by one

storage == <<root, entry>>
history == <<saved, torn, linked>>
vars == <<storage, ca, pc, verb, acct, history>>

Init ==
  /\ root \in {"none", "dir"}
  /\ entry = [s \in {Cur, Prev} |->
                [i \in Id |-> IF s = Prev /\ i \in Adopted THEN "full" ELSE "none"]]
  /\ ca = [i \in Id |-> IF i \in Adopted THEN "valid" ELSE "none"]
  /\ pc = "idle" /\ verb = "none" /\ acct = None
  /\ saved = Adopted /\ torn = {} /\ linked = {}

-----------------------------------------------------------------------------
(* What the file system shows under a server's directory.                  *)

\* The server whose directory accounts/<s>/ really is.
Real(s) == IF s = Cur /\ root = "link" THEN Prev ELSE s

At(s, i) == IF s = Cur /\ root = "none" THEN "none" ELSE entry[Real(s)][i]

\* loadFrom: all three files can be read.
Loads(s, i) ==
  \/ At(s, i) = "full"
  \/ At(s, i) = "link" /\ entry[Prev][i] = "full"

\* findAllUnder
AllUnder(s) == {i \in Id : Loads(s, i)}

Entries(s) == {i \in Id : At(s, i) # "none"}

Put(s, i, what) == entry' = [entry EXCEPT ![Real(s)][i] = what]

\* os.MkdirAll(AccountsDir)
MakeRoot == root' = IF root = "none" THEN "dir" ELSE root

-----------------------------------------------------------------------------
Goto(label) == pc' = label

\* The verb returns.
End ==
  /\ Goto("idle")
  /\ verb' = "none" /\ acct' = None

\* Slip: the account that is found is not handed on.
ChosenLost(i) ==
  /\ UNCHANGED acct
  /\ Goto("chosen")

\* The account i is chosen; it has its Location.
Chosen(i) ==
  /\ acct' = i
  /\ Goto("chosen")

Begin(v) ==
  /\ pc = "idle"
  /\ verb' = v
  /\ Goto("find")
  /\ UNCHANGED <<storage, ca, acct, history>>

-----------------------------------------------------------------------------
(* Load(id), for --account.                                                *)

LoadPinned(i) ==
  /\ pc = "find" /\ verb # "register"
  /\ Loads(Cur, i)
  /\ Chosen(i)
  /\ UNCHANGED <<storage, ca, verb, history>>

\* The predecessor has it: it is linked, if nothing is in the way.
LoadPinnedFromPrev(i) ==
  /\ pc = "find" /\ verb # "register"
  /\ ~Loads(Cur, i) /\ Loads(Prev, i)
  /\ MakeRoot
  /\ IF At(Cur, i) = "none"
       THEN entry' = [entry EXCEPT ![Cur][i] = "link"] /\ linked' = linked \cup {i}
       ELSE UNCHANGED <<entry, linked>>
  /\ Chosen(i)
  /\ UNCHANGED <<ca, verb, saved, torn>>

LoadPinnedFails(i) ==
  /\ pc = "find" /\ verb # "register"
  /\ ~Loads(Cur, i) /\ ~Loads(Prev, i)
  /\ End
  /\ UNCHANGED <<storage, ca, history>>

-----------------------------------------------------------------------------
(* FindAll, and what each verb makes of it.                                *)

\* register refuses; loadAccountOrFail takes the only one; loadOrCreateAccount
\* takes the first.
UseFound(found) ==
  IF verb = "register" \/ (verb \in {"update", "unregister"} /\ Cardinality(found) > 1)
  THEN End
  ELSE /\ \E i \in found : (\A j \in found : i <= j) /\ Chosen(i)
       /\ UNCHANGED verb

Find ==
  /\ pc = "find"
  /\ AllUnder(Cur) # {}
  /\ UseFound(AllUnder(Cur))
  /\ UNCHANGED <<storage, ca, history>>

\* There is none, but the predecessor has some: its directory is to take the
\* place of the current one.  An empty current directory is removed first.
MigrateRemove ==
  /\ pc = "find"
  /\ AllUnder(Cur) = {} /\ AllUnder(Prev) # {}
  /\ root = "dir" /\ Entries(Cur) = {}
  /\ root' = "none"
  /\ UNCHANGED <<entry, ca, pc, verb, acct, history>>

MigrateLink ==
  /\ pc = "find"
  /\ AllUnder(Cur) = {} /\ AllUnder(Prev) # {}
  /\ root = "none"
  /\ root' = "link"
  /\ UseFound(AllUnder(Prev))
  /\ UNCHANGED <<entry, ca, history>>

\* Nothing is found: also when what is left of an account keeps the predecessor's
\* directory out.
NoneFound ==
  /\ AllUnder(Cur) = {}
  /\ AllUnder(Prev) # {} => root = "dir" /\ Entries(Cur) # {}

\* loadOrCreateAccount, Register: a new key.
Create(i) ==
  /\ pc = "find"
  /\ NoneFound
  /\ verb \in {"register", "order"}
  /\ ca[i] = "none"
  /\ acct' = i
  /\ Goto("register")
  /\ UNCHANGED <<storage, ca, verb, history>>

\* No account and none can be made: loadAccountOrFail, revoke, a missing --email.
CreateRefused ==
  /\ pc = "find"
  /\ NoneFound
  /\ End
  /\ UNCHANGED <<storage, ca, history>>

-----------------------------------------------------------------------------
(* EnsureRegistered and Save.                                              *)

\* Slip: Save is not reached.
RegisterUnsaved ==
  /\ pc = "register"
  /\ ca' = [ca EXCEPT ![acct] = "valid"]
  /\ End
  /\ UNCHANGED <<storage, history>>

Register ==
  /\ pc = "register"
  /\ ca' = [ca EXCEPT ![acct] = "valid"]
  /\ Goto("save")
  /\ UNCHANGED <<storage, verb, acct, history>>

\* The CA registers the account, and its answer is lost.
RegisterUnanswered ==
  /\ pc = "register"
  /\ ca' = [ca EXCEPT ![acct] = "valid"]
  /\ torn' = torn \cup {acct}
  /\ End
  /\ UNCHANGED <<storage, saved, linked>>

\* The CA, or the user's answer to its terms of service, refuses.
RegisterFails ==
  /\ pc = "register"
  /\ End
  /\ UNCHANGED <<storage, ca, history>>

\* The directory is made, and its files are written but for the last.
SaveBegin ==
  /\ pc = "save"
  /\ MakeRoot
  /\ Put(Cur, acct, "torn")
  /\ Goto("saving")
  /\ UNCHANGED <<ca, verb, acct, history>>

SaveDone ==
  /\ pc = "saving"
  /\ Put(Cur, acct, "full")
  /\ saved' = saved \cup {acct}
  /\ IF verb = "register" THEN End ELSE Goto("chosen") /\ UNCHANGED <<verb, acct>>
  /\ UNCHANGED <<root, ca, torn, linked>>

SaveFails ==
  /\ pc \in {"save", "saving"}
  /\ torn' = torn \cup {acct}
  /\ End
  /\ UNCHANGED <<storage, ca, saved, linked>>

-----------------------------------------------------------------------------
(* With an account chosen.                                                 *)

\* certonly, run, renew, revoke and show_account leave it as it is; update_account
\* changes the contact at the CA and rewrites regr.json by a rename.
Use ==
  /\ pc = "chosen"
  /\ verb \in {"order", "revoke", "update"}
  /\ End
  /\ UNCHANGED <<storage, ca, history>>

\* Slip: the directory goes before the CA is asked.
DeactivateLast ==
  /\ pc = "chosen" /\ verb = "unregister"
  /\ Put(Cur, acct, "none")
  /\ Goto("rmdir")
  /\ UNCHANGED <<root, ca, verb, acct, history>>

\* unregister: the CA accepts the request of an account that is still valid.
Deactivate ==
  /\ pc = "chosen" /\ verb = "unregister"
  /\ ca[acct] = "valid"
  /\ ca' = [ca EXCEPT ![acct] = "deactivated"]
  /\ Goto("remove")
  /\ UNCHANGED <<storage, verb, acct, history>>

\* It does, and its answer is lost.
DeactivateUnanswered ==
  /\ pc = "chosen" /\ verb = "unregister"
  /\ ca[acct] = "valid"
  /\ ca' = [ca EXCEPT ![acct] = "deactivated"]
  /\ torn' = torn \cup {acct}
  /\ End
  /\ UNCHANGED <<storage, saved, linked>>

\* It refuses one that is not, or cannot be reached, or the user says no.
DeactivateFails ==
  /\ pc = "chosen" /\ verb = "unregister"
  /\ End
  /\ UNCHANGED <<storage, ca, history>>

\* Slip: only the root is removed.
RemoveAccountNot ==
  /\ pc = "remove"
  /\ Goto("rmdir")
  /\ UNCHANGED <<storage, ca, verb, acct, history>>

\* RemoveAll of a link removes the link.
RemoveAccount ==
  /\ pc = "remove"
  /\ Put(Cur, acct, "none")
  /\ Goto("rmdir")
  /\ UNCHANGED <<root, ca, verb, acct, history>>

\* os.Remove(AccountsDir): an empty directory, or the link to the predecessor's.
RemoveRoot ==
  /\ pc = "rmdir"
  /\ root' = IF root = "link" \/ Entries(Cur) = {} THEN "none" ELSE root
  /\ End
  /\ UNCHANGED <<entry, ca, history>>

\* The process dies, in a RemoveAll perhaps with some of the files gone.
Kill ==
  /\ pc # "idle"
  /\ torn' = IF pc \in {"save", "saving", "remove"} THEN torn \cup {acct} ELSE torn
  /\ \/ UNCHANGED entry
     \/ pc = "remove" /\ At(Cur, acct) = "full" /\ Put(Cur, acct, "torn")
  /\ End
  /\ UNCHANGED <<root, ca, saved, linked>>

Next ==
  \/ \E v \in {"register", "order", "revoke", "update", "unregister"} : Begin(v)
  \/ \E i \in Id : LoadPinned(i) \/ LoadPinnedFromPrev(i) \/ LoadPinnedFails(i)
  \/ Find \/ MigrateRemove \/ MigrateLink \/ CreateRefused \/ \E i \in Id : Create(i)
  \/ Register \/ RegisterUnanswered \/ RegisterFails \/ SaveBegin \/ SaveDone \/ SaveFails
  \/ Use \/ Deactivate \/ DeactivateUnanswered \/ DeactivateFails \/ RemoveAccount \/ RemoveRoot
  \/ Kill

Spec == Init /\ [][Next]_vars
-----------------------------------------------------------------------------
(* Properties.                                                             *)

TypeOK ==
  /\ root \in {"none", "dir", "link"}
  /\ entry \in [{Cur, Prev} -> [Id -> {"none", "torn", "full", "link"}]]
  /\ ca \in [Id -> {"none", "valid", "deactivated"}]
  /\ pc \in {"idle", "find", "chosen", "register", "save", "saving", "remove", "rmdir"}
  /\ verb \in {"none", "register", "order", "revoke", "update", "unregister"}
  /\ IF pc \in {"idle", "find"} THEN acct = None ELSE acct \in Id
  /\ saved \subseteq Id /\ torn \subseteq Id /\ linked \subseteq Id

\* Every account that is valid at the CA and was once complete on disk can still
\* be loaded by its id: whatever is migrated, linked or removed in whatever order,
\* a key goes only after the CA has closed its account (FindAll, Load, Unregister).
KeyKept ==
  \A i \in saved : ca[i] = "valid" => Loads(Cur, i) \/ Loads(Prev, i)

\* An account at the CA whose key was never complete on disk is what a kill, a lost
\* answer or a failing Save leaves, and nothing else (EnsureRegistered registers
\* before it saves).
OrphansExplained ==
  \A i \in Id \ saved :
    ca[i] = "valid" => i \in torn \/ (acct = i /\ pc \in {"save", "saving"})

\* An account the CA has closed is chosen again only if its removal was cut short,
\* or if it is the predecessor's and only its link was removed (Unregister "removes
\* the on-disk account directory", accounts.go:164).
ClosedStaysClosed ==
  pc = "chosen" /\ ca[acct] = "deactivated" => acct \in torn \cup linked
=============================================================================
