-------------------------- MODULE Accounts_proofs --------------------------
(***************************************************************************)
(* What the CA and the disk say of the same account, for any ids, any      *)
(* accounts of a predecessor and any number of runs.  The properties are   *)
(* about accounts that some earlier run has left, so they need to know     *)
(* what the storage can look like (Storage), where a new account can be    *)
(* (Fresh), what a running verb has in hand (InHand), and what is left of  *)
(* an account the CA has closed (Closed).                                  *)
(***************************************************************************)
EXTENDS Accounts, TLAPS

\* The current server has entries of its own only where it has a directory; an
\* account is in one of the two places; only single links are links.
Storage ==
  /\ root # "dir" => \A i \in Id : entry[Cur][i] = "none"
  /\ \A i \in Id :
       /\ entry[Prev][i] # "link"
       /\ entry[Cur][i] \in {"torn", "full"} => entry[Prev][i] = "none"
       /\ entry[Cur][i] = "link" => i \in linked

\* An id the CA has never seen is nowhere on disk.
Fresh ==
  \A i \in Id :
    ca[i] = "none" => i \notin saved /\ entry[Cur][i] = "none" /\ entry[Prev][i] = "none"

\* What the verb has chosen, and how far a new account has come.
InHand ==
  /\ pc \in {"chosen", "remove"} => Loads(Cur, acct)
  /\ pc = "register" => ca[acct] = "none"
  /\ pc \in {"save", "saving"} => ca[acct] = "valid" /\ acct \notin saved
  /\ pc = "save" => entry[Cur][acct] = "none" /\ entry[Prev][acct] = "none"
  /\ pc = "saving" => At(Cur, acct) = "torn" /\ (root = "dir" => entry[Prev][acct] = "none")
  /\ pc = "remove" => ca[acct] = "deactivated"

\* A closed account that can still be loaded is on its way out, or explained.
Closed ==
  \A i \in Id :
    ca[i] = "deactivated" /\ (Loads(Cur, i) \/ Loads(Prev, i)) =>
      i \in torn \cup linked \/ (pc = "remove" /\ acct = i)

IInv ==
  /\ TypeOK /\ Storage /\ Fresh /\ InHand /\ Closed
  /\ KeyKept /\ OrphansExplained
USE DEF Cur, Prev

-----------------------------------------------------------------------------
(* What can be loaded, in terms of the entries.                            *)

LEMMA Reads ==
  ASSUME TypeOK, Storage, NEW i \in Id
  PROVE  /\ Loads(Prev, i) <=> entry[Prev][i] = "full"
         /\ Loads(Cur, i) <=>
              \/ root = "link" /\ entry[Prev][i] = "full"
              \/ root = "dir" /\ entry[Cur][i] = "full"
              \/ root = "dir" /\ entry[Cur][i] = "link" /\ entry[Prev][i] = "full"
  BY DEF TypeOK, Storage, Loads, At, Real

LEMMA ReadsNext ==
  ASSUME TypeOK', Storage', NEW i \in Id
  PROVE  /\ Loads(Prev, i)' <=> entry'[Prev][i] = "full"
         /\ Loads(Cur, i)' <=>
              \/ root' = "link" /\ entry'[Prev][i] = "full"
              \/ root' = "dir" /\ entry'[Cur][i] = "full"
              \/ root' = "dir" /\ entry'[Cur][i] = "link" /\ entry'[Prev][i] = "full"
  BY DEF TypeOK, Storage, Loads, At, Real

-----------------------------------------------------------------------------
LEMMA InitIInv == Init => IInv
<1> SUFFICES ASSUME Init PROVE IInv
  OBVIOUS
<1>1. TypeOK
  BY AccountsAssumption DEF Init, TypeOK
<1>2. Storage /\ Fresh
  BY AccountsAssumption DEF Init, Storage, Fresh
<1>3. InHand /\ Closed /\ OrphansExplained
  BY AccountsAssumption DEF Init, InHand, Closed, OrphansExplained
<1>4. KeyKept
  BY <1>1, <1>2, Reads, AccountsAssumption DEF Init, KeyKept
<1> QED BY <1>1, <1>2, <1>3, <1>4 DEF IInv
-----------------------------------------------------------------------------
(* The steps.                                                              *)

\* The disk, the CA and the history stay as they are.
VerbStep ==
  \/ \E v \in {"register", "order", "revoke", "update", "unregister"} : Begin(v)
  \/ \E i \in Id : LoadPinned(i) \/ LoadPinnedFails(i) \/ Create(i)
  \/ Find \/ CreateRefused \/ RegisterFails \/ Use \/ DeactivateFails

LEMMA VerbStepIInv == IInv /\ VerbStep => IInv'
<1> SUFFICES ASSUME IInv, VerbStep PROVE IInv'
  OBVIOUS
<1> USE DEF IInv
<1>1. UNCHANGED <<storage, ca, history>>
  BY DEF VerbStep, Begin, LoadPinned, LoadPinnedFails, Create, Find, CreateRefused,
         RegisterFails, Use, DeactivateFails
<1>2. pc \notin {"save", "saving", "remove"} /\ pc' \notin {"save", "saving", "remove"}
  BY DEF VerbStep, Begin, LoadPinned, LoadPinnedFails, Create, Find, CreateRefused,
         RegisterFails, Use, DeactivateFails, UseFound, Chosen, End, Goto
<1>3. TypeOK' /\ (pc' = "chosen" => Loads(Cur, acct')) /\ (pc' = "register" => ca[acct'] = "none")
  <2>1. CASE \E v \in {"register", "order", "revoke", "update", "unregister"} : Begin(v)
    BY <1>1, <2>1 DEF Begin, Goto, TypeOK, storage, history
  <2>2. CASE \E i \in Id : LoadPinned(i)
    BY <1>1, <2>2 DEF LoadPinned, Chosen, Goto, TypeOK, storage, history
  <2>3. CASE \E i \in Id : LoadPinnedFails(i)
    BY <1>1, <2>3 DEF LoadPinnedFails, End, Goto, TypeOK, storage, history
  <2>4. CASE \E i \in Id : Create(i)
    BY <1>1, <2>4 DEF Create, Goto, TypeOK, storage, history
  <2>5. CASE Find
    BY <1>1, <2>5 DEF Find, UseFound, AllUnder, Chosen, End, Goto, TypeOK, storage, history
  <2>6. CASE CreateRefused \/ RegisterFails \/ Use \/ DeactivateFails
    BY <1>1, <2>6 DEF CreateRefused, RegisterFails, Use, DeactivateFails, End, Goto, TypeOK,
                      storage, history
  <2> QED BY <2>1, <2>2, <2>3, <2>4, <2>5, <2>6 DEF VerbStep
<1>4. Storage' /\ Fresh' /\ OrphansExplained'
  BY <1>1, <1>2 DEF Storage, Fresh, OrphansExplained, storage, history
<1>5. \A i \in Id, s \in {Cur, Prev} : Loads(s, i)' <=> Loads(s, i)
  BY <1>1 DEF Loads, At, Real, storage
<1>6. InHand'
  <2>1. pc' = "chosen" => acct' \in Id
    BY <1>3 DEF TypeOK
  <2>2. pc' = "chosen" => Loads(Cur, acct)'
    BY <1>3, <1>1 DEF Loads, At, Real, storage
  <2> QED BY <1>1, <1>2, <1>3, <2>2 DEF InHand
<1>7. Closed' /\ KeyKept'
  BY <1>1, <1>2, <1>5 DEF Closed, KeyKept, TypeOK, history
<1> QED BY <1>3, <1>4, <1>6, <1>7
\* The CA's answer, or its loss; nothing happens on disk.
CaStep ==
  Register \/ RegisterUnanswered \/ SaveFails \/ Deactivate \/ DeactivateUnanswered

LEMMA CaStepIInv == IInv /\ CaStep => IInv'
<1> SUFFICES ASSUME IInv, CaStep PROVE IInv'
  OBVIOUS
<1> USE DEF IInv
<1>1. UNCHANGED <<storage, saved, linked>> /\ acct \in Id
  BY DEF CaStep, Register, RegisterUnanswered, SaveFails, Deactivate, DeactivateUnanswered,
         history, TypeOK
<1>2. TypeOK'
  BY <1>1 DEF CaStep, Register, RegisterUnanswered, SaveFails, Deactivate,
              DeactivateUnanswered, End, Goto, TypeOK, storage, history
<1>3. \A i \in Id, s \in {Cur, Prev} : Loads(s, i)' <=> Loads(s, i)
  BY <1>1 DEF Loads, At, Real, storage
<1>4. Storage'
  BY <1>1 DEF Storage, storage
<1>5. CASE Register \/ RegisterUnanswered
  <2>1. ca' = [ca EXCEPT ![acct] = "valid"] /\ ca[acct] = "none" /\ pc = "register"
    BY <1>5 DEF Register, RegisterUnanswered, InHand
  <2>2. acct \notin saved /\ entry[Cur][acct] = "none" /\ entry[Prev][acct] = "none"
    BY <2>1, <1>1 DEF Fresh
  <2>3. ca' \in [Id -> {"none", "valid", "deactivated"}] /\ ca'[acct] = "valid"
        /\ \A i \in Id \ {acct} : ca'[i] = ca[i]
    BY <2>1, <1>1 DEF TypeOK
  <2>4. Fresh'
    BY <2>3, <1>1 DEF Fresh, storage
  <2>5. InHand'
    BY <1>5, <1>1, <2>2, <2>3 DEF Register, RegisterUnanswered, InHand, End, Goto, storage
  <2>6. Closed' /\ KeyKept'
    BY <1>5, <1>1, <1>3, <2>1, <2>2, <2>3
       DEF Register, RegisterUnanswered, Closed, KeyKept, TypeOK, history
  <2>7. OrphansExplained'
    BY <1>5, <1>1, <2>1, <2>3
       DEF Register, RegisterUnanswered, OrphansExplained, End, Goto, history
  <2> QED BY <1>2, <1>4, <2>4, <2>5, <2>6, <2>7
<1>6. CASE SaveFails
  <2>1. ca' = ca /\ torn' = torn \cup {acct} /\ pc \in {"save", "saving"} /\ pc' = "idle"
    BY <1>6 DEF SaveFails, End, Goto
  <2>2. Fresh' /\ InHand'
    BY <1>1, <2>1 DEF Fresh, InHand, storage
  <2>3. Closed' /\ KeyKept'
    BY <1>1, <1>3, <2>1 DEF Closed, KeyKept, TypeOK
  <2>4. OrphansExplained'
    BY <1>1, <2>1 DEF OrphansExplained
  <2> QED BY <1>2, <1>4, <2>2, <2>3, <2>4
<1>7. CASE Deactivate \/ DeactivateUnanswered
  <2>1. ca' = [ca EXCEPT ![acct] = "deactivated"] /\ ca[acct] = "valid" /\ pc = "chosen"
    BY <1>7 DEF Deactivate, DeactivateUnanswered
  <2>2. ca'[acct] = "deactivated" /\ \A i \in Id \ {acct} : ca'[i] = ca[i]
    BY <2>1, <1>1 DEF TypeOK
  <2>3. Fresh'
    BY <2>1, <2>2, <1>1 DEF Fresh, storage
  <2>4. InHand'
    <3>1. CASE Deactivate
      <4>1. pc' = "remove" /\ acct' = acct
        BY <3>1 DEF Deactivate, Goto
      <4>2. Loads(Cur, acct)'
        BY <1>1, <2>1, <4>1 DEF InHand, Loads, At, Real, storage
      <4> QED BY <2>2, <4>1, <4>2 DEF InHand
    <3>2. CASE DeactivateUnanswered
      BY <3>2 DEF DeactivateUnanswered, End, Goto, InHand
    <3> QED BY <1>7, <3>1, <3>2
  <2>5. Closed' /\ KeyKept'
    BY <1>7, <1>1, <1>3, <2>1, <2>2
       DEF Deactivate, DeactivateUnanswered, Closed, KeyKept, TypeOK, Goto, history
  <2>6. OrphansExplained'
    BY <1>7, <1>1, <2>1, <2>2
       DEF Deactivate, DeactivateUnanswered, OrphansExplained, history
  <2> QED BY <1>2, <1>4, <2>3, <2>4, <2>5, <2>6
<1> QED BY <1>5, <1>6, <1>7 DEF CaStep

-----------------------------------------------------------------------------
(* The steps that change the disk.                                         *)

LEMMA LoadPinnedFromPrevIInv ==
  ASSUME IInv, NEW n \in Id, LoadPinnedFromPrev(n)
  PROVE  IInv'
<1> USE DEF IInv, LoadPinnedFromPrev
<1>1. TypeOK'
  BY DEF TypeOK, MakeRoot, Chosen, Goto
<1>2. Storage'
  <2>1. entry[Prev][n] = "full" /\ root # "link" /\ root' = "dir"
    BY Reads DEF MakeRoot, TypeOK
  <2>2. entry'[Prev] = entry[Prev] /\ \A i \in Id \ {n} : entry'[Cur][i] = entry[Cur][i]
    BY DEF TypeOK
  <2>3. entry'[Cur][n] = entry[Cur][n] \/ (entry'[Cur][n] = "link" /\ n \in linked')
    BY DEF TypeOK
  <2>4. linked \subseteq linked'
    OBVIOUS
  <2> QED BY <2>1, <2>2, <2>3, <2>4 DEF Storage
<1>3. Loads(Cur, n)'
  BY <1>1, <1>2, Reads, ReadsNext DEF MakeRoot, At, Real, Storage, TypeOK
<1>4. \A i \in Id : (Loads(Prev, i)' <=> Loads(Prev, i)) /\ (Loads(Cur, i)' => Loads(Cur, i) \/ i = n)
  BY <1>1, <1>2, Reads, ReadsNext DEF MakeRoot, At, Real, Storage, TypeOK
<1>5. \A i \in Id : Loads(Cur, i) => Loads(Cur, i)'
  BY <1>1, <1>2, Reads, ReadsNext DEF MakeRoot, At, Real, Storage, TypeOK
<1>6. Fresh'
  BY Reads DEF Fresh, TypeOK
<1>7. InHand'
  BY <1>3 DEF InHand, Chosen, Goto
<1>8. Closed' /\ KeyKept'
  BY <1>4, <1>5 DEF Closed, KeyKept, TypeOK
<1>9. OrphansExplained'
  BY DEF OrphansExplained
<1> QED BY <1>1, <1>2, <1>6, <1>7, <1>8, <1>9
\* Where the current server's directory leads changes; the entries do not.
LEMMA MigrateIInv == IInv /\ (MigrateRemove \/ MigrateLink \/ RemoveRoot) => IInv'
<1> SUFFICES ASSUME IInv, MigrateRemove \/ MigrateLink \/ RemoveRoot PROVE IInv'
  OBVIOUS
<1> USE DEF IInv
<1>1. UNCHANGED <<entry, ca, history>> /\ pc \in {"find", "rmdir"}
  BY DEF MigrateRemove, MigrateLink, RemoveRoot
<1>2. /\ root' \in {"none", "dir", "link"}
      /\ pc' \in {"idle", "find", "chosen"}
      /\ IF pc' = "chosen" THEN acct' \in Id /\ root' = "link" /\ entry[Prev][acct'] = "full"
                           ELSE acct' = None
      /\ verb' = verb \/ verb' = "none"
  <2>1. CASE MigrateRemove
    BY <2>1 DEF MigrateRemove, TypeOK
  <2>2. CASE MigrateLink
    <3>1. \A i \in AllUnder(Prev) : i \in Id /\ entry[Prev][i] = "full"
      BY Reads DEF AllUnder
    <3> QED BY <2>2, <3>1 DEF MigrateLink, UseFound, Chosen, End, Goto
  <2>3. CASE RemoveRoot
    BY <2>3 DEF RemoveRoot, End, Goto, TypeOK
  <2> QED BY <2>1, <2>2, <2>3
<1>3. TypeOK'
  BY <1>1, <1>2 DEF TypeOK, history
<1>4. root' # root => \A i \in Id : entry[Cur][i] = "none"
  BY DEF MigrateRemove, MigrateLink, RemoveRoot, Entries, At, Real, Storage
<1>5. Storage'
  BY <1>1, <1>4 DEF Storage, history
<1>6. Fresh' /\ OrphansExplained'
  BY <1>1 DEF Fresh, OrphansExplained, history
<1>7. \A i \in Id :
        /\ Loads(Prev, i)' <=> Loads(Prev, i)
        /\ Loads(Cur, i)' => Loads(Cur, i) \/ Loads(Prev, i)
        /\ Loads(Cur, i) => Loads(Cur, i)' \/ Loads(Prev, i)'
  BY <1>1, <1>3, <1>4, <1>5, Reads, ReadsNext
<1>8. InHand'
  BY <1>1, <1>2, <1>3, <1>5, ReadsNext DEF InHand
<1>9. Closed' /\ KeyKept'
  BY <1>1, <1>7 DEF Closed, KeyKept, TypeOK, history
<1> QED BY <1>3, <1>5, <1>6, <1>8, <1>9

\* One entry of the current server is written.
LEMMA PutEntry ==
  ASSUME TypeOK, NEW n \in Id, NEW what \in {"none", "torn", "full", "link"}, Put(Cur, n, what)
  PROVE  /\ entry' \in [{Cur, Prev} -> [Id -> {"none", "torn", "full", "link"}]]
         /\ \A i \in Id \ {n} : entry'[Cur][i] = entry[Cur][i] /\ entry'[Prev][i] = entry[Prev][i]
         /\ root = "link" => entry'[Prev][n] = what /\ entry'[Cur][n] = entry[Cur][n]
         /\ root # "link" => entry'[Cur][n] = what /\ entry'[Prev][n] = entry[Prev][n]
  BY DEF Put, Real, TypeOK

LEMMA SaveIInv == IInv /\ (SaveBegin \/ SaveDone) => IInv'
<1> SUFFICES ASSUME IInv, SaveBegin \/ SaveDone PROVE IInv'
  OBVIOUS
<1> USE DEF IInv
<1>1. acct \in Id /\ acct \notin saved /\ ca[acct] = "valid" /\ UNCHANGED <<ca, torn, linked>>
  BY DEF SaveBegin, SaveDone, InHand, TypeOK, history
<1>2. \E what \in {"torn", "full"} : Put(Cur, acct, what)
  BY DEF SaveBegin, SaveDone
<1>3. entry' \in [{Cur, Prev} -> [Id -> {"none", "torn", "full", "link"}]]
  BY <1>1, <1>2, PutEntry
<1>4. \A i \in Id \ {acct} : entry'[Cur][i] = entry[Cur][i] /\ entry'[Prev][i] = entry[Prev][i]
  BY <1>1, <1>2, PutEntry
<1>5. root' = IF root = "none" THEN "dir" ELSE root
  BY DEF SaveBegin, SaveDone, MakeRoot, InHand, At
<1>6. IF root' = "link"
      THEN entry'[Prev][acct] \in {"torn", "full"} /\ entry'[Cur][acct] = "none"
      ELSE entry'[Cur][acct] \in {"torn", "full"} /\ entry'[Prev][acct] = "none"
  <2>1. root' # "link" => entry[Prev][acct] = "none"
    BY <1>5 DEF SaveBegin, SaveDone, InHand, TypeOK, At
  <2>2. root = "link" => entry[Cur][acct] = "none"
    BY <1>1 DEF Storage
  <2> QED BY <1>1, <1>2, <1>5, <2>1, <2>2, PutEntry
<1>7. TypeOK'
  <2>1. root' \in {"none", "dir", "link"}
    BY <1>5 DEF TypeOK
  <2>2. CASE SaveBegin
    BY <1>1, <1>3, <2>1, <2>2 DEF SaveBegin, TypeOK, Goto, history
  <2>3. CASE SaveDone
    BY <1>1, <1>3, <2>1, <2>3 DEF SaveDone, TypeOK, End, Goto
  <2> QED BY <2>2, <2>3
<1>8. Storage'
  BY <1>1, <1>4, <1>5, <1>6 DEF Storage, TypeOK
<1>9. Fresh'
  <2>1. saved' \subseteq saved \cup {acct}
    BY DEF SaveBegin, SaveDone, history
  <2> QED BY <1>1, <1>4, <2>1 DEF Fresh
<1>10. \A i \in Id \ {acct} :
         /\ Loads(Prev, i)' <=> Loads(Prev, i)
         /\ Loads(Cur, i)' <=> Loads(Cur, i)
  <2>1. root' # root => \A i \in Id : entry[Cur][i] = "none"
    BY <1>5 DEF Storage
  <2> QED BY <1>4, <1>5, <1>7, <1>8, <2>1, Reads, ReadsNext
<1>11. CASE SaveBegin
  <2>1. At(Cur, acct)' = "torn" /\ acct' = acct /\ pc' = "saving" /\ saved' = saved
    <3>1. IF root' = "link" THEN entry'[Prev][acct] = "torn" ELSE entry'[Cur][acct] = "torn"
      BY <1>1, <1>5, <1>11, PutEntry DEF SaveBegin
    <3> QED BY <1>5, <1>11, <3>1 DEF SaveBegin, Goto, At, Real, history, TypeOK
  <2>2. InHand'
    BY <1>1, <1>6, <2>1 DEF InHand
  <2>3. Closed' /\ KeyKept' /\ OrphansExplained'
    BY <1>1, <1>10, <1>11, <2>1 DEF SaveBegin, Closed, KeyKept, OrphansExplained, TypeOK
  <2> QED BY <1>7, <1>8, <1>9, <2>2, <2>3
<1>12. CASE SaveDone
  <2>1. saved' = saved \cup {acct} /\ ((acct' = acct /\ pc' = "chosen") \/ pc' = "idle")
    BY <1>12 DEF SaveDone, End, Goto
  <2>2. /\ root' \in {"dir", "link"}
        /\ IF root' = "link" THEN entry'[Prev][acct] = "full" ELSE entry'[Cur][acct] = "full"
    BY <1>1, <1>12, PutEntry DEF SaveDone, InHand, At, TypeOK
  <2>3. \A i \in {acct} : Loads(Cur, i)'
    BY <1>1, <1>7, <1>8, <2>2, ReadsNext
  <2>4. InHand'
    BY <2>1, <2>2, <1>7, <1>8, ReadsNext, <1>1 DEF InHand
  <2>5. Closed'
    BY <1>1, <1>10, <1>12 DEF SaveDone, Closed, TypeOK
  <2>6. KeyKept'
    BY <1>1, <1>10, <2>1, <2>3 DEF KeyKept, TypeOK
  <2>7. OrphansExplained'
    BY <1>1, <1>12, <2>1 DEF SaveDone, OrphansExplained, TypeOK
  <2> QED BY <1>7, <1>8, <1>9, <2>4, <2>5, <2>6, <2>7
<1> QED BY <1>11, <1>12

\* The account goes, or only its link; the CA has closed it.
LEMMA RemoveIInv == IInv /\ RemoveAccount => IInv'
<1> SUFFICES ASSUME IInv, RemoveAccount PROVE IInv'
  OBVIOUS
<1> USE DEF IInv
<1>1. acct \in Id /\ ca[acct] = "deactivated" /\ Loads(Cur, acct) /\ pc' = "rmdir"
      /\ UNCHANGED <<root, ca, verb, acct, history>>
  BY DEF RemoveAccount, InHand, TypeOK, Goto
<1>2. /\ entry' \in [{Cur, Prev} -> [Id -> {"none", "torn", "full", "link"}]]
      /\ \A i \in Id \ {acct} : entry'[Cur][i] = entry[Cur][i] /\ entry'[Prev][i] = entry[Prev][i]
      /\ root = "link" => entry'[Prev][acct] = "none" /\ entry'[Cur][acct] = entry[Cur][acct]
      /\ root # "link" => entry'[Cur][acct] = "none" /\ entry'[Prev][acct] = entry[Prev][acct]
  BY <1>1, PutEntry DEF RemoveAccount
<1>3. TypeOK'
  BY <1>1, <1>2 DEF TypeOK, history, RemoveAccount
<1>4. Storage'
  BY <1>1, <1>2 DEF Storage, history, TypeOK
<1>5. Fresh' /\ InHand' /\ OrphansExplained'
  BY <1>1, <1>2 DEF Fresh, InHand, OrphansExplained, history, RemoveAccount
<1>6. \A i \in Id \ {acct} :
        /\ Loads(Prev, i)' <=> Loads(Prev, i)
        /\ Loads(Cur, i)' <=> Loads(Cur, i)
  BY <1>1, <1>2, <1>3, <1>4, Reads, ReadsNext
<1>7. ~Loads(Cur, acct)' /\ (Loads(Prev, acct)' => acct \in linked)
  <2>1. entry[Cur][acct] = "full" => entry[Prev][acct] = "none"
    BY <1>1 DEF Storage
  <2>2. entry[Cur][acct] = "link" => acct \in linked
    BY <1>1 DEF Storage
  <2>3. root = "link" \/ entry[Cur][acct] \in {"full", "link"}
    BY <1>1, Reads
  <2>4. root = "link" => entry[Cur][acct] = "none"
    BY <1>1 DEF Storage
  <2>5. \A i \in {acct} : ~Loads(Cur, i)' /\ (Loads(Prev, i)' => i \in linked)
    BY <1>1, <1>2, <1>3, <1>4, <2>1, <2>2, <2>3, <2>4, ReadsNext
  <2> QED BY <1>1, <2>5
<1>8. Closed'
  BY <1>1, <1>6, <1>7 DEF Closed, history
<1>9. KeyKept'
  BY <1>1, <1>6 DEF KeyKept, TypeOK, history
<1> QED BY <1>3, <1>4, <1>5, <1>8, <1>9

\* A kill may leave some of the files of the account that is being removed.
LEMMA KillIInv == IInv /\ Kill => IInv'
<1> SUFFICES ASSUME IInv, Kill PROVE IInv'
  OBVIOUS
<1> USE DEF IInv
<1>1. UNCHANGED <<root, ca, saved, linked>> /\ pc' = "idle" /\ verb' = "none" /\ acct' = None
  BY DEF Kill, End, Goto
<1>2. CASE UNCHANGED entry
  <2>1. TypeOK' /\ Storage' /\ Fresh' /\ InHand'
    BY <1>1, <1>2 DEF Kill, TypeOK, Storage, Fresh, InHand
  <2>2. \A i \in Id, s \in {Cur, Prev} : Loads(s, i)' <=> Loads(s, i)
    BY <1>1, <1>2 DEF Loads, At, Real
  <2>3. Closed' /\ KeyKept'
    BY <1>1, <2>2 DEF Kill, Closed, KeyKept, TypeOK
  <2>4. OrphansExplained'
    BY <1>1 DEF Kill, OrphansExplained
  <2> QED BY <2>1, <2>3, <2>4
<1>3. CASE pc = "remove" /\ At(Cur, acct) = "full" /\ Put(Cur, acct, "torn")
  <2>1. acct \in Id /\ ca[acct] = "deactivated" /\ torn' = torn \cup {acct}
    BY <1>3 DEF Kill, InHand, TypeOK
  <2>2. /\ entry' \in [{Cur, Prev} -> [Id -> {"none", "torn", "full", "link"}]]
        /\ \A i \in Id \ {acct} : entry'[Cur][i] = entry[Cur][i] /\ entry'[Prev][i] = entry[Prev][i]
        /\ root = "link" => entry'[Prev][acct] = "torn" /\ entry'[Cur][acct] = entry[Cur][acct]
        /\ root # "link" => entry'[Cur][acct] = "torn" /\ entry'[Prev][acct] = entry[Prev][acct]
    BY <1>3, <2>1, PutEntry
  <2>3. TypeOK'
    BY <1>1, <2>1, <2>2 DEF TypeOK
  <2>4. Storage'
    <3>1. IF root = "link" THEN entry[Cur][acct] = "none"
                           ELSE root = "dir" /\ entry[Prev][acct] = "none"
      BY <1>3, <2>1 DEF Storage, At, Real, TypeOK
    <3> QED BY <1>1, <2>1, <2>2, <3>1 DEF Storage, TypeOK
  <2>5. Fresh' /\ InHand' /\ OrphansExplained'
    BY <1>1, <2>1, <2>2 DEF Fresh, InHand, OrphansExplained
  <2>6. \A i \in Id \ {acct} :
          /\ Loads(Prev, i)' <=> Loads(Prev, i)
          /\ Loads(Cur, i)' <=> Loads(Cur, i)
    BY <1>1, <2>2, <2>3, <2>4, Reads, ReadsNext
  <2>7. Closed' /\ KeyKept'
    BY <1>1, <2>1, <2>6 DEF Closed, KeyKept, TypeOK
  <2> QED BY <2>3, <2>4, <2>5, <2>7
<1> QED BY <1>2, <1>3 DEF Kill

-----------------------------------------------------------------------------
(* The theorems.                                                           *)

LEMMA NextIInv == IInv /\ [Next]_vars => IInv'
<1> SUFFICES ASSUME IInv, [Next]_vars PROVE IInv'
  OBVIOUS
<1>1. CASE UNCHANGED vars
  BY <1>1 DEF vars, storage, history, IInv, TypeOK, Storage, Fresh, InHand, Closed, KeyKept,
              OrphansExplained, Loads, At, Real
<1>2. CASE VerbStep
  BY <1>2, VerbStepIInv
<1>3. CASE CaStep
  BY <1>3, CaStepIInv
<1>4. CASE \E i \in Id : LoadPinnedFromPrev(i)
  BY <1>4, LoadPinnedFromPrevIInv
<1>5. CASE MigrateRemove \/ MigrateLink \/ RemoveRoot
  BY <1>5, MigrateIInv
<1>6. CASE SaveBegin \/ SaveDone
  BY <1>6, SaveIInv
<1>7. CASE RemoveAccount \/ Kill
  BY <1>7, RemoveIInv, KillIInv
<1> QED BY <1>1, <1>2, <1>3, <1>4, <1>5, <1>6, <1>7 DEF Next, VerbStep, CaStep

LEMMA Inductive == Spec => []IInv
  BY InitIInv, NextIInv, PTL DEF Spec

\* Whatever is registered, migrated, linked, removed or killed, the state is well
\* typed.
THEOREM TypeCorrect == Spec => []TypeOK
<1>1. IInv => TypeOK
  BY DEF IInv
<1> QED BY Inductive, <1>1, PTL

\* The key of an account that is valid at the CA, once complete on disk, can be loaded
\* for ever (FindAll, Load, Unregister).
THEOREM KeysKept == Spec => []KeyKept
<1>1. IInv => KeyKept
  BY DEF IInv
<1> QED BY Inductive, <1>1, PTL

\* A valid account without a key on disk is explained by a kill, a lost answer or a
\* failing Save (EnsureRegistered, Save).
THEOREM Orphans == Spec => []OrphansExplained
<1>1. IInv => OrphansExplained
  BY DEF IInv
<1> QED BY Inductive, <1>1, PTL

\* A closed account is chosen again only after a removal that was cut short, or as the
\* predecessor's whose link was removed (Unregister).
THEOREM Closure == Spec => []ClosedStaysClosed
<1>1. IInv => ClosedStaysClosed
  BY DEF IInv, InHand, Closed, ClosedStaysClosed, TypeOK
<1> QED BY Inductive, <1>1, PTL
============================================================================
