----------------------------- MODULE LockTable -----------------------------
(***************************************************************************)
(* What internal/processlock promises to the rest of the program: a table  *)
(* that says, for every directory, which process may touch what it holds.  *)
(* A directory is granted only while nobody has it, one directory at a     *)
(* time, and a process gives back any number of its directories at once    *)
(* (all of them when it dies).                                             *)
(***************************************************************************)
CONSTANTS
  Proc,   \* the processes
  Path,   \* the directories
  Nobody  \* the owner of a free directory

VARIABLE owner \* owner[d]: the process that may touch what is below d

Init == owner = [d \in Path |-> Nobody]

Grant(p, d) ==
  /\ owner[d] = Nobody
  /\ owner' = [owner EXCEPT ![d] = p]

GiveBack(p, D) ==
  /\ \A d \in D : owner[d] = p
  /\ owner' = [d \in Path |-> IF d \in D THEN Nobody ELSE owner[d]]

Next ==
  \E p \in Proc : \/ \E d \in Path : Grant(p, d)
                  \/ \E D \in SUBSET Path : GiveBack(p, D)

Spec == Init /\ [][Next]_owner
=============================================================================
