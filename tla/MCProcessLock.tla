--------------------------- MODULE MCProcessLock ---------------------------
(* ProcessLock on a few processes, directories and inodes.                 *)
EXTENDS ProcessLock

CONSTANTS p1, p2, p3, config, work, logs

\* p2 has its config and work directories the other way round, p3 shares only
\* the work directory with the others (a separate --logs-dir).
CrossedDirs ==
  [p \in Proc |-> CASE p = p1 -> <<config, work>>
                    [] p = p2 -> <<work, config>>
                    [] OTHER  -> <<logs, work>>]
=============================================================================
