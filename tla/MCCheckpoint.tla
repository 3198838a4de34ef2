---------------------------- MODULE MCCheckpoint ----------------------------
(* Checkpoint with two files: f1 comes with the server, f2 is made by an    *)
(* installer.                                                               *)
EXTENDS Checkpoint

CONSTANTS f1, f2

TwoFiles == {f1, f2}
OneShipped == {f1}
=============================================================================
