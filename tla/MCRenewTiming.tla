--------------------------- MODULE MCRenewTiming ----------------------------
(* A short and a long certificate, in ticks of a few hours or days.         *)
EXTENDS RenewTiming

ShortAndLong == {4, 9}
=============================================================================
