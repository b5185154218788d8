----------------------------- MODULE MCTerminals -----------------------------
(* Terminals.tla for TLC: the ranges of ts.conf on a small scale, related  *)
(* to each other as those of the source are. In the source the largest     *)
(* minimum of terminals equals the smallest maximum, and that of screens   *)
(* lies below it.                                                          *)
EXTENDS Terminals

Range4(tMin, tMax, vMin, vMax) ==
  [key \in Keys |->
     CASE key = "termNumMin" -> tMin [] key = "termNumMax" -> tMax
       [] key = "vScrNumMin" -> vMin [] key = "vScrNumMax" -> vMax]

MCLo      == Range4(1, 3, 1, 3)
MCHi      == Range4(3, 5, 2, 4)
MCDefault == Range4(2, 4, 2, 3)

(* The numbers of mConfig.c themselves. *)
SourceLo      == Range4(3, 10, 1, 4)
SourceHi      == Range4(10, 50, 3, 16)
SourceDefault == Range4(5, 28, 3, 10)
=============================================================================
