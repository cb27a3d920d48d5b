------------------------------ MODULE MCRespNet ------------------------------
(***************************************************************************)
(* Boxes from one core to four, and a container that owns the upper half   *)
(* of an eight core box; lists that overlap in themselves and that end     *)
(* before they begin.                                                      *)
(***************************************************************************)
EXTENDS RespNet

MCBoxes == {{0}, {0, 1}, {0, 1, 2}, 0..3, 4..7}
MCLists == {<<>>, <<<<0, 1>>>>, <<<<2, 2>>, <<2, 3>>>>, <<<<3, 2>>>>}
=============================================================================
