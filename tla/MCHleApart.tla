----------------------------- MODULE MCHleApart -----------------------------
(* The machine of MCHleBios, whose calls keep source and target apart, and  *)
(* the target in one region.                                                *)
EXTENDS MCHleBios

ASSUME CallsClean
ASSUME CallsUniform
=============================================================================
