--------------------------- MODULE MCMojomHandles ---------------------------
(***************************************************************************)
(* Model-checking instance of MojomHandles.                                *)
(***************************************************************************)
EXTENDS MojomHandles, TLC

CONSTANTS h1, h2

MCHandles == {h1, h2}

Symm == Permutations(MCHandles)
=============================================================================
