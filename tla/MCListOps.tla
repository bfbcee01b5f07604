------------------------------- MODULE MCListOps -------------------------------
(***************************************************************************)
(* An instance of ListOps for TLC: four tasks that come and go.            *)
(***************************************************************************)
EXTENDS ListChain

CONSTANTS a, b, c, d

MCElems == {a, b, c, d}
==============================================================================
