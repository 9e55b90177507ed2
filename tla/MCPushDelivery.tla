---------------------------- MODULE MCPushDelivery ----------------------------
(***************************************************************************)
(* PushDelivery with the symmetries of its workers and tokens, for the     *)
(* safety runs.                                                            *)
(***************************************************************************)
EXTENDS PushDelivery, TLC

Symmetry == Permutations(Workers) \cup Permutations(Tokens)
=============================================================================
