------------------------------ MODULE MCMalloc ------------------------------
(* Malloc instantiated for TLC.                                            *)
EXTENDS Malloc

\* calloc(3, 8): 24 bytes.
CallocSmall == {<<3, 8>>}
=============================================================================
