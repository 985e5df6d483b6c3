---------------------------- MODULE MCObjectStore ----------------------------
(****************************************************************************)
(* Instances of ObjectStore: keys "a", "a/b" (one is a prefix of the other) *)
(* and "c".                                                                 *)
(****************************************************************************)
EXTENDS ObjectStore

CONSTANTS r1, r2, r3, d1

A  == <<"a">>
AB == <<"a", "b">>
C  == <<"c">>

Names == {"a", "b", "c"}
NestedPaths == {A, AB}
OnePath == {C}

=============================================================================
