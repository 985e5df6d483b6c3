----------------------------- MODULE MCMultipart -----------------------------
(****************************************************************************)
(* Instances of Multipart.                                                  *)
(****************************************************************************)
EXTENDS Multipart

CONSTANTS r1, r2, r3, r4

=============================================================================
