----------------------------- MODULE MCGocryptfs -----------------------------
(****************************************************************************)
(* Instances of Gocryptfs. Two requests meet in every pair of services,     *)
(* with a storage that earlier ones have left in any stage.                 *)
(****************************************************************************)
EXTENDS Gocryptfs

CONSTANTS r1, r2

=============================================================================
