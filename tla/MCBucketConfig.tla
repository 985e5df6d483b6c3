--------------------------- MODULE MCBucketConfig ----------------------------
(****************************************************************************)
(* Instances of BucketConfig. Two of the rules differ from the third in the *)
(* mode only and in the period only.                                        *)
(****************************************************************************)
EXTENDS BucketConfig, TLC

CONSTANTS r1, r2, r3, r4

Symmetry == Permutations(Request)

GovernanceDays  == [mode |-> "GOVERNANCE", days |-> 1, years |-> Null]
ComplianceDays  == [mode |-> "COMPLIANCE", days |-> 1, years |-> Null]
GovernanceYears == [mode |-> "GOVERNANCE", days |-> Null, years |-> 2]

Rules == {GovernanceDays, ComplianceDays, GovernanceYears}

=============================================================================
