----------------------------- MODULE MCEmailOtp -----------------------------
(* Small instances of EmailOtp for TLC: two sends a window, one wrong guess. *)
EXTENDS EmailOtp, TLC

CONSTANTS s1, s2, s3, v1, v2, ip1, ip2

Symmetry == Permutations(SendReqs) \cup Permutations(VerifyReqs)
=============================================================================
