----------------------------- MODULE MCOtpStore -----------------------------
(* The instance of OtpStore for TLC: two handlers, interchangeable.        *)
EXTENDS OtpStore, TLC

CONSTANTS h1, h2

Symmetry == Permutations({h1, h2})
=============================================================================
