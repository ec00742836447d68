--------------------------- MODULE MCSignupPayment ---------------------------
(* Instances of SignupPayment for TLC: model values and their symmetry.    *)
EXTENDS SignupPayment, TLC

Symmetry ==
    Permutations(Subs) \cup Permutations(Names) \cup Permutations(Requests)
=============================================================================
