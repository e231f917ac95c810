-------------------------- MODULE MCLicenseRegister --------------------------
(* Small instances of LicenseRegister for TLC. *)
EXTENDS LicenseRegister, TLC

Symmetry == Permutations(Reviews) \cup Permutations(Licenses)
=============================================================================
