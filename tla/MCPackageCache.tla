--------------------------- MODULE MCPackageCache ---------------------------
(* Instances of PackageCache for TLC. *)
EXTENDS PackageCache

CONSTANTS p1, p2
=============================================================================
