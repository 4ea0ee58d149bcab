--------------------------- MODULE MCVendorInstall ---------------------------
(***************************************************************************)
(* A version whose installer has one companion archive, one device pack    *)
(* and two programs, and a NixOS host unless a configuration says other.   *)
(***************************************************************************)
EXTENDS VendorInstall

CONSTANTS companion, installer, pack, sh, fit, older, p1, p2, pathsA, pathsB

TwoArchives == <<companion, installer>>
OnePack == <<pack>>

=============================================================================
