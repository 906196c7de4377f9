---------------------------- MODULE MCPackageTree ----------------------------
(* TLC instance of PackageTree: forests of up to four packages. *)
EXTENDS PackageTree

Nodes == 1..4
=============================================================================
