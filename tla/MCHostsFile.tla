------------------------------ MODULE MCHostsFile ------------------------------
(* HostsFile for TLC.  Commands are interchangeable, and so are foreign lines. *)
EXTENDS HostsFile, TLC

CONSTANTS juiceShop, webGoat

Catalogue == <<juiceShop, webGoat>>
Symmetric == Permutations(Commands) \cup Permutations(Foreign)
=============================================================================
