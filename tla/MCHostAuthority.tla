---------------------------- MODULE MCHostAuthority ----------------------------
(***************************************************************************)
(* Instances of HostAuthority for TLC.                                     *)
(***************************************************************************)
EXTENDS HostAuthority

Texts == 1 .. 2
OneText == 1 .. 1
================================================================================
