---------------------------- MODULE MCInstaller ----------------------------
(* An instance of Installer small enough for TLC. *)
EXTENDS Installer

=============================================================================
