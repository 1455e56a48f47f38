----------------------------- MODULE MCInstaller -----------------------------
(***************************************************************************)
(* One installer on one host; the script itself fixes what it installs.    *)
(***************************************************************************)
EXTENDS Installer

=============================================================================
