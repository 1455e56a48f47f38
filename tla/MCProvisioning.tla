--------------------------- MODULE MCProvisioning ---------------------------
(***************************************************************************)
(* Two channel names, as many as one run needs.                            *)
(***************************************************************************)
EXTENDS Provisioning

MCNames == {"desk", "office"}

=============================================================================
