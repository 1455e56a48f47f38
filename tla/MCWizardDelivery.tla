-------------------------- MODULE MCWizardDelivery --------------------------
(***************************************************************************)
(* Instances of WizardDelivery: which triggers carry an id, and how small  *)
(* the directory and the queue are.                                        *)
(***************************************************************************)
EXTENDS WizardDelivery

CONSTANTS m1, m2, n

=============================================================================
