------------------------ MODULE MCReminderDispatch ------------------------
(***************************************************************************)
(* Instances of ReminderDispatch: the cfg files choose the reminders, the  *)
(* batch limit and the bounds.                                             *)
(***************************************************************************)
EXTENDS ReminderDispatch

CONSTANTS r1, r2

=============================================================================
