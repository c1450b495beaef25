---------------------------- MODULE MCAviSession ----------------------------
(***************************************************************************)
(* Values for model checking AviSession.                                   *)
(***************************************************************************)
EXTENDS AviSession

=============================================================================
