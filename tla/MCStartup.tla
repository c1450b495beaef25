----------------------------- MODULE MCStartup -----------------------------
(***************************************************************************)
(* Values for model checking Startup: two health checks at a time, three   *)
(* outages, and the timeouts of the code.                                  *)
(***************************************************************************)
EXTENDS Startup

=============================================================================
