--------------------------- MODULE MCAdapterSession ---------------------------
(***************************************************************************)
(* A small instance of AdapterSession.                                     *)
(***************************************************************************)
EXTENDS AdapterSession

MCKeys == {1, 2}
MCTriggers == {"audit", "notify"}

===============================================================================
