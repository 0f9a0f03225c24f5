---------------------------- MODULE MCServerLoop ----------------------------
(* Instance of ServerLoop for TLC; the configurations give all constants. *)
EXTENDS ServerLoop
=============================================================================
