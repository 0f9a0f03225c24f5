------------------------------- MODULE MCHMap -------------------------------
(* Model values for HMap: hash codes that collide in small and large tables. *)
EXTENDS HMap

MCNode == 1 .. 5
MCHash == <<0, 4, 1, 6, 9>>
=============================================================================
