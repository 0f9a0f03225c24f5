---------------------------- MODULE MCThreadPool ----------------------------
(* Instance of ThreadPool for TLC; the configuration gives all constants. *)
EXTENDS ThreadPool
=============================================================================
