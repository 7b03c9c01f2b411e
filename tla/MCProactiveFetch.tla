-------------------------- MODULE MCProactiveFetch --------------------------
(* Instances of ProactiveFetch for TLC. *)
EXTENDS ProactiveFetch
=============================================================================
