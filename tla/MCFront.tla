------------------------------- MODULE MCFront -------------------------------
(* Two requests, of queries that read up to two windows.                   *)
EXTENDS Front
=============================================================================
