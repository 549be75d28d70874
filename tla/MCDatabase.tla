----------------------------- MODULE MCDatabase -----------------------------
(* Three hosts: a sweep can pass a fresh entry, delete one or two stale     *)
(* ones and miss one.                                                       *)
EXTENDS Database
CONSTANTS h1, h2, h3
MCHost == {h1, h2, h3}
=============================================================================
