---- MODULE MCCliLogin ----
(* Instances of CliLogin for TLC. *)
EXTENDS CliLogin
====
