---- MODULE MCAdminConsole ----
(* Instances of AdminConsole for TLC. *)
EXTENDS AdminConsole, TLC

Symmetric == Permutations(Requests) \cup Permutations(CsrfTokens) \cup Permutations(Cookies)
====
