--------------------------- MODULE CheckInFlight ---------------------------
(***************************************************************************)
(* An access check (can_access) or listing (list_accessible) of the server *)
(* while it runs, as the flows see it.                                     *)
(*                                                                         *)
(* It is three or four SELECTs without a transaction, in one closure on    *)
(* the server's only connection: other statements of the server wait, but  *)
(* lore-authctl may commit between the SELECTs.  One such commit leaves an *)
(* answer that was right before it or after it; two may leave any answer.  *)
(* AccessControl models the SELECTs themselves and shows both; here a      *)
(* check is what the moments between its first and its last SELECT allowed *)
(* and how many commits fell between them.                                 *)
(*                                                                         *)
(* A definition X_Fault is X with a plausible bug, kept beside it to show  *)
(* that a property notices; no specification uses it.                      *)
(***************************************************************************)
EXTENDS Naturals

\* `ever' and `always': the repositories, among those asked about, to which the
\* user had access at some moment, and at every moment, of the check so far.
CheckRecord(repositories) ==
    [ever : SUBSET repositories, always : SUBSET repositories, commits : Nat]

NoCheck == [ever |-> {}, always |-> {}, commits |-> 0]

\* The first SELECT, at a moment with access to `now'.
Begun(now) == [ever |-> now, always |-> now, commits |-> 0]

\* A commit of lore-authctl between the SELECTs.
Noted(check, now) ==
    [ever    |-> check.ever \cup now,
     always  |-> check.always \cap now,
     commits |-> check.commits + 1]

Torn(check) == check.commits > 1

\* Faulty variant: the grants are not consulted.
Outcomes_Unchecked(check, asked) == SUBSET asked

\* The answers the last SELECT may lead to.
Outcomes(check, asked) ==
    {got \in SUBSET asked :
        Torn(check) \/ (check.always \subseteq got /\ got \subseteq check.ever)}

=============================================================================
