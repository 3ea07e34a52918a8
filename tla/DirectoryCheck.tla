--------------------------- MODULE DirectoryCheck ---------------------------
(***************************************************************************)
(* Directory with one access check in flight at a time: what the tables of *)
(* the bridge promise to the flows.  A check begins and ends, the writes   *)
(* of lore-authctl fall between, the server's own wait, and the answer is  *)
(* one that CheckInFlight allows, or an error.  AccessControl implements   *)
(* it.                                                                     *)
(***************************************************************************)
EXTENDS Directory

CONSTANTS NoUser, NoRepo

VARIABLE check

\* No check in flight; `answer' is that of the last one.
Idle(answer) == [user |-> NoUser, repo |-> NoRepo, run |-> NoCheck, answer |-> answer]

Busy == check.user # NoUser

Access(rows, ws, u, r) == Writable(rows, ws, u) \cap {r}

\* A check of an unknown or deleted repository fails; a listing leaves it out.
BeginCheck(u, r) ==
    /\ ~Busy
    /\ check' = [user |-> u, repo |-> r, answer |-> "none",
                 run |-> Begun(Access(repos, writers, u, r))]
    /\ UNCHANGED dirVars

EndCheck ==
    /\ Busy
    /\ \E got \in Outcomes(check.run, {check.repo}) :
          check' = Idle(IF got = {} THEN "deny" ELSE "allow")
    /\ UNCHANGED dirVars

FailCheck ==
    /\ Busy
    /\ check' = Idle("error")
    /\ UNCHANGED dirVars

\* The caller has the answer and does something else.
Forget ==
    /\ ~Busy
    /\ check' = Idle("none")
    /\ UNCHANGED dirVars

\* Accounts are not read by a check, so their writes do not tear it.
Observe ==
    check' = IF ~Busy \/ activeUsers' # activeUsers THEN check
             ELSE [check EXCEPT
                     !.run = Noted(@, Access(repos', writers', check.user, check.repo))]

CheckedInit == DirInit /\ check = Idle("none")

CheckedNext ==
    \/ AdminNext /\ Observe
    \/ RebacNext /\ ~Busy /\ UNCHANGED check
    \/ \E u \in Users, r \in Repos : BeginCheck(u, r)
    \/ EndCheck \/ FailCheck \/ Forget

CheckedSpec == CheckedInit /\ [][CheckedNext]_<<dirVars, check>>

=============================================================================
