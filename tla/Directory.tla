----------------------------- MODULE Directory -----------------------------
(***************************************************************************)
(* What every flow of the bridge reads of the shared SQLite database: which *)
(* accounts are active, the repositories table, and who may write where.   *)
(* The flows (device authorization, token exchange) run inside the server  *)
(* and interleave with the administrative writes below, which come from    *)
(* the admin UI, from loreserver's RebacApi and from lore-authctl.         *)
(*                                                                         *)
(* Grants, groups and nesting are abstracted to the relation they induce:  *)
(* `writers' holds <<u, r>> when the grants of repository r give user u    *)
(* the "write" action.  AccessControl models how the relation is computed  *)
(* from the tables.  Access is read over several moments: CheckInFlight.   *)
(*                                                                         *)
(* A definition X_Fault is X with a plausible bug, kept beside it to show  *)
(* that a property notices; no specification uses it.                      *)
(***************************************************************************)
EXTENDS Integers, CheckInFlight

CONSTANTS
    Users,      \* rows of `users'
    Repos,      \* repository rows; a row id and its lore_repository_id are
                \* both unique and never change, so one identity stands for both
    Names,      \* repository names
    NoName,     \* the name of a row that does not exist
    StartRepos  \* the contents the repositories table may have at the start

VARIABLES
    activeUsers,  \* users whose status is 'active'
    repos,        \* Repos -> the row
    writers       \* pairs <<user, repository>> with effective write access

dirVars == <<activeUsers, repos, writers>>

RepoRow == [status : {"absent", "active", "deleted"},
            name   : Names \cup {NoName},
            source : {"none", "manual", "rebac"}]

\* A repositories table the schema admits: `name' is UNIQUE over all rows.
WellFormed(rows) ==
    /\ \A r \in Repos : rows[r].status = "absent" <=> rows[r].name = NoName
    /\ \A r \in Repos : rows[r].status = "absent" <=> rows[r].source = "none"
    /\ \A r, q \in Repos :
          rows[r].status # "absent" /\ rows[r].name = rows[q].name => r = q

ASSUME DirectoryAssumption ==
    /\ NoName \notin Names
    /\ \A rows \in StartRepos : rows \in [Repos -> RepoRow] /\ WellFormed(rows)

DirTypeOK ==
    /\ activeUsers \subseteq Users
    /\ repos \in [Repos -> RepoRow]
    /\ writers \subseteq Users \X Repos

-----------------------------------------------------------------------------
\* The read side.

Exists(r) == repos[r].status # "absent"
Live(r)   == repos[r].status = "active"

\* get_by_name: the live rows called n.  `name' is UNIQUE over all rows,
\* deleted ones included, so there is at most one.
LiveNamed(n) == {r \in Repos : Live(r) /\ repos[r].name = n}

\* What can_access(u, r, "write") allows at one moment, with these rows: an
\* unknown or deleted repository is an error, and an error is never an allow.
\* The account's status is not consulted; every caller checks it separately.
Writable(rows, ws, u) ==
    {r \in Repos : rows[r].status = "active" /\ <<u, r>> \in ws}

-----------------------------------------------------------------------------
\* The administrative writes.  A write that the code refuses (a name that is
\* taken, a row that does not exist) leaves the tables as they are.

EnableUser(u) ==
    /\ u \notin activeUsers
    /\ activeUsers' = activeUsers \cup {u}
    /\ UNCHANGED <<repos, writers>>

DisableUser(u) ==
    /\ u \in activeUsers
    /\ activeUsers' = activeUsers \ {u}
    /\ UNCHANGED <<repos, writers>>

\* Any write of grants, memberships or nesting, seen through its effect; it may
\* have none yet, like a grant to a group without members.
ChangeAccess(ws) ==
    /\ writers' = ws
    /\ UNCHANGED <<activeUsers, repos>>

\* Faulty variant: a deleted row gives its name up.
NameFree_LiveOnly(r, n) ==
    \A q \in Repos \ {r} : ~(Live(q) /\ repos[q].name = n)

NameFree(r, n) == \A q \in Repos \ {r} : repos[q].name # n

\* Faulty variant: a row that loreserver created is renamed too.
UpsertManual_AnyOrigin(r, n) ==
    /\ NameFree(r, n)
    /\ repos' = [repos EXCEPT ![r] =
                    [status |-> "active", name |-> n,
                     source |-> IF Exists(r) THEN repos[r].source ELSE "manual"]]
    /\ UNCHANGED <<activeUsers, writers>>

\* upsert with a remote_url: manual registration.  It inserts, or renames and
\* revives a row of manual origin; a row that loreserver created is refused.
UpsertManual(r, n) ==
    /\ repos[r].source # "rebac"
    /\ NameFree(r, n)
    /\ repos' = [repos EXCEPT ![r] =
                    [status |-> "active", name |-> n, source |-> "manual"]]
    /\ UNCHANGED <<activeUsers, writers>>

\* upsert without a remote_url: RebacApi.CreateResource.  An existing row is
\* revived under its old name, whatever name the call carries.
CreateResource(r, n) ==
    /\ \/ /\ Exists(r)
          /\ repos' = [repos EXCEPT ![r].status = "active"]
       \/ /\ ~Exists(r)
          /\ NameFree(r, n)
          /\ repos' = [repos EXCEPT ![r] =
                          [status |-> "active", name |-> n, source |-> "rebac"]]
    /\ UNCHANGED <<activeUsers, writers>>

\* delete: the row stays, its name stays taken, its grants stay.
DeleteResource(r) ==
    /\ Exists(r)
    /\ repos' = [repos EXCEPT ![r].status = "deleted"]
    /\ UNCHANGED <<activeUsers, writers>>

DirInit ==
    /\ activeUsers \in SUBSET Users
    /\ repos \in StartRepos
    /\ writers \in SUBSET (Users \X Repos)

\* What an administrator does, in the admin UI or with lore-authctl
AdminNext ==
    \/ \E u \in Users : EnableUser(u) \/ DisableUser(u)
    \/ \E ws \in SUBSET (Users \X Repos) : ChangeAccess(ws)
    \/ \E r \in Repos, n \in Names : UpsertManual(r, n)
    \/ \E r \in Repos : DeleteResource(r)

\* What loreserver does, through the server
RebacNext ==
    \/ \E r \in Repos, n \in Names : CreateResource(r, n)
    \/ \E r \in Repos : DeleteResource(r)

-----------------------------------------------------------------------------
\* Every write keeps the table well formed, so get_by_name never has to choose
\* between two rows and a deleted row still owns its name.
DirWellFormed == WellFormed(repos)

=============================================================================
