--------------------------- MODULE AccessControl ---------------------------
(***************************************************************************)
(* Groups, nested groups, grants and the access checks computed from them, *)
(* with the audit log of administrative writes.                            *)
(*                                                                         *)
(* Two kinds of process share the SQLite file: the server, all of whose    *)
(* statements run one after the other on its single connection thread, and *)
(* lore-authctl processes.  An audited write is one IMMEDIATE transaction: *)
(* it takes the write lock, looks up and checks, writes its table and its  *)
(* audit row, and commits, or rolls back when anything fails.  Below, the  *)
(* action named for the operation is everything up to the commit, and      *)
(* Commit makes both writes visible.                                       *)
(*                                                                         *)
(* An access check of the server is three SELECTs outside any transaction, *)
(* a listing four (WAL mode: a reader never waits), so commits of          *)
(* lore-authctl may fall between them.                                     *)
(*                                                                         *)
(* A definition X_Fault is X with a plausible bug, kept beside it to show  *)
(* that a property notices; no specification uses it.                      *)
(***************************************************************************)
EXTENDS Integers, Sequences, FiniteSets, CheckInFlight

CONSTANTS
    Users, Groups, Repos, Names, NoName, StartRepos,   \* as in Directory
    Roles,        \* the roles that grants carry
    Actions,      \* the actions that access checks ask about
    Actors,       \* processes that write with an audit entry
    Server,       \* the one among them that also answers access checks
    NoOp, NoUser, NoRepo,
    MaxDepth,     \* authz-core's limit: how deep the resolver follows nested groups
    StartTables,  \* the contents the tables may have at the start
    MaxCommits    \* bound: committed writes

VARIABLES
    db,       \* the committed contents of the tables
    audit,    \* rows of admin_audit, oldest first
    tx,       \* Actors -> the write its open transaction holds, or NoOp
    reader,   \* the access check in flight on the server's connection
    commits,  \* committed writes so far
    base      \* history: the tables at the start

vars == <<db, audit, tx, reader, commits, base>>

Subjects == Users \cup Groups

RepoRow == [status : {"absent", "active", "deleted"},
            name   : Names \cup {NoName},
            source : {"none", "manual", "rebac"}]

Tables == [groups  : SUBSET Groups,
           members : SUBSET (Groups \X Users),            \* group_members
           nesting : SUBSET (Groups \X Groups),           \* <<group, member group>>
           grants  : SUBSET (Subjects \X Repos \X Roles),
           active  : SUBSET Users,                        \* status = 'active'
           invited : SUBSET Users,                        \* a pending invitation
           repos   : [Repos -> RepoRow]]

\* A write: its audit action, the row it is about, and the names that the
\* administrator typed for it.  A group's name and an account's id or address
\* stand for their row for ever; a repository's name need not.
Write1(acts, rows) == {[act |-> act, row |-> row, said |-> row] : act \in acts, row \in rows}

Op == Write1({"group.add"}, Groups)
      \cup Write1({"group.member.add", "group.member.remove"}, Groups \X Users)
      \cup Write1({"group.nest.add", "group.nest.remove"}, Groups \X Groups)
      \cup [act : {"grant.add", "grant.remove"}, row : Subjects \X Repos \X Roles,
            said : Subjects \X Names \X Roles]
      \cup Write1({"user.enable", "user.disable"}, Users)
      \cup Write1({"repository.add"}, Repos \X Names)
      \cup Write1({"repository.disable"}, Repos)

\* A row of admin_audit
Entry == {[act |-> op.act, row |-> op.said] : op \in Op}

-----------------------------------------------------------------------------
(* Group graphs *)

\* WITH RECURSIVE ... UNION: the least set that holds S and, with the member
\* of an edge, its parent; and the same downwards.
Above(S, edges) ==
    {g \in Groups : \A C \in SUBSET Groups :
        S \subseteq C /\ (\A e \in edges : e[2] \in C => e[1] \in C) => g \in C}

Below(S, edges) ==
    {g \in Groups : \A C \in SUBSET Groups :
        S \subseteq C /\ (\A e \in edges : e[1] \in C => e[2] \in C) => g \in C}

\* group_group_would_cycle_tx
WouldCycle(p, m) == p \in Below({m}, db.nesting)

IsAcyclic(edges) == \A e \in edges : e[1] \notin Below({e[2]}, edges)

\* What the schema says of the names of repositories and of grants
NamesUnique(rows) ==
    /\ \A r \in Repos : rows[r].status = "absent" <=> rows[r].name = NoName
    /\ \A r, q \in Repos :
          rows[r].status # "absent" /\ rows[r].name = rows[q].name => r = q

GrantsExist(t) == \A g \in t.grants : t.repos[g[2]].status # "absent"

ASSUME AccessAssumption ==
    /\ Server \in Actors
    /\ NoOp \notin Op
    /\ MaxCommits \in Nat /\ MaxDepth \in Nat
    /\ NoName \notin Names /\ NoUser \notin Users /\ NoRepo \notin Repos
    /\ Users \cap Groups = {}
    /\ Roles \subseteq {"reader", "writer", "admin"}
    /\ Actions \subseteq {"read", "write", "admin"}
    /\ \A t \in StartTables :
          /\ t \in Tables
          /\ t.repos \in StartRepos /\ NamesUnique(t.repos) /\ GrantsExist(t)
          /\ t.nesting \subseteq t.groups \X t.groups /\ IsAcyclic(t.nesting)

-----------------------------------------------------------------------------
(* Access, as the code computes it from tables t *)

\* can_access: the relations that allow an action, in the order of the checks
Relations(action) ==
    CASE action = "read"  -> <<"reader", "writer", "admin">>
      [] action = "write" -> <<"writer", "admin">>
      [] OTHER            -> <<"admin">>

Live(t, r) == t.repos[r].status = "active"

\* The SELECTs of a snapshot.
GrantTuples(t, r) ==
    {g \in Subjects \X Roles : <<g[1], r, g[2]>> \in t.grants}

DirectGroups(t, u) == {g \in Groups : <<g, u>> \in t.members}

MemberTuples(t, u) ==
    {e \in t.nesting : e[2] \in Above(DirectGroups(t, u), t.nesting)}

\* What SnapshotTupleReader answers the resolver: is the user himself granted
\* the role, and which groups are?
UserTuple(u, role, granted) == <<u, role>> \in granted

UsersetTuples(role, granted) == {g \in Groups : <<g, role>> \in granted}

\* The resolver of authz-core follows the nesting down from the granted groups:
\* the least set of groups with their depth, up to the limit.
Visited(S, edges) ==
    {v \in Groups \X (0 .. MaxDepth) :
        \A D \in SUBSET (Groups \X (0 .. MaxDepth)) :
            /\ \A g \in S : <<g, 0>> \in D
            /\ \A e \in edges, k \in 0 .. MaxDepth :
                  k < MaxDepth /\ <<e[1], k>> \in D => <<e[2], k + 1>> \in D
            => v \in D}

Found(u, role, granted, direct, edges) ==
    \/ UserTuple(u, role, granted)
    \/ \E v \in Visited(UsersetTuples(role, granted), edges) : v[1] \in direct

\* "max recursion depth exceeded": there is a group below the last level.
GivesUp(role, granted, edges) ==
    \E v \in Visited(UsersetTuples(role, granted), edges), e \in edges :
        v[2] = MaxDepth /\ v[1] = e[1]

\* resolve_check: `granted' are the resource's grant tuples, `direct' and `edges'
\* the membership tuples of the snapshot.  Of a way that leads to the user and
\* one that is too deep, either may be met first.
Resolve(u, role, granted, direct, edges) ==
    {o \in {"allow", "deny", "error"} :
        LET found == Found(u, role, granted, direct, edges)
            deep  == GivesUp(role, granted, edges)
        IN  CASE o = "allow" -> found
              [] o = "error" -> deep
              [] o = "deny"  -> ~found /\ ~deep}

\* check_any_relation_with_resolver: the first relation that is not denied
Decide(u, action, granted, direct, edges) ==
    LET Answers(i) == Resolve(u, Relations(action)[i], granted, direct, edges)
        Denied(i) == Answers(i) = {"deny"}
    IN  {o \in {"allow", "error"} : \E i \in DOMAIN Relations(action) :
            o \in Answers(i) /\ \A j \in 1 .. i - 1 : Denied(j)}
        \cup {o \in {"deny"} : \A i \in DOMAIN Relations(action) : Denied(i)}

\* can_access when nothing happens between the SELECTs: the possible answers.
\* An unknown or deleted repository is NotFound.
CanAccess(t, u, r, action) ==
    IF Live(t, r)
    THEN Decide(u, action, GrantTuples(t, r), DirectGroups(t, u), MemberTuples(t, u))
    ELSE {"error"}

\* Faulty variant: the nested groups are forgotten.
Candidates_DirectOnly(t, u) ==
    {r \in Repos : Live(t, r) /\ \E g \in GrantTuples(t, r) :
                       g[1] \in {u} \cup DirectGroups(t, u)}

\* candidate_resource_ids_conn
Candidates(t, u) ==
    {r \in Repos : Live(t, r) /\ \E g \in GrantTuples(t, r) :
                       g[1] \in {u} \cup Above(DirectGroups(t, u), t.nesting)}

\* resource_permissions_with_resolver, by the answers on admin, reader and writer;
\* an error ends the whole listing
PermissionsBy(admin, read, write) ==
    IF admin = "allow" THEN {"read", "write", "admin"}
    ELSE IF "error" \in {admin, read, write} THEN {"error"}
    ELSE {p \in {"read", "write"} : write = "allow" \/ (p = "read" /\ read = "allow")}

Permissions(u, granted, direct, edges) ==
    LET Answers(role) == Resolve(u, role, granted, direct, edges)
    IN  {PermissionsBy(admin, read, write) :
            admin \in Answers("admin"), read \in Answers("reader"),
            write \in Answers("writer")}

\* What list_accessible may say of r when nothing happens between the SELECTs
ListAccessible(t, u, r) ==
    IF r \in Candidates(t, u)
    THEN Permissions(u, GrantTuples(t, r), DirectGroups(t, u), MemberTuples(t, u))
    ELSE {{}}

\* grants_for_user_on_repository: what the simulator shows as evidence
Evidence(t, u, r) ==
    {g \in GrantTuples(t, r) :
        Live(t, r) /\ g[1] \in {u} \cup Above(DirectGroups(t, u), t.nesting)}

\* group_paths_conn: breadth first from the user's own groups along the nesting,
\* among the reachable groups only, each visited once: the groups that get a
\* path to be shown
PathGroups(t, u, reachable) ==
    Above(DirectGroups(t, u) \cap reachable, {e \in t.nesting : e[1] \in reachable})

\* Role::permissions
RolePermissions(role) ==
    CASE role = "reader" -> {"read"}
      [] role = "writer" -> {"read", "write"}
      [] role = "admin"  -> {"read", "write", "admin"}

\* The reference, which none of the computations uses: a user is a member of a
\* group through any group below it, and a grant to him or to a group of his
\* gives its role's permissions.
TransitiveMember(t, u, g) == \E h \in Below({g}, t.nesting) : <<h, u>> \in t.members

Granted(t, u, r, action) ==
    \E s \in Subjects, role \in Roles :
        /\ <<s, r, role>> \in t.grants
        /\ action \in RolePermissions(role)
        /\ s = u \/ (s \in Groups /\ TransitiveMember(t, u, s))

Allowed(t, u, r, action) == Live(t, r) /\ Granted(t, u, r, action)

-----------------------------------------------------------------------------
(* The effect of a write *)

Written(rows, op, insert, delete) ==
    IF op.act = insert THEN rows \cup {op.row}
    ELSE IF op.act = delete THEN rows \ {op.row} ELSE rows

RepoRows(rows, op) ==
    CASE op.act = "repository.add" ->
            [rows EXCEPT ![op.row[1]] =
                [status |-> "active", name |-> op.row[2], source |-> "manual"]]
      [] op.act = "repository.disable" -> [rows EXCEPT ![op.row].status = "deleted"]
      [] OTHER -> rows

Applied(t, op) ==
    [groups  |-> Written(t.groups, op, "group.add", "none"),
     members |-> Written(t.members, op, "group.member.add", "group.member.remove"),
     nesting |-> Written(t.nesting, op, "group.nest.add", "group.nest.remove"),
     grants  |-> Written(t.grants, op, "grant.add", "grant.remove"),
     active  |-> Written(t.active, op, "user.enable", "user.disable"),
     invited |-> t.invited,
     repos   |-> RepoRows(t.repos, op)]

-----------------------------------------------------------------------------
(* Write transactions *)

\* An access check or a listing is between its SELECTs.
Reading == reader.pc \in {"grants", "direct", "edges"}

\* Faulty variant: the checks run before the transaction takes the lock.
MayBegin_NoLock(a) == tx[a] = NoOp

\* transaction_with_behavior(Immediate): one writer at a time.  The server's
\* connection thread also finishes an access check before it begins.
MayBegin(a) ==
    /\ \A b \in Actors : tx[b] = NoOp
    /\ a = Server => ~Reading

\* `said' is what the administrator typed.
BeginNamed(a, act, row, said) ==
    /\ MayBegin(a)
    /\ commits < MaxCommits
    /\ tx' = [tx EXCEPT ![a] = [act |-> act, row |-> row, said |-> said]]
    /\ UNCHANGED <<db, audit, reader, commits, base>>

Begin(a, act, row) == BeginNamed(a, act, row, row)

AddGroup(a, g) ==
    /\ g \notin db.groups
    /\ Begin(a, "group.add", g)

\* INSERT OR IGNORE: adding a member twice is audited twice.
AddGroupMember(a, g, u) ==
    /\ g \in db.groups
    /\ Begin(a, "group.member.add", <<g, u>>)

RemoveGroupMember(a, g, u) ==
    /\ <<g, u>> \in db.members
    /\ Begin(a, "group.member.remove", <<g, u>>)

\* An edge that exists already is neither inserted nor audited.
AddGroupGroup(a, p, m) ==
    /\ {p, m} \subseteq db.groups
    /\ p # m
    /\ <<p, m>> \notin db.nesting
    /\ ~WouldCycle(p, m)
    /\ Begin(a, "group.nest.add", <<p, m>>)

RemoveGroupGroup(a, p, m) ==
    /\ <<p, m>> \in db.nesting
    /\ Begin(a, "group.nest.remove", <<p, m>>)

\* repository_id_by_name_conn: the live repositories, by name
Named(r, n) == Live(db, r) /\ db.repos[r].name = n

\* resolve_grant_subject_id_conn: any account, or a group
KnownSubject(s) == s \in Users \cup db.groups

\* Faulty variant: the name is stored where the row id belongs.
AddGrant_ByName(a, s, n, role) ==
    \E r \in Repos :
        /\ Named(r, n) /\ KnownSubject(s)
        /\ <<s, n, role>> \notin db.grants
        /\ BeginNamed(a, "grant.add", <<s, n, role>>, <<s, n, role>>)

\* Grants name their repository by its name, among the live ones; the same
\* grant twice violates a UNIQUE constraint.
AddGrant(a, s, n, role) ==
    \E r \in Repos :
        /\ Named(r, n) /\ KnownSubject(s)
        /\ <<s, r, role>> \notin db.grants
        /\ BeginNamed(a, "grant.add", <<s, r, role>>, <<s, n, role>>)

RemoveGrant(a, s, n, role) ==
    \E r \in Repos :
        /\ Named(r, n) /\ KnownSubject(s)
        /\ <<s, r, role>> \in db.grants
        /\ BeginNamed(a, "grant.remove", <<s, r, role>>, <<s, n, role>>)

\* Both UPDATEs match whatever the status was.
EnableUser(a, u)  == Begin(a, "user.enable", u)
DisableUser(a, u) == Begin(a, "user.disable", u)

NameFree(r, n) == \A q \in Repos \ {r} : db.repos[q].name # n

\* Faulty variant: the origin of the row is not looked at.
AddRepository_AnyOrigin(a, r, n) ==
    /\ NameFree(r, n)
    /\ Begin(a, "repository.add", <<r, n>>)

\* upsert with a remote_url
AddRepository(a, r, n) ==
    /\ db.repos[r].source # "rebac"
    /\ NameFree(r, n)
    /\ Begin(a, "repository.add", <<r, n>>)

DisableRepository(a, r) ==
    /\ db.repos[r].status # "absent"
    /\ Begin(a, "repository.disable", r)

\* The check in flight notes what is right after the write; it does not read
\* accounts.
Observe(op) ==
    reader' = IF ~Reading \/ op.act \in {"user.enable", "user.disable"} THEN reader
              ELSE [reader EXCEPT
                      !.truth = @ \cup {Allowed(db', reader.user, reader.repo, reader.action)},
                      !.writes = @ + 1]

\* Faulty variant: removing a nesting edge leaves no trace.
AuditRow_Forgets(op) ==
    IF op.act = "group.nest.remove" THEN <<>> ELSE <<[act |-> op.act, row |-> op.said]>>

\* insert_admin_audit_conn: the names as they were typed
AuditRow(op) == <<[act |-> op.act, row |-> op.said]>>

Commit(a) ==
    /\ tx[a] # NoOp
    /\ db' = Applied(db, tx[a])
    /\ audit' = audit \o AuditRow(tx[a])
    /\ tx' = [tx EXCEPT ![a] = NoOp]
    /\ commits' = commits + 1
    /\ Observe(tx[a])
    /\ UNCHANGED base

\* A constraint or the audit INSERT fails, or the process dies.
Rollback(a) ==
    /\ tx[a] # NoOp
    /\ tx' = [tx EXCEPT ![a] = NoOp]
    /\ UNCHANGED <<db, audit, reader, commits, base>>

-----------------------------------------------------------------------------
(* Writes of the server through the plain store, which write no audit row:  *)
(* RebacApi, with which loreserver registers and removes repositories, and   *)
(* logins                                                                    *)

Unaudited(tables) ==
    /\ MayBegin(Server)
    /\ commits < MaxCommits
    /\ db' = tables
    /\ commits' = commits + 1
    /\ UNCHANGED <<audit, tx, reader, base>>

RebacWrite(rows) == Unaudited([db EXCEPT !.repos = rows])

CreateResource(r, n) ==
    \/ /\ db.repos[r].status # "absent"
       /\ RebacWrite([db.repos EXCEPT ![r].status = "active"])
    \/ /\ db.repos[r].status = "absent"
       /\ NameFree(r, n)
       /\ RebacWrite([db.repos EXCEPT ![r] =
                         [status |-> "active", name |-> n, source |-> "rebac"]])

DeleteResource(r) ==
    /\ db.repos[r].status # "absent"
    /\ RebacWrite([db.repos EXCEPT ![r].status = "deleted"])

\* resolve_login: the first login of an invited account makes it active,
\* whatever its status was, and writes no audit row either.
LoginActivates(u) ==
    /\ u \in db.invited
    /\ Unaudited([db EXCEPT !.active = @ \cup {u}, !.invited = @ \ {u}])

-----------------------------------------------------------------------------
(* can_access and list_accessible on the server; of a listing, what it says *)
(* of one repository and one action                                          *)

Reader == [pc        : {"idle", "grants", "direct", "edges", "done"},
           listing   : BOOLEAN,
           user      : Users \cup {NoUser},
           repo      : Repos \cup {NoRepo},
           action    : Actions \cup {"none"},
           candidate : BOOLEAN,           \* of a listing
           granted   : SUBSET (Subjects \X Roles),
           direct    : SUBSET Groups,
           answer    : {"none", "allow", "deny", "error"},
           truth     : SUBSET BOOLEAN,    \* history: was access allowed, at the moments so far?
           writes    : Nat]               \* history: commits since the first SELECT

IdleReader == [pc |-> "idle", listing |-> FALSE, user |-> NoUser, repo |-> NoRepo,
               action |-> "none", candidate |-> FALSE, granted |-> {}, direct |-> {},
               answer |-> "none", truth |-> {}, writes |-> 0]

StartRead(pc, listing, u, r, action, candidate, granted) ==
    /\ tx[Server] = NoOp /\ ~Reading
    /\ reader' = [IdleReader EXCEPT
                    !.pc = pc, !.listing = listing, !.user = u, !.repo = r, !.action = action,
                    !.candidate = candidate, !.granted = granted,
                    !.truth = {Allowed(db, u, r, action)}]
    /\ UNCHANGED <<db, audit, tx, commits, base>>

\* Faulty variant: the tuples of the previous check are reused.
ReadGrants_Cached(u, r, action) ==
    /\ Live(db, r)
    /\ StartRead("direct", FALSE, u, r, action, FALSE,
                 IF reader.repo = r THEN reader.granted ELSE GrantTuples(db, r))

\* An unknown or deleted repository ends the check with NotFound.
ReadGrants(u, r, action) ==
    /\ Live(db, r)
    /\ StartRead("direct", FALSE, u, r, action, FALSE, GrantTuples(db, r))

ReadCandidates(u, r, action) ==
    StartRead("grants", TRUE, u, r, action, r \in Candidates(db, u), {})

\* read_candidate_grant_tuples_conn: live repositories only
ReadCandidateGrants ==
    /\ reader.pc = "grants"
    /\ reader' = [reader EXCEPT
                    !.pc = "direct",
                    !.granted = IF Live(db, reader.repo) THEN GrantTuples(db, reader.repo)
                                ELSE {}]
    /\ UNCHANGED <<db, audit, tx, commits, base>>

ReadMembers ==
    /\ reader.pc = "direct"
    /\ reader' = [reader EXCEPT !.pc = "edges",
                                !.direct = DirectGroups(db, reader.user)]
    /\ UNCHANGED <<db, audit, tx, commits, base>>

\* The answers of a listing.  It also ends in an error when the resolver gives
\* up on another repository.
Listed(rd, edges) ==
    {"error"} \cup
    IF ~rd.candidate THEN {"deny"}
    ELSE {IF rd.action \in permissions THEN "allow"
          ELSE IF "error" \in permissions THEN "error" ELSE "deny" :
             permissions \in Permissions(rd.user, rd.granted, rd.direct, edges)}

ReadNesting ==
    /\ reader.pc = "edges"
    /\ LET edges == MemberTuples(db, reader.user)
       IN  \E answer \in IF reader.listing THEN Listed(reader, edges)
                         ELSE Decide(reader.user, reader.action, reader.granted,
                                     reader.direct, edges) :
              reader' = [reader EXCEPT !.pc = "done", !.answer = answer]
    /\ UNCHANGED <<db, audit, tx, commits, base>>

-----------------------------------------------------------------------------
Init ==
    /\ db \in StartTables
    /\ audit = <<>>
    /\ tx = [a \in Actors |-> NoOp]
    /\ reader = IdleReader
    /\ commits = 0
    /\ base = db

\* What the admin UI and lore-authctl offer
GroupWrite(a) ==
    \/ \E g \in Groups : AddGroup(a, g)
    \/ \E g \in Groups, u \in Users : AddGroupMember(a, g, u) \/ RemoveGroupMember(a, g, u)
    \/ \E p, m \in Groups : AddGroupGroup(a, p, m) \/ RemoveGroupGroup(a, p, m)

GrantWrite(a) ==
    \E s \in Subjects, n \in Names, role \in Roles :
        AddGrant(a, s, n, role) \/ RemoveGrant(a, s, n, role)

AccountWrite(a) == \E u \in Users : EnableUser(a, u) \/ DisableUser(a, u)

RepositoryWrite(a) ==
    \/ \E r \in Repos, n \in Names : AddRepository(a, r, n)
    \/ \E r \in Repos : DisableRepository(a, r)

Write(a) == GroupWrite(a) \/ GrantWrite(a) \/ AccountWrite(a) \/ RepositoryWrite(a)

Next ==
    \/ \E a \in Actors : Write(a) \/ Commit(a) \/ Rollback(a)
    \/ \E r \in Repos, n \in Names : CreateResource(r, n)
    \/ \E r \in Repos : DeleteResource(r)
    \/ \E u \in Users : LoginActivates(u)
    \/ \E u \in Users, r \in Repos, action \in Actions :
          ReadGrants(u, r, action) \/ ReadCandidates(u, r, action)
    \/ ReadCandidateGrants
    \/ ReadMembers
    \/ ReadNesting

Spec == Init /\ [][Next]_vars

-----------------------------------------------------------------------------
(* Properties *)

TypeOK ==
    /\ db \in Tables
    /\ audit \in Seq(Entry)
    /\ tx \in [Actors -> Op \cup {NoOp}]
    /\ reader \in Reader
    /\ commits \in Nat
    /\ base \in Tables

\* authctl.md: "Cycles and self-membership are rejected", whichever of the
\* admin UI and several lore-authctl processes nest groups at the same time.
Acyclic == IsAcyclic(db.nesting)

\* What a reader of the audit log concludes about a table: a row is there when
\* it was there at the start or was inserted, and no later entry deletes it.
Replay(log, start, insert, delete) ==
    LET Deleted(row, after) ==
            \E i \in DOMAIN log : i > after /\ log[i].act = delete /\ log[i].row = row
        Inserts == {i \in DOMAIN log : log[i].act = insert}
    IN  {row \in start : ~Deleted(row, 0)}
        \cup {log[i].row : i \in {j \in Inserts : ~Deleted(log[j].row, j)}}

\* The grants as the log speaks of them, by the repository's name
GrantsByName(t) == {<<g[1], t.repos[g[2]].name, g[3]>> : g \in t.grants}

\* Does the log show that a repository's name changed?
RenameLogged ==
    \E i \in DOMAIN audit :
        /\ audit[i].act = "repository.add"
        /\ \/ base.repos[audit[i].row[1]].name \notin {NoName, audit[i].row[2]}
           \/ \E j \in DOMAIN audit :
                 /\ audit[j].act = "repository.add"
                 /\ audit[j].row[1] = audit[i].row[1]
                 /\ audit[j].row[2] # audit[i].row[2]

\* What the audit log, with the tables of the start, tells of the tables of now,
\* whatever was refused, rolled back or done twice: groups, memberships and
\* nesting exactly; the grants as long as it shows no repository renamed, since it
\* holds the names that were typed; of the accounts, which are active, except for
\* those that took up their invitation, which no entry tells.
AuditTellsAll ==
    /\ db.groups  = Replay(audit, base.groups, "group.add", "none")
    /\ db.members = Replay(audit, base.members, "group.member.add", "group.member.remove")
    /\ db.nesting = Replay(audit, base.nesting, "group.nest.add", "group.nest.remove")
    /\ \/ RenameLogged
       \/ GrantsByName(db) = Replay(audit, GrantsByName(base), "grant.add", "grant.remove")
    /\ LET told == Replay(audit, base.active, "user.enable", "user.disable")
       IN  told \subseteq db.active /\ db.active \ told \subseteq base.invited \ db.invited

\* The three ways in which the code computes access (the check before a token
\* is signed, the listing, the simulator's evidence) agree with each other and
\* with the definition of membership, on every content the tables can have: who
\* has no access is denied, and who has it is allowed, unless the nesting is too
\* deep for the resolver, which then ends the check or the listing in an error
\* while the evidence still shows the grant.  The simulator has a path to show
\* for every group in its evidence.
AccessAgrees ==
    \A u \in Users, r \in Repos, action \in {"read", "write", "admin"} :
        LET allowed == Allowed(db, u, r, action)
            answers == CanAccess(db, u, r, action)
        IN  /\ "allow" \in answers => allowed
            /\ "deny" \in answers <=> Live(db, r) /\ ~allowed
            /\ "error" \in answers => allowed \/ ~Live(db, r)
            /\ \A permissions \in ListAccessible(db, u, r) :
                  IF "error" \in permissions THEN Allowed(db, u, r, "read")
                  ELSE action \in permissions <=> allowed
            /\ (\E g \in Evidence(db, u, r) : action \in RolePermissions(g[2])) <=> allowed
            /\ \A g \in Evidence(db, u, r) :
                  g[1] \in {u} \cup PathGroups(db, u, Above(DirectGroups(db, u), db.nesting))

\* An answer that an access check or a listing gives, and that is not an error,
\* was right at some moment of it.
RightOnce == /\ reader.answer = "allow" => TRUE \in reader.truth
             /\ reader.answer = "deny" => FALSE \in reader.truth

\* While at most one write commits between the SELECTs of a check or a listing,
\* its answer is the right one for some moment of that very check: nothing is
\* carried over from an earlier check, and one torn table does no harm.
OneWriteHarmless == reader.pc = "done" /\ reader.writes <= 1 => RightOnce

\* DirectoryCheck, as the flows of the server see it.
WritersOf(t) == {w \in Users \X Repos : Granted(t, w[1], w[2], "write")}

\* Checks and listings for "write" are what the flows ask for.
checkBar ==
    IF reader.action = "write" /\ Reading
    THEN [user |-> reader.user, repo |-> reader.repo, answer |-> "none",
          run |-> [ever    |-> {r \in {reader.repo} : TRUE \in reader.truth},
                   always  |-> {r \in {reader.repo} : FALSE \notin reader.truth},
                   commits |-> reader.writes]]
    ELSE [user |-> NoUser, repo |-> NoRepo, run |-> NoCheck,
          answer |-> IF reader.action = "write" THEN reader.answer ELSE "none"]

Dir == INSTANCE DirectoryCheck WITH
           activeUsers <- db.active, repos <- db.repos, writers <- WritersOf(db),
           check <- checkBar

\* Every committed write is a write of Directory, and every check or listing is
\* one of CheckInFlight: grants of a deleted repository, nested groups and
\* disabled accounts have no other effect on who may write, and commits
\* between the SELECTs no other effect on the answer, than the one shown there.
ImplementsDirectory == Dir!CheckedSpec

\* authz.rs: "Per-operation immutable tuple snapshot for ReBAC checks": an
\* answer is right for some moment of the check.
SnapshotIsAMoment == reader.pc = "done" => RightOnce

=============================================================================
