------------------------ MODULE AccessControlProofs ------------------------
(***************************************************************************)
(* Proofs about AccessControl for every set of users, groups, repositories *)
(* and processes: no cycle of groups ever forms, and what a transaction    *)
(* has checked still holds when it commits.                                *)
(***************************************************************************)
EXTENDS AccessControl, TLAPS

-----------------------------------------------------------------------------
(* Group graphs *)

Edges == SUBSET (Groups \X Groups)

ClosedBelow(C, edges) == \A e \in edges : e[1] \in C => e[2] \in C

\* Below(S, edges) is the least closed set around S.
LEMMA BelowIsLeast ==
    ASSUME NEW edges \in Edges, NEW S \in SUBSET Groups
    PROVE  /\ Below(S, edges) \in SUBSET Groups
           /\ S \subseteq Below(S, edges)
           /\ ClosedBelow(Below(S, edges), edges)
           /\ \A C \in SUBSET Groups :
                 S \subseteq C /\ ClosedBelow(C, edges) => Below(S, edges) \subseteq C
  <1>1. Below(S, edges) \in SUBSET Groups /\ S \subseteq Below(S, edges)
    BY DEF Below
  <1>2. ASSUME NEW e \in edges, e[1] \in Below(S, edges) PROVE e[2] \in Below(S, edges)
    <2>1. e[2] \in Groups
      BY DEF Edges
    <2> SUFFICES ASSUME NEW C \in SUBSET Groups, S \subseteq C,
                        \A f \in edges : f[1] \in C => f[2] \in C
                 PROVE  e[2] \in C
      BY <2>1 DEF Below
    <2>2. e[1] \in C
      BY <1>2 DEF Below
    <2> QED
      BY <2>2
  <1>3. ASSUME NEW C \in SUBSET Groups, S \subseteq C, ClosedBelow(C, edges)
        PROVE  Below(S, edges) \subseteq C
    BY <1>3 DEF Below, ClosedBelow
  <1> QED
    BY <1>1, <1>2, <1>3 DEF ClosedBelow

\* Removing edges never creates a cycle.
LEMMA FewerEdges ==
    ASSUME NEW edges \in Edges, IsAcyclic(edges), NEW fewer \in SUBSET edges
    PROVE  IsAcyclic(fewer)
  <1> SUFFICES ASSUME NEW e \in fewer PROVE e[1] \notin Below({e[2]}, fewer)
    BY DEF IsAcyclic
  <1>1. {e[2]} \in SUBSET Groups /\ fewer \in Edges
    BY DEF Edges
  <1>2. ClosedBelow(Below({e[2]}, edges), fewer)
    BY <1>1, BelowIsLeast DEF ClosedBelow
  <1>3. Below({e[2]}, fewer) \subseteq Below({e[2]}, edges)
    BY <1>1, <1>2, BelowIsLeast
  <1> QED
    BY <1>3 DEF IsAcyclic

\* The check of add_group_group is exactly strong enough: an edge from a group
\* that is not below its new member closes no cycle, of any length.
LEMMA NewEdge ==
    ASSUME NEW edges \in Edges, IsAcyclic(edges), NEW p \in Groups, NEW m \in Groups,
           p \notin Below({m}, edges)
    PROVE  IsAcyclic(edges \cup {<<p, m>>})
  <1> DEFINE more == edges \cup {<<p, m>>}
             D(g) == Below({g}, edges)
  <1> SUFFICES ASSUME NEW e \in more PROVE e[1] \notin Below({e[2]}, more)
    BY DEF IsAcyclic
  <1>1. more \in Edges /\ e[1] \in Groups /\ e[2] \in Groups
    BY DEF Edges
  <1>2. \A g \in Groups : /\ D(g) \in SUBSET Groups /\ g \in D(g)
                          /\ ClosedBelow(D(g), edges)
    BY BelowIsLeast
  <1>3. \A C \in SUBSET Groups :
           e[2] \in C /\ ClosedBelow(C, more) => Below({e[2]}, more) \subseteq C
    BY <1>1, BelowIsLeast
  <1>4. CASE e = <<p, m>>
    <2>1. ClosedBelow(D(m), more)
      BY <1>2 DEF ClosedBelow
    <2> QED
      BY <1>2, <1>3, <1>4, <2>1
  <1>5. CASE e \in edges /\ p \notin D(e[2])
    <2>0. ClosedBelow(D(e[2]), edges)
      BY <1>1, <1>2
    <2>1. ASSUME NEW f \in more, f[1] \in D(e[2]) PROVE f[2] \in D(e[2])
      <3>1. f \in edges
        BY <1>5, <2>1
      <3> QED
        BY <2>0, <2>1, <3>1 DEF ClosedBelow
    <2>2. Below({e[2]}, more) \subseteq D(e[2])
      BY <1>1, <1>2, <1>3, <2>1 DEF ClosedBelow
    <2> QED
      BY <1>5, <2>2 DEF IsAcyclic
  <1>6. CASE e \in edges /\ p \in D(e[2])
    <2> DEFINE C == D(e[2]) \cup D(m)
    <2>1. ClosedBelow(C, more)
      BY <1>1, <1>2 DEF ClosedBelow
    <2>2. Below({e[2]}, more) \subseteq C
      BY <1>1, <1>2, <1>3, <2>1
    <2>3. e[1] \notin D(e[2])
      BY <1>6 DEF IsAcyclic
    <2>4. e[1] \notin D(m)
      <3> SUFFICES ASSUME e[1] \in D(m) PROVE FALSE
        OBVIOUS
      <3>1. e[2] \in D(m)
        BY <1>2, <1>6 DEF ClosedBelow
      <3>2. D(e[2]) \subseteq D(m)
        BY <1>1, <1>2, <3>1, BelowIsLeast
      <3> QED
        BY <1>6, <3>2
    <2> QED
      BY <2>2, <2>3, <2>4
  <1> QED
    BY <1>4, <1>5, <1>6

-----------------------------------------------------------------------------
(* The inductive invariant *)

\* At most one transaction is open: the write lock.
LockInv == \A a, b \in Actors : tx[a] # NoOp /\ tx[b] # NoOp => a = b

\* What an open transaction has checked is still true when it commits.
TxInv ==
    \A a \in Actors : tx[a] # NoOp =>
        /\ tx[a].act = "group.nest.add" =>
              tx[a].row[1] \notin Below({tx[a].row[2]}, db.nesting)
        /\ tx[a].act = "repository.add" =>
              /\ db.repos[tx[a].row[1]].source # "rebac"
              /\ NameFree(tx[a].row[1], tx[a].row[2])
        /\ tx[a].act = "repository.disable" => db.repos[tx[a].row].status # "absent"
        /\ tx[a].act \in {"grant.add", "grant.remove"} =>
              /\ db.repos[tx[a].row[2]].status # "absent"
              /\ tx[a].said = <<tx[a].row[1], db.repos[tx[a].row[2]].name, tx[a].row[3]>>

\* The schema: unique names, and no grant without its repository.
SchemaInv == NamesUnique(db.repos) /\ GrantsExist(db)

IInv == TypeOK /\ Acyclic /\ LockInv /\ TxInv /\ SchemaInv

LEMMA InitInv == Init => IInv
  <1> SUFFICES ASSUME Init PROVE IInv
    OBVIOUS
  <1> USE AccessAssumption DEF Init
  <1>1. TypeOK
    <2>1. IdleReader \in Reader
      BY DEF Reader, IdleReader
    <2>2. audit \in Seq(Entry) /\ tx \in [Actors -> Op \cup {NoOp}]
      OBVIOUS
    <2>3. db \in Tables
      OBVIOUS
    <2> QED
      BY <2>1, <2>2, <2>3 DEF TypeOK
  <1>2. Acyclic /\ LockInv /\ TxInv /\ SchemaInv
    BY DEF Acyclic, LockInv, TxInv, SchemaInv
  <1> QED
    BY <1>1, <1>2 DEF IInv

\* A transaction that begins with a checked write.
LEMMA BeginInv ==
    ASSUME IInv, NEW a \in Actors, NEW act, NEW row, NEW said, BeginNamed(a, act, row, said),
           [act |-> act, row |-> row, said |-> said] \in Op,
           act = "group.nest.add" => row[1] \notin Below({row[2]}, db.nesting),
           act = "repository.add" =>
              db.repos[row[1]].source # "rebac" /\ NameFree(row[1], row[2]),
           act = "repository.disable" => db.repos[row].status # "absent",
           act \in {"grant.add", "grant.remove"} =>
              /\ db.repos[row[2]].status # "absent"
              /\ said = <<row[1], db.repos[row[2]].name, row[3]>>
    PROVE  IInv'
  <1> DEFINE op == [act |-> act, row |-> row, said |-> said]
  <1>1. op.act = act /\ op.row = row /\ op.said = said
    OBVIOUS
  <1>2. /\ tx' = [tx EXCEPT ![a] = op] /\ \A b \in Actors : tx[b] = NoOp
        /\ UNCHANGED <<db, audit, reader, commits, base>>
    BY DEF BeginNamed, MayBegin
  <1> HIDE DEF op
  <1>3. \A b \in Actors : tx'[b] = IF b = a THEN op ELSE NoOp
    BY <1>2 DEF IInv, TypeOK
  <1>4. TypeOK'
    BY <1>2 DEF IInv, TypeOK, op
  <1>5. Acyclic' /\ LockInv' /\ SchemaInv'
    BY <1>2, <1>3 DEF IInv, Acyclic, LockInv, SchemaInv
  <1>6. TxInv'
    BY <1>1, <1>2, <1>3 DEF TxInv, NameFree
  <1> QED
    BY <1>4, <1>5, <1>6 DEF IInv

\* The writes by their kind of row
LEMMA OpKinds ==
    /\ \A g \in Groups : [act |-> "group.add", row |-> g, said |-> g] \in Op
    /\ \A g \in Groups, u \in Users :
          /\ [act |-> "group.member.add", row |-> <<g, u>>, said |-> <<g, u>>] \in Op
          /\ [act |-> "group.member.remove", row |-> <<g, u>>, said |-> <<g, u>>] \in Op
    /\ \A p, m \in Groups :
          /\ [act |-> "group.nest.add", row |-> <<p, m>>, said |-> <<p, m>>] \in Op
          /\ [act |-> "group.nest.remove", row |-> <<p, m>>, said |-> <<p, m>>] \in Op
    /\ \A s \in Subjects, r \in Repos, n \in Names, role \in Roles :
          /\ [act |-> "grant.add", row |-> <<s, r, role>>, said |-> <<s, n, role>>] \in Op
          /\ [act |-> "grant.remove", row |-> <<s, r, role>>, said |-> <<s, n, role>>] \in Op
    /\ \A u \in Users :
          /\ [act |-> "user.enable", row |-> u, said |-> u] \in Op
          /\ [act |-> "user.disable", row |-> u, said |-> u] \in Op
    /\ \A r \in Repos, n \in Names :
          [act |-> "repository.add", row |-> <<r, n>>, said |-> <<r, n>>] \in Op
    /\ \A r \in Repos : [act |-> "repository.disable", row |-> r, said |-> r] \in Op
  <1>1. \A acts, rows : \A act \in acts, row \in rows :
           [act |-> act, row |-> row, said |-> row] \in Write1(acts, rows)
    BY DEF Write1
  <1>2. ASSUME NEW s \in Subjects, NEW r \in Repos, NEW n \in Names, NEW role \in Roles,
               NEW act \in {"grant.add", "grant.remove"}
        PROVE  [act |-> act, row |-> <<s, r, role>>, said |-> <<s, n, role>>] \in Op
    BY DEF Op
  <1> QED
    BY <1>1, <1>2 DEF Op

LEMMA WriteInv ==
    ASSUME IInv, NEW a \in Actors, Write(a)
    PROVE  IInv'
  <1> USE DEF Begin
  <1>1. ASSUME NEW g \in Groups, AddGroup(a, g) PROVE IInv'
    BY <1>1, BeginInv, OpKinds DEF AddGroup
  <1>2. ASSUME NEW g \in Groups, NEW u \in Users,
               AddGroupMember(a, g, u) \/ RemoveGroupMember(a, g, u)
        PROVE  IInv'
    BY <1>2, BeginInv, OpKinds DEF AddGroupMember, RemoveGroupMember
  <1>3. ASSUME NEW p \in Groups, NEW m \in Groups, AddGroupGroup(a, p, m) PROVE IInv'
    BY <1>3, BeginInv, OpKinds DEF AddGroupGroup, WouldCycle
  <1>4. ASSUME NEW p \in Groups, NEW m \in Groups, RemoveGroupGroup(a, p, m) PROVE IInv'
    BY <1>4, BeginInv, OpKinds DEF RemoveGroupGroup
  <1>5. ASSUME NEW s \in Subjects, NEW n \in Names, NEW role \in Roles,
               AddGrant(a, s, n, role) \/ RemoveGrant(a, s, n, role)
        PROVE  IInv'
    <2>1. PICK r \in Repos, act \in {"grant.add", "grant.remove"} :
                 Named(r, n) /\ BeginNamed(a, act, <<s, r, role>>, <<s, n, role>>)
      BY <1>5 DEF AddGrant, RemoveGrant
    <2>2. db.repos[r].status # "absent" /\ db.repos[r].name = n
      BY <2>1 DEF Named, Live
    <2>3. [act |-> act, row |-> <<s, r, role>>, said |-> <<s, n, role>>] \in Op
      BY OpKinds
    <2> QED
      BY <2>1, <2>2, <2>3, BeginInv
  <1>6. ASSUME NEW u \in Users, EnableUser(a, u) \/ DisableUser(a, u) PROVE IInv'
    BY <1>6, BeginInv, OpKinds DEF EnableUser, DisableUser
  <1>7. ASSUME NEW r \in Repos, NEW n \in Names, AddRepository(a, r, n) PROVE IInv'
    BY <1>7, BeginInv, OpKinds DEF AddRepository
  <1>8. ASSUME NEW r \in Repos, DisableRepository(a, r) PROVE IInv'
    BY <1>8, BeginInv, OpKinds DEF DisableRepository
  <1> QED
    BY <1>1, <1>2, <1>3, <1>4, <1>5, <1>6, <1>7, <1>8
    DEF Write, GroupWrite, GrantWrite, AccountWrite, RepositoryWrite

\* A transaction that begins or rolls back leaves the tables, the log and the
\* check as they are.
LEMMA NothingWritten ==
    ASSUME NEW a, Write(a) \/ Rollback(a)
    PROVE  UNCHANGED <<db, audit, reader, commits, base>>
  BY DEF Write, GroupWrite, GrantWrite, AccountWrite, RepositoryWrite, Rollback,
         AddGroup, AddGroupMember, RemoveGroupMember, AddGroupGroup, RemoveGroupGroup,
         AddGrant, RemoveGrant, EnableUser, DisableUser, AddRepository, DisableRepository,
         Begin, BeginNamed

-----------------------------------------------------------------------------
(* Commits *)

\* The row of a write belongs to the table its action names.
LEMMA OpRows ==
    ASSUME NEW op \in Op
    PROVE  /\ op.act = "group.add" => op.row \in Groups
           /\ op.act \in {"group.member.add", "group.member.remove"} =>
                 op.row \in Groups \X Users
           /\ op.act \in {"group.nest.add", "group.nest.remove"} =>
                 op.row \in Groups \X Groups
           /\ op.act \in {"grant.add", "grant.remove"} =>
                 op.row \in Subjects \X Repos \X Roles
           /\ op.act \in {"user.enable", "user.disable"} => op.row \in Users
           /\ op.act = "repository.add" => op.row \in Repos \X Names
           /\ op.act = "repository.disable" => op.row \in Repos
           /\ op.act # "none"
           /\ op.act \notin {"grant.add", "grant.remove"} => op.said = op.row
  BY DEF Op, Write1

LEMMA AppliedType ==
    ASSUME NEW t \in Tables, NEW op \in Op
    PROVE  Applied(t, op) \in Tables
  <1> USE OpRows
  <1>1. Written(t.groups, op, "group.add", "none") \in SUBSET Groups
    BY DEF Written, Tables
  <1>2. Written(t.members, op, "group.member.add", "group.member.remove")
           \in SUBSET (Groups \X Users)
    BY DEF Written, Tables
  <1>3. Written(t.nesting, op, "group.nest.add", "group.nest.remove")
           \in SUBSET (Groups \X Groups)
    BY DEF Written, Tables
  <1>4. Written(t.grants, op, "grant.add", "grant.remove")
           \in SUBSET (Subjects \X Repos \X Roles)
    BY DEF Written, Tables
  <1>5. Written(t.active, op, "user.enable", "user.disable") \in SUBSET Users
    BY DEF Written, Tables
  <1>6. RepoRows(t.repos, op) \in [Repos -> RepoRow]
    <2>0. t.repos \in [Repos -> RepoRow]
      BY DEF Tables
    <2>1. CASE op.act = "repository.add"
      <3>1. op.row[1] \in Repos /\ op.row[2] \in Names
        BY <2>1
      <3> QED
        BY <2>0, <2>1, <3>1 DEF RepoRows, RepoRow
    <2>2. CASE op.act = "repository.disable"
      <3>1. op.row \in Repos
        BY <2>2
      <3> QED
        BY <2>0, <2>2, <3>1 DEF RepoRows, RepoRow
    <2>3. CASE op.act \notin {"repository.add", "repository.disable"}
      BY <2>0, <2>3 DEF RepoRows
    <2> QED
      BY <2>1, <2>2, <2>3
  <1>7. t.invited \in SUBSET Users
    BY DEF Tables
  <1> QED
    BY <1>1, <1>2, <1>3, <1>4, <1>5, <1>6, <1>7 DEF Applied, Tables

LEMMA ObserveType ==
    ASSUME IInv, NEW op, Observe(op)
    PROVE  reader' \in Reader
  <1> DEFINE b == Allowed(db', reader.user, reader.repo, reader.action)
             next == [reader EXCEPT !.truth = @ \cup {b}, !.writes = @ + 1]
  <1>1. b \in BOOLEAN
    BY DEF Allowed, Live, Granted
  <1>2. reader' = reader \/ reader' = next
    BY DEF Observe
  <1>3. reader \in Reader
    BY DEF IInv, TypeOK
  <1> HIDE DEF b
  <1>4. next \in Reader
    <2>0. reader.truth \in SUBSET BOOLEAN /\ reader.writes \in Nat
      BY <1>3 DEF Reader
    <2>1. reader.truth \cup {b} \in SUBSET BOOLEAN
      BY <1>1, <2>0, Zenon
    <2>4. reader.writes + 1 \in Nat
      BY <2>0
    <2>2. next = [reader EXCEPT !.truth = reader.truth \cup {b},
                                !.writes = reader.writes + 1]
      OBVIOUS
    <2> DEFINE T == reader.truth \cup {b}
               w == reader.writes + 1
    <2> HIDE DEF T, w
    <2>3. T \in SUBSET BOOLEAN /\ w \in Nat =>
             [reader EXCEPT !.truth = T, !.writes = w] \in Reader
      BY <1>3 DEF Reader
    <2> QED
      BY <2>1, <2>4, <2>2, <2>3 DEF T, w
  <1> HIDE DEF next
  <1> QED
    BY <1>2, <1>3, <1>4

\* A checked write keeps the schema.
LEMMA AppliedSchema ==
    ASSUME IInv, NEW a \in Actors, tx[a] \in Op, tx[a] # NoOp, db' = Applied(db, tx[a])
    PROVE  SchemaInv'
  <1> DEFINE op == tx[a]
  <1>1. /\ db.repos \in [Repos -> RepoRow] /\ db.grants \in SUBSET (Subjects \X Repos \X Roles)
        /\ NamesUnique(db.repos) /\ GrantsExist(db)
    BY DEF IInv, TypeOK, Tables, SchemaInv
  <1>2. /\ db'.repos = RepoRows(db.repos, op)
        /\ db'.grants = Written(db.grants, op, "grant.add", "grant.remove")
    BY DEF Applied
  <1>3. CASE op.act = "repository.add"
    <2>1. op.row[1] \in Repos /\ op.row[2] \in Names /\ NoName \notin Names
      BY <1>3, OpRows, AccessAssumption
    <2>2. \A q \in Repos \ {op.row[1]} : db.repos[q].name # op.row[2]
      BY <1>3 DEF IInv, TxInv, NameFree
    <2>3. /\ db'.repos = [db.repos EXCEPT ![op.row[1]] =
                            [status |-> "active", name |-> op.row[2], source |-> "manual"]]
          /\ db'.grants = db.grants
      BY <1>2, <1>3 DEF RepoRows, Written
    <2> HIDE DEF op
    <2>4. \A q \in Repos : db'.repos[q] = IF q = op.row[1]
             THEN [status |-> "active", name |-> op.row[2], source |-> "manual"]
             ELSE db.repos[q]
      BY <1>1, <2>3
    <2>5. NamesUnique(db'.repos)
      BY <1>1, <2>1, <2>2, <2>4 DEF NamesUnique
    <2>6. GrantsExist(db')
      BY <1>1, <2>3, <2>4 DEF GrantsExist
    <2> QED
      BY <2>5, <2>6 DEF SchemaInv
  <1>4. CASE op.act = "repository.disable"
    <2>1. op.row \in Repos /\ db.repos[op.row].status # "absent"
      BY <1>4, OpRows DEF IInv, TxInv
    <2>2. db'.repos = [db.repos EXCEPT ![op.row].status = "deleted"] /\ db'.grants = db.grants
      BY <1>2, <1>4 DEF RepoRows, Written
    <2> HIDE DEF op
    <2>3. \A q \in Repos : /\ db'.repos[q].name = db.repos[q].name
                           /\ db'.repos[q].status = "absent" <=> db.repos[q].status = "absent"
      BY <1>1, <2>1, <2>2 DEF RepoRow
    <2>4. NamesUnique(db'.repos) /\ GrantsExist(db')
      BY <1>1, <2>2, <2>3 DEF NamesUnique, GrantsExist
    <2> QED
      BY <2>4 DEF SchemaInv
  <1>5. CASE op.act \in {"grant.add", "grant.remove"}
    <2>1. db.repos[op.row[2]].status # "absent"
      BY <1>5 DEF IInv, TxInv
    <2>2. db'.repos = db.repos /\ \A g \in db'.grants : g \in db.grants \/ g = op.row
      BY <1>2, <1>5 DEF RepoRows, Written
    <2> QED
      BY <1>1, <2>1, <2>2 DEF SchemaInv, GrantsExist
  <1>6. CASE op.act \notin {"repository.add", "repository.disable", "grant.add", "grant.remove"}
    <2>1. db'.repos = db.repos /\ db'.grants = db.grants
      BY <1>2, <1>6 DEF RepoRows, Written
    <2> QED
      BY <1>1, <2>1 DEF SchemaInv, GrantsExist
  <1> QED
    BY <1>3, <1>4, <1>5, <1>6

LEMMA CommitInv ==
    ASSUME IInv, NEW a \in Actors, Commit(a)
    PROVE  IInv'
  <1>1. /\ tx[a] # NoOp /\ db' = Applied(db, tx[a]) /\ tx' = [tx EXCEPT ![a] = NoOp]
        /\ audit' = audit \o <<[act |-> tx[a].act, row |-> tx[a].said]>> /\ commits' = commits + 1 /\ base' = base
    BY DEF Commit, AuditRow
  <1>2. tx[a] \in Op
    BY <1>1 DEF IInv, TypeOK
  <1>3. \A b \in Actors : tx'[b] = NoOp
    BY <1>1 DEF IInv, TypeOK, LockInv
  <1>4. TypeOK'
    <2>1. db' \in Tables
      BY <1>1, <1>2, AppliedType DEF IInv, TypeOK
    <2>2. audit' \in Seq(Entry)
      <3>1. [act |-> tx[a].act, row |-> tx[a].said] \in Entry
        BY <1>2 DEF Entry
      <3> QED
        BY <1>1, <3>1 DEF IInv, TypeOK
    <2>3. reader' \in Reader
      BY ObserveType DEF Commit
    <2>4. tx' \in [Actors -> Op \cup {NoOp}] /\ commits' \in Nat /\ base' \in Tables
      BY <1>1 DEF IInv, TypeOK
    <2> QED
      BY <2>1, <2>2, <2>3, <2>4 DEF TypeOK
  <1>5. Acyclic'
    <2>1. db'.nesting = Written(db.nesting, tx[a], "group.nest.add", "group.nest.remove")
      BY <1>1 DEF Applied
    <2>2. db.nesting \in Edges /\ IsAcyclic(db.nesting)
      BY DEF IInv, TypeOK, Tables, Edges, Acyclic
    <2>3. CASE tx[a].act = "group.nest.add"
      <3>1. tx[a].row \in Groups \X Groups
        BY <1>2, <2>3, OpRows
      <3>2. tx[a].row[1] \notin Below({tx[a].row[2]}, db.nesting)
        BY <1>1, <2>3 DEF IInv, TxInv
      <3>3. IsAcyclic(db.nesting \cup {<<tx[a].row[1], tx[a].row[2]>>})
        BY <2>2, <3>1, <3>2, NewEdge
      <3> QED
        BY <2>1, <2>3, <3>1, <3>3 DEF Acyclic, Written
    <2>4. CASE tx[a].act = "group.nest.remove"
      BY <2>1, <2>2, <2>4, FewerEdges DEF Acyclic, Written
    <2>5. CASE tx[a].act \notin {"group.nest.add", "group.nest.remove"}
      BY <2>1, <2>2, <2>5 DEF Acyclic, Written
    <2> QED
      BY <2>3, <2>4, <2>5
  <1>6. LockInv' /\ TxInv'
    BY <1>3 DEF LockInv, TxInv
  <1>7. SchemaInv'
    BY <1>1, <1>2, AppliedSchema
  <1> QED
    BY <1>4, <1>5, <1>6, <1>7 DEF IInv

LEMMA RollbackInv ==
    ASSUME IInv, NEW a \in Actors, Rollback(a)
    PROVE  IInv'
  <1>1. /\ tx[a] # NoOp /\ tx' = [tx EXCEPT ![a] = NoOp]
        /\ UNCHANGED <<db, audit, reader, commits, base>>
    BY DEF Rollback
  <1>2. \A b \in Actors : tx'[b] = NoOp
    BY <1>1 DEF IInv, TypeOK, LockInv
  <1>3. TypeOK'
    BY <1>1 DEF IInv, TypeOK
  <1> QED
    BY <1>1, <1>2, <1>3 DEF IInv, Acyclic, LockInv, TxInv, SchemaInv

-----------------------------------------------------------------------------
(* RebacApi, logins and the access check *)

\* An unaudited write that keeps the schema and the nesting.
LEMMA UnauditedInv ==
    ASSUME IInv, NEW tables \in Tables, Unaudited(tables), tables.nesting = db.nesting,
           NamesUnique(tables.repos), GrantsExist(tables)
    PROVE  IInv'
  <1>1. /\ \A b \in Actors : tx[b] = NoOp
        /\ db' = tables /\ commits' = commits + 1
        /\ UNCHANGED <<audit, tx, reader, base>>
    BY DEF Unaudited, MayBegin
  <1>2. TypeOK'
    BY <1>1 DEF IInv, TypeOK
  <1>3. Acyclic' /\ SchemaInv'
    BY <1>1 DEF IInv, Acyclic, SchemaInv
  <1>4. LockInv' /\ TxInv'
    BY <1>1 DEF LockInv, TxInv
  <1> QED
    BY <1>2, <1>3, <1>4 DEF IInv

LEMMA RebacInv ==
    ASSUME IInv, NEW rows \in [Repos -> RepoRow], RebacWrite(rows), NamesUnique(rows),
           \A r \in Repos : db.repos[r].status # "absent" => rows[r].status # "absent"
    PROVE  IInv'
  <1> DEFINE tables == [db EXCEPT !.repos = rows]
  <1>1. db \in Tables /\ GrantsExist(db)
    BY DEF IInv, TypeOK, SchemaInv
  <1>2. /\ tables \in Tables /\ tables.repos = rows /\ tables.nesting = db.nesting
        /\ tables.grants = db.grants /\ db.grants \in SUBSET (Subjects \X Repos \X Roles)
    BY <1>1 DEF Tables
  <1>3. GrantsExist(tables)
    BY <1>1, <1>2 DEF GrantsExist
  <1> QED
    BY <1>2, <1>3, UnauditedInv DEF RebacWrite

LEMMA ResourceInv ==
    ASSUME IInv, NEW r \in Repos,
           \/ \E n \in Names : CreateResource(r, n)
           \/ DeleteResource(r)
    PROVE  IInv'
  <1>1. db.repos \in [Repos -> RepoRow] /\ NamesUnique(db.repos)
    BY DEF IInv, TypeOK, Tables, SchemaInv
  <1>2. ASSUME NEW status \in {"active", "deleted"}, db.repos[r].status # "absent",
               RebacWrite([db.repos EXCEPT ![r].status = status])
        PROVE  IInv'
    <2> DEFINE rows == [db.repos EXCEPT ![r].status = status]
    <2>1. /\ rows \in [Repos -> RepoRow]
          /\ \A q \in Repos : /\ rows[q].name = db.repos[q].name
                              /\ rows[q].status = "absent" <=> db.repos[q].status = "absent"
      BY <1>1, <1>2 DEF RepoRow
    <2> HIDE DEF rows
    <2>2. NamesUnique(rows)
      BY <1>1, <2>1 DEF NamesUnique
    <2>3. RebacWrite(rows)
      BY <1>2 DEF rows
    <2> QED
      BY <2>1, <2>2, <2>3, RebacInv
  <1>3. ASSUME NEW n \in Names, db.repos[r].status = "absent", NameFree(r, n),
               RebacWrite([db.repos EXCEPT ![r] =
                              [status |-> "active", name |-> n, source |-> "rebac"]])
        PROVE  IInv'
    <2> DEFINE row == [status |-> "active", name |-> n, source |-> "rebac"]
               rows == [db.repos EXCEPT ![r] = row]
    <2>1. /\ rows \in [Repos -> RepoRow] /\ n # NoName
          /\ \A q \in Repos : rows[q] = IF q = r THEN row ELSE db.repos[q]
      BY <1>1, AccessAssumption DEF RepoRow
    <2>2. row.status = "active" /\ row.name = n
      OBVIOUS
    <2> HIDE DEF rows, row
    <2>3. NamesUnique(rows)
      BY <1>1, <1>3, <2>1, <2>2 DEF NamesUnique, NameFree
    <2>4. RebacWrite(rows)
      BY <1>3 DEF rows, row
    <2>5. \A q \in Repos : db.repos[q].status # "absent" => rows[q].status # "absent"
      BY <2>1, <2>2
    <2> QED
      BY <2>1, <2>3, <2>4, <2>5, RebacInv
  <1> QED
    BY <1>2, <1>3 DEF CreateResource, DeleteResource

LEMMA LoginInv ==
    ASSUME IInv, NEW u \in Users, LoginActivates(u)
    PROVE  IInv'
  <1> DEFINE tables == [db EXCEPT !.active = @ \cup {u}, !.invited = @ \ {u}]
  <1>1. db \in Tables /\ NamesUnique(db.repos) /\ GrantsExist(db)
    BY DEF IInv, TypeOK, SchemaInv
  <1>2. /\ tables \in Tables /\ tables.repos = db.repos /\ tables.nesting = db.nesting
        /\ tables.grants = db.grants
    BY <1>1 DEF Tables
  <1>3. GrantsExist(tables)
    BY <1>1, <1>2 DEF GrantsExist
  <1> QED
    BY <1>1, <1>2, <1>3, UnauditedInv DEF LoginActivates

\* The access check changes nothing but itself.
LEMMA ReaderInv ==
    ASSUME IInv, reader' \in Reader, UNCHANGED <<db, audit, tx, commits, base>>
    PROVE  IInv'
  BY DEF IInv, TypeOK, Acyclic, LockInv, TxInv, NameFree, SchemaInv

\* What a check or a listing starts with
LEMMA StartReader ==
    ASSUME NEW pc \in {"grants", "direct"}, NEW listing \in BOOLEAN, NEW u \in Users,
           NEW r \in Repos, NEW action \in Actions, NEW candidate \in BOOLEAN,
           NEW granted \in SUBSET (Subjects \X Roles),
           StartRead(pc, listing, u, r, action, candidate, granted)
    PROVE  /\ reader' \in Reader /\ reader'.pc = pc /\ reader'.listing = listing
           /\ reader'.user = u /\ reader'.repo = r /\ reader'.action = action
           /\ reader'.candidate = candidate /\ reader'.granted = granted
           /\ reader'.truth = {Allowed(db, u, r, action)} /\ reader'.writes = 0
           /\ reader'.answer = "none"
  <1> DEFINE T == {Allowed(db, u, r, action)}
  <1>1. T \in SUBSET BOOLEAN
    <2>1. Allowed(db, u, r, action) \in BOOLEAN
      BY DEF Allowed, Live, Granted
    <2> QED
      BY <2>1, Zenon
  <1>2. reader' = [IdleReader EXCEPT
                    !.pc = pc, !.listing = listing, !.user = u, !.repo = r, !.action = action,
                    !.candidate = candidate, !.granted = granted, !.truth = T]
    BY DEF StartRead
  <1> HIDE DEF T
  <1>3. reader' = [pc |-> pc, listing |-> listing, user |-> u, repo |-> r, action |-> action,
                   candidate |-> candidate, granted |-> granted, direct |-> {},
                   answer |-> "none", truth |-> T, writes |-> 0]
    BY <1>2 DEF IdleReader
  <1>4. reader' \in Reader
    BY <1>1, <1>3 DEF Reader
  <1> QED
    BY <1>3, <1>4 DEF T

LEMMA StartInv ==
    ASSUME IInv, NEW u \in Users, NEW r \in Repos, NEW action \in Actions,
           ReadGrants(u, r, action) \/ ReadCandidates(u, r, action)
    PROVE  IInv'
  <1>1. CASE ReadGrants(u, r, action)
    <2>1. GrantTuples(db, r) \in SUBSET (Subjects \X Roles)
      BY DEF GrantTuples
    <2>2. StartRead("direct", FALSE, u, r, action, FALSE, GrantTuples(db, r))
      BY <1>1 DEF ReadGrants
    <2>3. reader' \in Reader
      BY <2>1, <2>2, StartReader
    <2> QED
      BY <2>2, <2>3, ReaderInv DEF StartRead
  <1>2. CASE ReadCandidates(u, r, action)
    <2>1. \/ StartRead("grants", TRUE, u, r, action, TRUE, {})
          \/ StartRead("grants", TRUE, u, r, action, FALSE, {})
      <3>1. (r \in Candidates(db, u)) = TRUE \/ (r \in Candidates(db, u)) = FALSE
        OBVIOUS
      <3> QED
        BY <1>2, <3>1, Zenon DEF ReadCandidates
    <2> DEFINE G == {}
    <2>2. G \in SUBSET (Subjects \X Roles)
      OBVIOUS
    <2>3. \/ StartRead("grants", TRUE, u, r, action, TRUE, G)
          \/ StartRead("grants", TRUE, u, r, action, FALSE, G)
      BY <2>1
    <2> HIDE DEF G
    <2>4. reader' \in Reader
      BY <2>2, <2>3, StartReader
    <2> QED
      BY <2>3, <2>4, ReaderInv DEF StartRead
  <1> QED
    BY <1>1, <1>2

\* The answers of a check or a listing
LEMMA AnswerTypes ==
    /\ \A u, action, granted, direct, edges :
          Decide(u, action, granted, direct, edges) \subseteq {"allow", "deny", "error"}
    /\ \A rd, edges : Listed(rd, edges) \subseteq {"allow", "deny", "error"}
  BY DEF Decide, Listed

LEMMA ReadInv ==
    ASSUME IInv, ReadCandidateGrants \/ ReadMembers \/ ReadNesting
    PROVE  IInv'
  <1>1. reader \in Reader
    BY DEF IInv, TypeOK
  <1>2. CASE ReadCandidateGrants
    <2> DEFINE G == IF Live(db, reader.repo) THEN GrantTuples(db, reader.repo) ELSE {}
    <2>1. G \in SUBSET (Subjects \X Roles)
      BY DEF GrantTuples
    <2>2. reader' = [reader EXCEPT !.pc = "direct", !.granted = G]
      BY <1>2 DEF ReadCandidateGrants
    <2> HIDE DEF G
    <2>3. reader' \in Reader
      BY <1>1, <2>1, <2>2 DEF Reader
    <2> QED
      BY <1>2, <2>3, ReaderInv DEF ReadCandidateGrants
  <1>3. CASE ReadMembers
    <2>1. DirectGroups(db, reader.user) \in SUBSET Groups
      BY DEF DirectGroups
    <2>2. reader' \in Reader
      BY <1>1, <1>3, <2>1 DEF ReadMembers, Reader
    <2> QED
      BY <1>3, <2>2, ReaderInv DEF ReadMembers
  <1>4. CASE ReadNesting
    <2>1. PICK answer \in {"allow", "deny", "error"} :
                 reader' = [reader EXCEPT !.pc = "done", !.answer = answer]
      <3> DEFINE E == MemberTuples(db, reader.user)
                 L == Listed(reader, E)
                 D == Decide(reader.user, reader.action, reader.granted, reader.direct, E)
      <3>1. \E answer \in IF reader.listing THEN L ELSE D :
               reader' = [reader EXCEPT !.pc = "done", !.answer = answer]
        BY <1>4 DEF ReadNesting
      <3>2. L \subseteq {"allow", "deny", "error"} /\ D \subseteq {"allow", "deny", "error"}
        BY AnswerTypes
      <3> HIDE DEF L, D
      <3> QED
        BY <3>1, <3>2
    <2>2. reader' \in Reader
      BY <1>1, <2>1 DEF Reader
    <2> QED
      BY <1>4, <2>2, ReaderInv DEF ReadNesting
  <1> QED
    BY <1>2, <1>3, <1>4

LEMMA NextInv == IInv /\ [Next]_vars => IInv'
  <1> SUFFICES ASSUME IInv, [Next]_vars PROVE IInv'
    OBVIOUS
  <1>1. ASSUME NEW a \in Actors, Write(a) \/ Commit(a) \/ Rollback(a) PROVE IInv'
    BY <1>1, WriteInv, CommitInv, RollbackInv
  <1>2. CASE UNCHANGED vars
    BY <1>2 DEF vars, IInv, TypeOK, Acyclic, LockInv, TxInv, NameFree, SchemaInv
  <1> QED
    BY <1>1, <1>2, ResourceInv, LoginInv, StartInv, ReadInv DEF Next

-----------------------------------------------------------------------------
(* Theorems *)

\* The invariant of the proof: types, no cycle, one writer at a time, and
\* checks that stay true until their transaction commits.
THEOREM Inductive == Spec => []IInv
  BY InitInv, NextInv, PTL DEF Spec

\* Every table, transaction and reader keeps its type.
THEOREM TypeCorrect == Spec => []TypeOK
  <1>1. IInv => TypeOK
    BY DEF IInv
  <1> QED
    BY <1>1, Inductive, PTL

\* However many administrators nest groups at the same time, through
\* add_group_group of the server and of any number of lore-authctl processes,
\* the nesting never contains a cycle.
THEOREM NoCycles == Spec => []Acyclic
  <1>1. IInv => Acyclic
    BY DEF IInv
  <1> QED
    BY <1>1, Inductive, PTL

=============================================================================
