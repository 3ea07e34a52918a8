--------------------------- MODULE AuditLogProofs ---------------------------
(***************************************************************************)
(* The audit log of AccessControl tells the tables, for every number of    *)
(* processes and of writes.                                                *)
(***************************************************************************)
EXTENDS AccessControlProofs

\* One more entry in the log has the effect of the write that it names.
LEMMA ReplayNext ==
    ASSUME NEW log \in Seq(Entry), NEW e \in Entry, NEW start, NEW insert, NEW delete,
           insert # delete
    PROVE  Replay(log \o <<e>>, start, insert, delete)
              = Written(Replay(log, start, insert, delete), e, insert, delete)
  <1> DEFINE n == Len(log)
             more == log \o <<e>>
             Del(row, after) == \E i \in 1 .. n : i > after /\ log[i].act = delete
                                                    /\ log[i].row = row
             DelM(row, after) == \E i \in 1 .. n + 1 : i > after /\ more[i].act = delete
                                                          /\ more[i].row = row
             last(row) == e.act = delete /\ e.row = row
  <1>1. /\ n \in Nat /\ DOMAIN log = 1 .. n /\ DOMAIN more = 1 .. n + 1
        /\ \A i \in 1 .. n : more[i] = log[i]
        /\ more[n + 1] = e
    OBVIOUS
  <1> HIDE DEF n, more
  <1>2. \A row : \A after \in 0 .. n : DelM(row, after) <=> Del(row, after) \/ last(row)
    <2> SUFFICES ASSUME NEW row, NEW after \in 0 .. n
                 PROVE  DelM(row, after) <=> Del(row, after) \/ last(row)
      OBVIOUS
    <2>1. \A i : i \in 1 .. n + 1 <=> i \in 1 .. n \/ i = n + 1
      BY <1>1
    <2>2. n + 1 > after
      BY <1>1
    <2> QED
      BY <1>1, <2>1, <2>2
  <1>3. \A row : ~DelM(row, n + 1)
    BY <1>1
  <1> DEFINE R(row) == \/ row \in start /\ ~Del(row, 0)
                       \/ \E j \in 1 .. n : log[j].act = insert /\ row = log[j].row
                                              /\ ~Del(row, j)
             RM(row) == \/ row \in start /\ ~DelM(row, 0)
                        \/ \E j \in 1 .. n + 1 : more[j].act = insert /\ row = more[j].row
                                                   /\ ~DelM(row, j)
  <1>4. \A row : row \in Replay(log, start, insert, delete) <=> R(row)
    BY <1>1 DEF Replay
  <1>5. \A row : row \in Replay(more, start, insert, delete) <=> RM(row)
    BY <1>1 DEF Replay
  <1>6. \A row : RM(row) <=> \/ R(row) /\ ~last(row)
                             \/ e.act = insert /\ row = e.row
    <2> SUFFICES ASSUME NEW row
                 PROVE  RM(row) <=> \/ R(row) /\ ~last(row)
                                    \/ e.act = insert /\ row = e.row
      OBVIOUS
    <2>1. DelM(row, 0) <=> Del(row, 0) \/ last(row)
      BY <1>1, <1>2
    <2>2. \A j \in 1 .. n : DelM(row, j) <=> Del(row, j) \/ last(row)
      BY <1>1, <1>2
    <2>3. ~DelM(row, n + 1)
      BY <1>3
    <2>4. \A i : i \in 1 .. n + 1 <=> i \in 1 .. n \/ i = n + 1
      BY <1>1
    <2> HIDE DEF Del, DelM, last
    <2> QED
      BY <1>1, <2>1, <2>2, <2>3, <2>4
  <1> HIDE DEF R, RM
  <1>7. \A row : row \in Replay(more, start, insert, delete)
                    <=> row \in Written(Replay(log, start, insert, delete), e, insert, delete)
    BY <1>4, <1>5, <1>6 DEF Written
  <1> QED
    BY <1>7 DEF more

-----------------------------------------------------------------------------
(* Names *)

Added(log, r, n) ==
    \E i \in DOMAIN log : log[i].act = "repository.add" /\ log[i].row = <<r, n>>

\* RenameLogged, of any log and any start
Renamed(log, start) ==
    \E i \in DOMAIN log :
        /\ log[i].act = "repository.add"
        /\ \/ start.repos[log[i].row[1]].name \notin {NoName, log[i].row[2]}
           \/ \E j \in DOMAIN log :
                 /\ log[j].act = "repository.add"
                 /\ log[j].row[1] = log[i].row[1]
                 /\ log[j].row[2] # log[i].row[2]

\* Where the name of a repository comes from, while the log shows no renaming:
\* from the tables of the start, from an entry of the log, or from loreserver.
NameInv ==
    \/ RenameLogged
    \/ \A r \in Repos : db.repos[r].status # "absent" =>
          \/ base.repos[r].name # NoName /\ db.repos[r].name = base.repos[r].name
          \/ base.repos[r].name = NoName /\ Added(audit, r, db.repos[r].name)
          \/ base.repos[r].name = NoName /\ db.repos[r].source = "rebac"

\* Repositories are never removed, invitations never added.
BaseInv ==
    /\ \A r \in Repos : base.repos[r].name # NoName => db.repos[r].status # "absent"
    /\ db.invited \subseteq base.invited

AuditInv == NameInv /\ BaseInv /\ AuditTellsAll

\* The log and the tables agree at the start.
LEMMA AuditInit == Init => AuditInv
  <1> SUFFICES ASSUME Init PROVE AuditInv
    OBVIOUS
  <1>1. audit = <<>> /\ base = db /\ NamesUnique(db.repos)
    BY AccessAssumption DEF Init
  <1>2. \A start, insert, delete : Replay(audit, start, insert, delete) = start
    BY <1>1 DEF Replay
  <1>3. AuditTellsAll
    BY <1>1, <1>2 DEF AuditTellsAll
  <1>4. NameInv /\ BaseInv
    BY <1>1 DEF NameInv, BaseInv, NamesUnique
  <1> QED
    BY <1>3, <1>4 DEF AuditInv

\* One more entry in the log: a renaming it showed it still shows, and it shows
\* one if the entry gives a repository another name than the log or the start did.
LEMMA OneMoreEntry ==
    ASSUME audit \in Seq(Entry), NEW e \in Entry, audit' = audit \o <<e>>, base' = base
    PROVE  /\ RenameLogged => RenameLogged'
           /\ \A r, n : Added(audit, r, n) => Added(audit', r, n)
           /\ \A r, n : e.act = "repository.add" /\ e.row = <<r, n>> /\ ~RenameLogged' =>
                 /\ Added(audit', r, n)
                 /\ base.repos[r].name \in {NoName, n}
                 /\ \A m : Added(audit, r, m) => m = n
  <1> DEFINE k == Len(audit)
  <1>1. /\ k \in Nat /\ DOMAIN audit = 1 .. k /\ DOMAIN audit' = 1 .. k + 1
        /\ \A i \in 1 .. k : audit'[i] = audit[i]
        /\ audit'[k + 1] = e
    OBVIOUS
  <1> HIDE DEF k
  <1>2. \A i \in DOMAIN audit : i \in DOMAIN audit' /\ audit'[i] = audit[i]
    BY <1>1
  <1>3. k + 1 \in DOMAIN audit'
    BY <1>1
  <1>a. (RenameLogged <=> Renamed(audit, base)) /\ (RenameLogged' <=> Renamed(audit', base))
    BY DEF RenameLogged, Renamed
  <1>4. ASSUME RenameLogged PROVE RenameLogged'
    <2>1. PICK i \in DOMAIN audit :
                 /\ audit[i].act = "repository.add"
                 /\ \/ base.repos[audit[i].row[1]].name \notin {NoName, audit[i].row[2]}
                    \/ \E j \in DOMAIN audit :
                          /\ audit[j].act = "repository.add"
                          /\ audit[j].row[1] = audit[i].row[1]
                          /\ audit[j].row[2] # audit[i].row[2]
      BY <1>4, <1>a DEF Renamed
    <2>2. i \in DOMAIN audit' /\ audit'[i] = audit[i]
      BY <1>2
    <2>3. CASE base.repos[audit[i].row[1]].name \notin {NoName, audit[i].row[2]}
      BY <1>a, <2>1, <2>2, <2>3 DEF Renamed
    <2>4. CASE \E j \in DOMAIN audit :
                  /\ audit[j].act = "repository.add"
                  /\ audit[j].row[1] = audit[i].row[1]
                  /\ audit[j].row[2] # audit[i].row[2]
      <3>1. PICK j \in DOMAIN audit : /\ audit[j].act = "repository.add"
                                     /\ audit[j].row[1] = audit[i].row[1]
                                     /\ audit[j].row[2] # audit[i].row[2]
        BY <2>4
      <3>2. j \in DOMAIN audit' /\ audit'[j] = audit[j]
        BY <1>2
      <3>3. /\ audit'[i].act = "repository.add" /\ audit'[j].act = "repository.add"
            /\ audit'[j].row[1] = audit'[i].row[1] /\ audit'[j].row[2] # audit'[i].row[2]
        BY <2>1, <2>2, <3>1, <3>2
      <3>4. Renamed(audit', base)
        BY <2>2, <3>2, <3>3 DEF Renamed
      <3> QED
        BY <1>a, <3>4
    <2> QED
      BY <2>1, <2>3, <2>4
  <1>5. ASSUME NEW r, NEW n, Added(audit, r, n) PROVE Added(audit', r, n)
    BY <1>2, <1>5 DEF Added
  <1>6. ASSUME NEW r, NEW n, e.act = "repository.add", e.row = <<r, n>>, ~RenameLogged'
        PROVE  /\ Added(audit', r, n) /\ base.repos[r].name \in {NoName, n}
               /\ \A m : Added(audit, r, m) => m = n
    <2>1. Added(audit', r, n)
      BY <1>1, <1>3, <1>6 DEF Added
    <2>0. ~Renamed(audit', base)
      BY <1>6, <1>a
    <2>e. /\ audit'[k + 1].act = "repository.add" /\ audit'[k + 1].row = <<r, n>>
          /\ audit'[k + 1].row[1] = r /\ audit'[k + 1].row[2] = n
      BY <1>1, <1>6
    <2>2. base.repos[r].name \in {NoName, n}
      BY <1>3, <2>0, <2>e DEF Renamed
    <2>3. ASSUME NEW m, Added(audit, r, m) PROVE m = n
      <3>1. PICK i \in DOMAIN audit' :
                   audit'[i].act = "repository.add" /\ audit'[i].row = <<r, m>>
        BY <1>5, <2>3 DEF Added
      <3>2. audit'[i].row[1] = r /\ audit'[i].row[2] = m
        BY <3>1
      <3>3. ASSUME m # n PROVE Renamed(audit', base)
        <4>1. /\ audit'[k + 1].row[1] = audit'[i].row[1]
              /\ audit'[k + 1].row[2] # audit'[i].row[2]
          BY <2>e, <3>2, <3>3
        <4> QED
          BY <1>3, <2>e, <3>1, <4>1 DEF Renamed
      <3> QED
        BY <2>0, <3>3
    <2> QED
      BY <2>1, <2>2, <2>3
  <1> QED
    BY <1>4, <1>5, <1>6

\* While no renaming shows, a commit renames no repository.
LEMMA NamesKept ==
    ASSUME IInv, NameInv, NEW a \in Actors, Commit(a), ~RenameLogged',
           NEW r \in Repos, db.repos[r].status # "absent"
    PROVE  db'.repos[r].name = db.repos[r].name
  <1> DEFINE op == tx[a]
             e == [act |-> op.act, row |-> op.said]
  <1>1. /\ op \in Op /\ op # NoOp /\ audit \in Seq(Entry) /\ db.repos \in [Repos -> RepoRow]
        /\ audit' = audit \o <<e>> /\ base' = base
    BY DEF Commit, AuditRow, IInv, TypeOK, Tables
  <1>2. e \in Entry /\ e.act = op.act /\ e.row = op.said
    BY <1>1 DEF Entry
  <1>3. db'.repos = RepoRows(db.repos, op)
    BY DEF Commit, Applied
  <1>4. CASE op.act = "repository.add" /\ op.row[1] = r
    <2>1. op.row \in Repos \X Names /\ op.said = op.row
      BY <1>1, <1>4, OpRows
    <2>2. e.act = "repository.add" /\ e.row = <<r, op.row[2]>>
      BY <1>2, <1>4, <2>1
    <2>3. db.repos[r].source # "rebac"
      BY <1>1, <1>4 DEF IInv, TxInv
    <2> HIDE DEF op, e
    <2>4. /\ ~RenameLogged /\ base.repos[r].name \in {NoName, op.row[2]}
          /\ \A m : Added(audit, r, m) => m = op.row[2]
      BY <1>1, <1>2, <2>2, OneMoreEntry
    <2>5. db.repos[r].name = op.row[2]
      BY <2>3, <2>4 DEF NameInv
    <2>6. db'.repos[r].name = op.row[2]
      BY <1>1, <1>3, <1>4 DEF RepoRows
    <2> QED
      BY <2>5, <2>6
  <1>5. CASE op.act = "repository.add" /\ op.row[1] # r
    <2> HIDE DEF op
    <2> QED
      BY <1>1, <1>3, <1>5 DEF RepoRows
  <1>6. CASE op.act = "repository.disable"
    <2>1. op.row \in Repos
      BY <1>1, <1>6, OpRows
    <2> HIDE DEF op
    <2> QED
      BY <1>1, <1>3, <1>6, <2>1 DEF RepoRows, RepoRow
  <1>7. CASE op.act \notin {"repository.add", "repository.disable"}
    BY <1>3, <1>7 DEF RepoRows
  <1> QED
    BY <1>4, <1>5, <1>6, <1>7

\* Repositories that keep their names: the grants are told by the same names.
LEMMA SameNames ==
    ASSUME NEW t \in Tables, NEW s, GrantsExist(t), s.grants = t.grants,
           \A r \in Repos : t.repos[r].status # "absent" => s.repos[r].name = t.repos[r].name
    PROVE  GrantsByName(s) = GrantsByName(t)
  <1>1. \A g \in t.grants : g[2] \in Repos /\ s.repos[g[2]].name = t.repos[g[2]].name
    BY DEF Tables, GrantsExist
  <1> QED
    BY <1>1 DEF GrantsByName

-----------------------------------------------------------------------------
(* Commits *)

LEMMA NameCommit ==
    ASSUME IInv, AuditInv, NEW a \in Actors, Commit(a)
    PROVE  NameInv' /\ BaseInv'
  <1> DEFINE op == tx[a]
             e == [act |-> op.act, row |-> op.said]
  <1>1. /\ op \in Op /\ op # NoOp /\ audit \in Seq(Entry) /\ db.repos \in [Repos -> RepoRow]
        /\ audit' = audit \o <<e>> /\ base' = base
    BY DEF Commit, AuditRow, IInv, TypeOK, Tables
  <1>2. e \in Entry /\ e.act = op.act /\ e.row = op.said
    BY <1>1 DEF Entry
  <1>3. db'.repos = RepoRows(db.repos, op) /\ db'.invited = db.invited
    BY DEF Commit, Applied
  <1>4. /\ op.act = "repository.add" => op.row \in Repos \X Names /\ op.said = op.row
        /\ op.act = "repository.disable" =>
              op.row \in Repos /\ db.repos[op.row].status # "absent"
    BY <1>1, OpRows DEF IInv, TxInv
  <1> HIDE DEF op, e
  <1>5. \A r \in Repos :
           \/ /\ op.act = "repository.add" /\ op.row = <<r, db'.repos[r].name>>
              /\ db'.repos[r].status # "absent"
           \/ /\ db'.repos[r].name = db.repos[r].name /\ db'.repos[r].source = db.repos[r].source
              /\ db'.repos[r].status = "absent" <=> db.repos[r].status = "absent"
    <2>1. CASE op.act = "repository.add"
      BY <1>1, <1>3, <1>4, <2>1 DEF RepoRows
    <2>2. CASE op.act = "repository.disable"
      BY <1>1, <1>3, <1>4, <2>2 DEF RepoRows, RepoRow
    <2>3. CASE op.act \notin {"repository.add", "repository.disable"}
      BY <1>3, <2>3 DEF RepoRows
    <2> QED
      BY <2>1, <2>2, <2>3
  <1>6. BaseInv'
    BY <1>1, <1>3, <1>5 DEF AuditInv, BaseInv
  <1>7. NameInv'
    <2> SUFFICES ASSUME ~RenameLogged', NEW r \in Repos, db'.repos[r].status # "absent"
                 PROVE  \/ base.repos[r].name # NoName /\ db'.repos[r].name = base.repos[r].name
                        \/ base.repos[r].name = NoName /\ Added(audit', r, db'.repos[r].name)
                        \/ base.repos[r].name = NoName /\ db'.repos[r].source = "rebac"
      BY <1>1 DEF NameInv
    <2>1. PICK n : n = db'.repos[r].name
      OBVIOUS
    <2>2. CASE op.act = "repository.add" /\ op.row = <<r, n>>
      <3>1. Added(audit', r, n) /\ base.repos[r].name \in {NoName, n}
        BY <1>1, <1>2, <1>4, <2>2, OneMoreEntry
      <3>2. Added(audit', r, db'.repos[r].name)
        BY <2>1, <3>1 DEF Added
      <3> QED
        BY <2>1, <3>1, <3>2
    <2>3. CASE /\ n = db.repos[r].name /\ db'.repos[r].source = db.repos[r].source
               /\ db.repos[r].status # "absent"
      <3>1. ~RenameLogged /\ (Added(audit, r, n) => Added(audit', r, n))
        BY <1>1, <1>2, OneMoreEntry
      <3>2. \/ base.repos[r].name # NoName /\ n = base.repos[r].name
            \/ base.repos[r].name = NoName /\ Added(audit, r, n)
            \/ base.repos[r].name = NoName /\ db.repos[r].source = "rebac"
        BY <2>3, <3>1 DEF AuditInv, NameInv
      <3>3. Added(audit', r, n) => Added(audit', r, db'.repos[r].name)
        BY <2>1 DEF Added
      <3> QED
        BY <2>1, <2>3, <3>1, <3>2, <3>3
    <2> QED
      BY <1>5, <2>1, <2>2, <2>3
  <1> QED
    BY <1>6, <1>7

\* A commit does to the grants, by their names, what its audit row says.
LEMMA GrantsCommit ==
    ASSUME IInv, NameInv, NEW a \in Actors, Commit(a), ~RenameLogged'
    PROVE  GrantsByName(db') = Written(GrantsByName(db),
                                  [act |-> tx[a].act, row |-> tx[a].said],
                                  "grant.add", "grant.remove")
  <1> DEFINE op == tx[a]
             e == [act |-> op.act, row |-> op.said]
             ByName(g) == <<g[1], db.repos[g[2]].name, g[3]>>
  <1> SUFFICES GrantsByName(db') = Written(GrantsByName(db), e, "grant.add", "grant.remove")
    OBVIOUS
  <1>1. /\ op \in Op /\ op # NoOp /\ db \in Tables /\ db' = Applied(db, op)
        /\ NamesUnique(db.repos) /\ GrantsExist(db)
    BY DEF Commit, IInv, TypeOK, SchemaInv
  <1>2. e.act = op.act /\ e.row = op.said
    OBVIOUS
  <1>3. \A r \in Repos : db.repos[r].status # "absent" => db'.repos[r].name = db.repos[r].name
    BY NamesKept
  <1>4. db'.grants = Written(db.grants, op, "grant.add", "grant.remove")
    BY <1>1 DEF Applied
  <1>5. CASE op.act \notin {"grant.add", "grant.remove"}
    <2>1. db'.grants = db.grants
      BY <1>4, <1>5 DEF Written
    <2>2. GrantsByName(db') = GrantsByName(db)
      BY <1>1, <1>3, <2>1, SameNames
    <2> QED
      BY <1>2, <1>5, <2>2 DEF Written
  <1>6. CASE op.act \in {"grant.add", "grant.remove"}
    <2>1. /\ op.row \in Subjects \X Repos \X Roles
          /\ db.repos[op.row[2]].status # "absent" /\ op.said = ByName(op.row)
      BY <1>1, <1>6, OpRows DEF IInv, TxInv
    <2>2. db.grants \in SUBSET (Subjects \X Repos \X Roles)
      BY <1>1 DEF Tables
    <2> HIDE DEF op
    <2>3. db'.repos = db.repos
      BY <1>1, <1>6 DEF Applied, RepoRows
    <2>4. \A t : GrantsByName(t) = {<<g[1], t.repos[g[2]].name, g[3]>> : g \in t.grants}
      BY DEF GrantsByName
    <2>5. /\ GrantsByName(db) = {ByName(g) : g \in db.grants}
          /\ GrantsByName(db') = {ByName(g) : g \in db'.grants}
      BY <2>3, <2>4
    <2>6. \A g, h \in Subjects \X Repos \X Roles :
             db.repos[g[2]].status # "absent" /\ ByName(g) = ByName(h) => g = h
      BY <1>1 DEF NamesUnique
    <2>x. /\ \A x : x \in GrantsByName(db) <=> \E g \in db.grants : x = ByName(g)
          /\ \A x : x \in GrantsByName(db') <=> \E g \in db'.grants : x = ByName(g)
      BY <2>5
    <2> HIDE DEF ByName, e
    <2>7. CASE op.act = "grant.add"
      <3>1. db'.grants = db.grants \cup {op.row}
        BY <1>4, <2>7 DEF Written
      <3>2. \A x : x \in GrantsByName(db') <=> x \in GrantsByName(db) \/ x = op.said
        BY <2>1, <2>x, <3>1
      <3> QED
        BY <1>2, <2>7, <3>2 DEF Written
    <2>8. CASE op.act = "grant.remove"
      <3>1. db'.grants = db.grants \ {op.row}
        BY <1>4, <2>8 DEF Written
      <3>2. \A g \in db.grants : ByName(g) = op.said <=> g = op.row
        BY <2>1, <2>2, <2>6
      <3>3. \A x : x \in GrantsByName(db') <=> x \in GrantsByName(db) /\ x # op.said
        BY <2>x, <3>1, <3>2
      <3> QED
        BY <1>2, <2>8, <3>3 DEF Written
    <2> QED
      BY <1>6, <2>7, <2>8
  <1> QED
    BY <1>5, <1>6

\* They agree after a commit: one audit row was written with the table.
LEMMA ReplayCommit ==
    ASSUME IInv, AuditInv, NEW a \in Actors, Commit(a)
    PROVE  AuditTellsAll'
  <1> DEFINE op == tx[a]
             e == [act |-> op.act, row |-> op.said]
  <1>1. op \in Op /\ op # NoOp /\ audit \in Seq(Entry) /\ e \in Entry
    BY DEF Commit, IInv, TypeOK, Entry
  <1>2. db' = Applied(db, op) /\ audit' = audit \o <<e>> /\ base' = base
    BY DEF Commit, AuditRow
  <1>3. e.act = op.act /\ (op.act \notin {"grant.add", "grant.remove"} => e.row = op.row)
    BY <1>1, OpRows
  <1>4. /\ RenameLogged => RenameLogged'
        /\ ~RenameLogged' => GrantsByName(db') = Written(GrantsByName(db), e, "grant.add", "grant.remove")
    BY <1>1, <1>2, OneMoreEntry, GrantsCommit DEF AuditInv
  <1> HIDE DEF op, e
  <1>5. /\ db'.groups  = Written(db.groups, e, "group.add", "none")
        /\ db'.members = Written(db.members, e, "group.member.add", "group.member.remove")
        /\ db'.nesting = Written(db.nesting, e, "group.nest.add", "group.nest.remove")
        /\ db'.active  = Written(db.active, e, "user.enable", "user.disable")
        /\ db'.invited = db.invited
    BY <1>2, <1>3 DEF Applied, Written
  <1>6. ASSUME NEW rows, NEW start, NEW insert, NEW delete, insert # delete,
               rows = Replay(audit, start, insert, delete)
        PROVE  Replay(audit', start, insert, delete) = Written(rows, e, insert, delete)
    BY <1>1, <1>2, <1>6, ReplayNext
  <1>7. db'.groups = Replay(audit', base.groups, "group.add", "none")
    BY <1>5, <1>6 DEF AuditInv, AuditTellsAll
  <1>8. db'.members = Replay(audit', base.members, "group.member.add", "group.member.remove")
    BY <1>5, <1>6 DEF AuditInv, AuditTellsAll
  <1>9. db'.nesting = Replay(audit', base.nesting, "group.nest.add", "group.nest.remove")
    BY <1>5, <1>6 DEF AuditInv, AuditTellsAll
  <1>10. RenameLogged' \/ GrantsByName(db') = Replay(audit', GrantsByName(base), "grant.add", "grant.remove")
    BY <1>4, <1>6 DEF AuditInv, AuditTellsAll
  <1> DEFINE told == Replay(audit, base.active, "user.enable", "user.disable")
             now  == Replay(audit', base.active, "user.enable", "user.disable")
  <1>11. now = Written(told, e, "user.enable", "user.disable")
    BY <1>6
  <1>12. told \subseteq db.active /\ db.active \ told \subseteq base.invited \ db.invited
    BY DEF AuditInv, AuditTellsAll
  <1> HIDE DEF told, now
  <1>13. now \subseteq db'.active /\ db'.active \ now \subseteq base.invited \ db'.invited
    BY <1>5, <1>11, <1>12 DEF Written
  <1>14. GrantsByName(base)' = GrantsByName(base) /\ GrantsByName(db)' = GrantsByName(db')
    BY <1>2 DEF GrantsByName
  <1> QED
    BY <1>2, <1>7, <1>8, <1>9, <1>10, <1>13, <1>14 DEF AuditTellsAll, now

-----------------------------------------------------------------------------
(* Unaudited writes *)

\* An unaudited write that renames no repository and keeps the other tables.
LEMMA AuditUnaudited ==
    ASSUME IInv, AuditInv, NEW tables \in Tables, Unaudited(tables),
           tables.groups = db.groups, tables.members = db.members,
           tables.nesting = db.nesting, tables.grants = db.grants,
           \A r \in Repos : db.repos[r].status # "absent" =>
               /\ tables.repos[r].name = db.repos[r].name
               /\ tables.repos[r].source = db.repos[r].source
               /\ tables.repos[r].status # "absent",
           \A r \in Repos : db.repos[r].status = "absent" =>
               tables.repos[r].source = "rebac" \/ tables.repos[r] = db.repos[r],
           tables.invited \subseteq db.invited,
           db.active \subseteq tables.active,
           tables.active \ db.active \subseteq db.invited \ tables.invited
    PROVE  AuditInv'
  <1>1. db' = tables /\ UNCHANGED <<audit, base>> /\ db \in Tables /\ GrantsExist(db)
    BY DEF Unaudited, IInv, TypeOK, SchemaInv
  <1>2. GrantsByName(tables) = GrantsByName(db)
    BY <1>1, SameNames
  <1>3. RenameLogged' <=> RenameLogged
    BY <1>1 DEF RenameLogged
  <1>4. \A r, n : Added(audit', r, n) <=> Added(audit, r, n)
    BY <1>1 DEF Added
  <1>5. BaseInv'
    BY <1>1 DEF AuditInv, BaseInv
  <1>6. NameInv'
    <2> SUFFICES ASSUME ~RenameLogged, NEW r \in Repos, tables.repos[r].status # "absent"
                 PROVE  \/ base.repos[r].name # NoName /\ tables.repos[r].name = base.repos[r].name
                        \/ base.repos[r].name = NoName /\ Added(audit, r, tables.repos[r].name)
                        \/ base.repos[r].name = NoName /\ tables.repos[r].source = "rebac"
      BY <1>1, <1>3 DEF NameInv, Added
    <2>1. CASE db.repos[r].status # "absent"
      BY <2>1 DEF AuditInv, NameInv
    <2>2. CASE db.repos[r].status = "absent"
      BY <2>2 DEF AuditInv, BaseInv
    <2> QED
      BY <2>1, <2>2
  <1> DEFINE told == Replay(audit, base.active, "user.enable", "user.disable")
  <1>7. told \subseteq db.active /\ db.active \ told \subseteq base.invited \ db.invited
    BY DEF AuditInv, AuditTellsAll
  <1>8. db.invited \subseteq base.invited
    BY DEF AuditInv, BaseInv
  <1> HIDE DEF told
  <1>9. told \subseteq tables.active /\ tables.active \ told \subseteq base.invited \ tables.invited
    BY <1>7, <1>8
  <1>10. GrantsByName(base)' = GrantsByName(base) /\ GrantsByName(db)' = GrantsByName(tables)
    BY <1>1 DEF GrantsByName
  <1>11. AuditTellsAll'
    BY <1>1, <1>2, <1>3, <1>9, <1>10 DEF AuditInv, AuditTellsAll, told
  <1> QED
    BY <1>5, <1>6, <1>11 DEF AuditInv

LEMMA AuditResource ==
    ASSUME IInv, AuditInv, NEW r \in Repos,
           \/ \E n \in Names : CreateResource(r, n)
           \/ DeleteResource(r)
    PROVE  AuditInv'
  <1>1. PICK rows : /\ RebacWrite(rows)
                    /\ \/ \E status \in {"active", "deleted"} :
                             /\ db.repos[r].status # "absent"
                             /\ rows = [db.repos EXCEPT ![r].status = status]
                       \/ \E n \in Names :
                             /\ db.repos[r].status = "absent"
                             /\ rows = [db.repos EXCEPT ![r] =
                                          [status |-> "active", name |-> n, source |-> "rebac"]]
    BY DEF CreateResource, DeleteResource
  <1>2. db \in Tables /\ db.repos \in [Repos -> RepoRow]
    BY DEF IInv, TypeOK, Tables
  <1>3. /\ rows \in [Repos -> RepoRow]
        /\ \A q \in Repos : db.repos[q].status # "absent" =>
               /\ rows[q].name = db.repos[q].name
               /\ rows[q].source = db.repos[q].source
               /\ rows[q].status # "absent"
        /\ \A q \in Repos : db.repos[q].status = "absent" =>
               rows[q].source = "rebac" \/ rows[q] = db.repos[q]
    BY <1>1, <1>2 DEF RepoRow
  <1> DEFINE tables == [db EXCEPT !.repos = rows]
  <1>4. /\ tables \in Tables /\ tables.repos = rows /\ tables.groups = db.groups
        /\ tables.members = db.members /\ tables.nesting = db.nesting
        /\ tables.grants = db.grants /\ tables.active = db.active
        /\ tables.invited = db.invited
    BY <1>2, <1>3 DEF Tables
  <1>5. Unaudited(tables)
    BY <1>1 DEF RebacWrite
  <1> HIDE DEF tables
  <1> QED
    BY <1>3, <1>4, <1>5, AuditUnaudited

LEMMA AuditLogin ==
    ASSUME IInv, AuditInv, NEW u \in Users, LoginActivates(u)
    PROVE  AuditInv'
  <1> DEFINE tables == [db EXCEPT !.active = @ \cup {u}, !.invited = @ \ {u}]
  <1>1. db \in Tables /\ u \in db.invited /\ Unaudited(tables)
    BY DEF IInv, TypeOK, LoginActivates
  <1>2. /\ tables \in Tables /\ tables.repos = db.repos /\ tables.groups = db.groups
        /\ tables.members = db.members /\ tables.nesting = db.nesting
        /\ tables.grants = db.grants /\ tables.active = db.active \cup {u}
        /\ tables.invited = db.invited \ {u}
    BY <1>1 DEF Tables
  <1> HIDE DEF tables
  <1> QED
    BY <1>1, <1>2, AuditUnaudited

-----------------------------------------------------------------------------
LEMMA AuditNext == IInv /\ AuditInv /\ [Next]_vars => AuditInv'
  <1> SUFFICES ASSUME IInv, AuditInv, [Next]_vars PROVE AuditInv'
    OBVIOUS
  <1>1. ASSUME UNCHANGED <<db, audit, base>> PROVE AuditInv'
    <2>1. RenameLogged' <=> RenameLogged
      BY <1>1 DEF RenameLogged
    <2>2. NameInv' /\ BaseInv'
      BY <1>1, <2>1 DEF AuditInv, NameInv, BaseInv
    <2>3. GrantsByName(base)' = GrantsByName(base) /\ GrantsByName(db)' = GrantsByName(db)
      BY <1>1 DEF GrantsByName
    <2>4. AuditTellsAll'
      BY <1>1, <2>1, <2>3 DEF AuditInv, AuditTellsAll
    <2> QED
      BY <2>2, <2>4 DEF AuditInv
  <1>2. ASSUME NEW a \in Actors, Write(a) \/ Rollback(a) PROVE AuditInv'
    BY <1>1, <1>2, NothingWritten
  <1>3. ASSUME NEW a \in Actors, Commit(a) PROVE AuditInv'
    BY <1>3, NameCommit, ReplayCommit DEF AuditInv
  <1>4. ASSUME \/ \E u \in Users, r \in Repos, action \in Actions :
                     ReadGrants(u, r, action) \/ ReadCandidates(u, r, action)
               \/ ReadCandidateGrants \/ ReadMembers \/ ReadNesting \/ UNCHANGED vars
        PROVE  AuditInv'
    BY <1>1, <1>4 DEF ReadGrants, ReadCandidates, StartRead, ReadCandidateGrants,
                      ReadMembers, ReadNesting, vars
  <1> QED
    BY <1>2, <1>3, <1>4, AuditResource, AuditLogin DEF Next

\* However many writes of however many processes were committed, refused, rolled
\* back or repeated: the audit log, read over the tables of the start, gives the
\* groups, memberships and nesting of now; the grants, by the names that were
\* typed, unless it shows a repository renamed; and the active accounts but for
\* those that took up an invitation, the one write of these tables without an
\* audit row.
THEOREM AuditsTellAll == Spec => []AuditTellsAll
  <1>1. AuditInv => AuditTellsAll
    BY DEF AuditInv
  <1> QED
    BY <1>1, AuditInit, AuditNext, Inductive, PTL DEF Spec

=============================================================================
