------------------------ MODULE TokenExchangeProofs ------------------------
(***************************************************************************)
(* Proofs about accounts, signing keys and the exchange of tokens, for any *)
(* number of accounts, identities, keys, processes and calls.              *)
(*                                                                         *)
(* The invariants of AccountDirectory and of SigningKeys are proved of the *)
(* components; TokenExchange implements both, which hands them over.       *)
(***************************************************************************)
EXTENDS TokenExchange, FiniteSetTheorems, TLAPS

-----------------------------------------------------------------------------
(* Accounts *)

\* An account that does not exist has no invitation.
InvitedExists == \A u \in Users : users[u].status = "absent" => invitations[u].status = "none"

AccountsInv == AccountsTypeOK /\ InvitedExists /\ BoundByInvitation

\* AccountsInit establishes the invariant.
LEMMA AccountsInitInv == AccountsInit => AccountsInv
  BY AccountsAssumption
  DEF AccountsInit, AccountsInv, AccountsTypeOK, UserRow, InvitationRow, NoInvitation,
      InvitedExists, BoundByInvitation

\* Every action of AccountDirectory keeps it.
LEMMA AccountsNextInv ==
  AccountsInv /\ [AccountsNext]_accountVars => AccountsInv'
<1> SUFFICES ASSUME AccountsInv, [AccountsNext]_accountVars PROVE AccountsInv'
  OBVIOUS
<1> USE AccountsAssumption
<1>1. ASSUME NEW u \in Users, NEW e \in Emails, AddUser(u, e) PROVE AccountsInv'
  <2>1. [act |-> "user.add", user |-> u] \in AuditRows
    BY DEF AuditRows
  <2>2. AccountsTypeOK'
    BY <1>1, <2>1 DEF AccountsInv, AccountsTypeOK, AddUser, Audited, UserRow
  <2>3. InvitedExists' /\ BoundByInvitation'
    BY <1>1 DEF AccountsInv, AccountsTypeOK, UserRow, AddUser, InvitedExists, BoundByInvitation
  <2> QED BY <2>2, <2>3 DEF AccountsInv
<1>2. ASSUME NEW u \in Users, NEW e \in Emails, NEW p \in Providers, AddInvitation(u, p, e)
      PROVE AccountsInv'
  <2>1. [act |-> "user.invite", user |-> u] \in AuditRows
    BY DEF AuditRows
  <2>2. AccountsTypeOK'
    BY <1>2, <2>1
    DEF AccountsInv, AccountsTypeOK, AddInvitation, Audited, UserRow, InvitationRow
  <2>3. InvitedExists'
    BY <1>2 DEF AccountsInv, AccountsTypeOK, UserRow, InvitationRow, AddInvitation, InvitedExists
  <2>4. \A s \in Subjects : identities[s] # u
    <3>1. invitations[u].status = "none" /\ u # NoUser
      BY <1>2 DEF AccountsInv, AddInvitation, InvitedExists
    <3> QED BY <3>1 DEF AccountsInv, BoundByInvitation
  <2>5. BoundByInvitation'
    BY <1>2, <2>4
    DEF AccountsInv, AccountsTypeOK, InvitationRow, AddInvitation, BoundByInvitation
  <2> QED BY <2>2, <2>3, <2>5 DEF AccountsInv
<1>3. ASSUME NEW u \in Users, DisableUser(u) \/ EnableUser(u) PROVE AccountsInv'
  <2>1. /\ [act |-> "user.disable", user |-> u] \in AuditRows
        /\ [act |-> "user.enable", user |-> u] \in AuditRows
    BY DEF AuditRows
  <2>2. users' \in [Users -> UserRow]
    <3>1. CASE DisableUser(u)
      BY <3>1 DEF AccountsInv, AccountsTypeOK, DisableUser, UserRow
    <3>2. CASE EnableUser(u)
      BY <3>2 DEF AccountsInv, AccountsTypeOK, EnableUser, UserRow
    <3> QED BY <1>3, <3>1, <3>2
  <2>3. audit' \in Seq(AuditRows)
    <3>1. CASE DisableUser(u)
      BY <2>1, <3>1 DEF AccountsInv, AccountsTypeOK, DisableUser, Audited
    <3>2. CASE EnableUser(u)
      BY <2>1, <3>2 DEF AccountsInv, AccountsTypeOK, EnableUser, Audited
    <3> QED BY <1>3, <3>1, <3>2
  <2>4. AccountsTypeOK'
    BY <1>3, <2>2, <2>3 DEF AccountsInv, AccountsTypeOK, DisableUser, EnableUser
  <2>5. InvitedExists' /\ BoundByInvitation'
    BY <1>3
    DEF AccountsInv, AccountsTypeOK, UserRow, DisableUser, EnableUser, InvitedExists,
        BoundByInvitation
  <2> QED BY <2>4, <2>5 DEF AccountsInv
<1>4. ASSUME NEW s \in Subjects, NEW u \in Users, NEW e \in Emails, NEW v \in BOOLEAN,
             LoginInvited(s, u, e, v)
      PROVE AccountsInv'
  <2>1. AccountsTypeOK'
    <3>1. users' \in [Users -> UserRow]
      BY <1>4 DEF AccountsInv, AccountsTypeOK, LoginInvited, UserRow
    <3> DEFINE new == [[invitations[u] EXCEPT !.status = "accepted"] EXCEPT !.subject = s]
    <3>3. new \in InvitationRow
      BY DEF AccountsInv, AccountsTypeOK, InvitationRow
    <3>4. invitations' = [invitations EXCEPT ![u] = new]
      BY <1>4 DEF AccountsInv, AccountsTypeOK, InvitationRow, LoginInvited
    <3>5. invitations' \in [Users -> InvitationRow]
      BY <3>3, <3>4 DEF AccountsInv, AccountsTypeOK
    <3> QED BY <1>4, <3>1, <3>5 DEF AccountsInv, AccountsTypeOK, LoginInvited
  <2>2. InvitedExists'
    BY <1>4 DEF AccountsInv, AccountsTypeOK, UserRow, LoginInvited, InvitedExists
  <2>3. \A t \in Subjects : identities[t] # u
    BY <1>4 DEF AccountsInv, LoginInvited, Awaits, BoundByInvitation
  <2>4. BoundByInvitation'
    BY <1>4, <2>3
    DEF AccountsInv, AccountsTypeOK, InvitationRow, LoginInvited, Awaits, BoundByInvitation
  <2> QED BY <2>1, <2>2, <2>4 DEF AccountsInv
<1>5. ASSUME UNCHANGED accountVars PROVE AccountsInv'
  BY <1>5 DEF AccountsInv, AccountsTypeOK, InvitedExists, BoundByInvitation, accountVars
<1> QED
  BY <1>1, <1>2, <1>3, <1>4, <1>5 DEF AccountsNext, AdminNext, ResolveLogin, LoginKnown

\* The invariant holds of the accounts by themselves.
LEMMA AccountsInvariant == AccountsSpec => []AccountsInv
  BY AccountsInitInv, AccountsNextInv, PTL DEF AccountsSpec

\* While an account's invitation does not wait, only an audited enable ends a
\* disable.
LEMMA DisableHoldsStep ==
  ASSUME AccountsInv, [AccountsNext]_accountVars, NEW u \in Users,
         users[u].status = "disabled", users'[u].status # "disabled",
         invitations[u].status # "pending"
  PROVE  EnabledNow(u)
<1> USE DEF EnabledNow
<1>t. users \in [Users -> UserRow]
  BY DEF AccountsInv, AccountsTypeOK
<1>1. ASSUME NEW v \in Users, NEW e \in Emails, AddUser(v, e) PROVE FALSE
  BY <1>1, <1>t DEF AddUser
<1>2. ASSUME NEW v \in Users, NEW e \in Emails, NEW p \in Providers, AddInvitation(v, p, e)
      PROVE FALSE
  BY <1>2, <1>t DEF AddInvitation
<1>3. ASSUME NEW v \in Users, DisableUser(v) PROVE FALSE
  BY <1>3, <1>t DEF DisableUser, UserRow
<1>4. ASSUME NEW v \in Users, EnableUser(v) PROVE EnabledNow(u)
  <2>1. v = u
    BY <1>4, <1>t DEF EnableUser
  <2> QED BY <1>4, <2>1 DEF EnableUser, Audited
<1>5. ASSUME NEW s \in Subjects, NEW v \in Users, NEW e \in Emails, NEW b \in BOOLEAN,
             LoginInvited(s, v, e, b)
      PROVE FALSE
  BY <1>5, <1>t DEF LoginInvited, Awaits
<1>6. ASSUME UNCHANGED accountVars PROVE FALSE
  BY <1>6 DEF accountVars
<1> QED
  BY <1>1, <1>2, <1>3, <1>4, <1>5, <1>6 DEF AccountsNext, AdminNext, ResolveLogin, LoginKnown

-----------------------------------------------------------------------------
(* Signing keys *)

\* A process at work has a kid, a directory and a key pair.
ProcsAtWork ==
    \A p \in Procs : procs[p].pc # "idle" =>
        procs[p].kid \in Kids /\ procs[p].dir \in Dirs /\ procs[p].key # 0

RowsNamed == \A k \in Kids : IF Registered(k) THEN rows[k].dir \in Dirs ELSE rows[k].dir = NoDir

\* What a signer has read is registered.
SignerRight(s) ==
    s.pc # "down" =>
        /\ s.kid \in Kids /\ Registered(s.kid)
        /\ s.pc = "load" => s.dir = rows[s.kid].dir
        /\ s.pc = "up" => s.key = rows[s.kid].key

KeysInv ==
    /\ KeysTypeOK /\ ProcsAtWork /\ RowsNamed
    /\ RegisteredKeyOnDisk /\ OwnsItsFile
    /\ SignerRight(server)

\* KeysInit establishes the invariant.
LEMMA KeysInitInv == KeysInit => KeysInv
  BY KeysAssumption
  DEF KeysInit, KeysInv, KeysTypeOK, File, KeyRow, Proc, Signer, NoFile, NoRow, IdleProc, Down,
      ProcsAtWork, RowsNamed, Registered, RegisteredKeyOnDisk, OwnsItsFile, SignerRight

\* A row, once inserted, stays.
LEMMA RowsStay ==
  ASSUME KeysTypeOK, [KeysNext]_<<clock, keyVars>>, NEW k \in Kids, Registered(k)
  PROVE  rows'[k] = rows[k]
  BY DEF KeysTypeOK, KeysNext, keyVars, Generate, ProcNext, CreateFile, WriteFile, InsertRow,
         RemoveFile, Crash, StartServer, LoadServerKey, StopServer, KeysTick, Registered

\* A signer stays right when rows stay.
LEMMA SignerStays ==
  ASSUME NEW s, SignerRight(s), \A k \in Kids : Registered(k) => rows'[k] = rows[k]
  PROVE  s.pc # "down" =>
            /\ s.kid \in Kids /\ Registered(s.kid)'
            /\ s.pc = "load" => s.dir = rows'[s.kid].dir
            /\ s.pc = "up" => s.key = rows'[s.kid].key
  BY DEF SignerRight, Registered

\* The key that a signer loads is the one registered.
LEMMA LoadsRegistered ==
  ASSUME KeysInv, NEW s \in Signer, SignerRight(s), s.pc = "load", Loads(s)
  PROVE  Loaded(s) \in Signer /\ SignerRight(Loaded(s)) /\ Loaded(s).pc = "up"
<1>1. s.kid \in Kids /\ Registered(s.kid) /\ s.dir = rows[s.kid].dir
  BY DEF SignerRight
<1>2. files[<<s.dir, s.kid>>] = [state |-> "complete", key |-> rows[s.kid].key]
  BY <1>1 DEF KeysInv, RegisteredKeyOnDisk
<1>3. Loaded(s) = [s EXCEPT !.pc = "up", !.key = rows[s.kid].key]
  BY <1>2 DEF Loaded
<1>4. rows[s.kid].key \in Nat
  BY <1>1 DEF KeysInv, KeysTypeOK, KeyRow
<1> QED BY <1>1, <1>3, <1>4 DEF Signer, SignerRight

\* Every action of SigningKeys keeps the invariant.
LEMMA KeysNextInv ==
  KeysInv /\ [KeysNext]_<<clock, keyVars>> => KeysInv'
<1> SUFFICES ASSUME KeysInv, [KeysNext]_<<clock, keyVars>> PROVE KeysInv'
  OBVIOUS
<1> USE KeysAssumption
<1> USE DEF KeysInv
<1>s. ASSUME server' = server PROVE SignerRight(server)'
  BY <1>s, RowsStay, SignerStays DEF SignerRight
<1>1. ASSUME NEW p \in Procs, NEW k \in Kids, NEW d \in Dirs, Generate(p, k, d) PROVE KeysInv'
  <2>1. [pc |-> "create", kid |-> k, dir |-> d, key |-> lastKey + 1] \in Proc /\ lastKey + 1 # 0
    BY DEF KeysTypeOK, Proc
  <2>2. KeysTypeOK' /\ ProcsAtWork'
    BY <1>1, <2>1 DEF Generate, KeysTypeOK, ProcsAtWork
  <2>3. RowsNamed' /\ RegisteredKeyOnDisk'
    BY <1>1 DEF Generate, RowsNamed, Registered, RegisteredKeyOnDisk
  <2>4. OwnsItsFile'
    BY <1>1 DEF Generate, KeysTypeOK, OwnsItsFile, PathOf
  <2> QED BY <1>1, <1>s, <2>2, <2>3, <2>4 DEF Generate
<1>2. ASSUME NEW p \in Procs, procs[p].pc = "create", files[PathOf(p)].state = "absent",
             CreateFile(p)
      PROVE KeysInv'
  <2> DEFINE f == [state |-> "partial", key |-> procs[p].key]
  <2>1. procs[p] \in Proc /\ PathOf(p) \in Dirs \X Kids /\ f \in File
    BY <1>2 DEF KeysTypeOK, Proc, ProcsAtWork, PathOf, File
  <2>2. /\ files' = [files EXCEPT ![PathOf(p)] = f]
        /\ procs' = [procs EXCEPT ![p].pc = "write"]
        /\ rows' = rows /\ server' = server /\ clock' = clock /\ lastKey' = lastKey
    BY <1>2 DEF CreateFile, At
  <2>3. KeysTypeOK'
    BY <2>1, <2>2 DEF KeysTypeOK, Proc
  <2>4. ProcsAtWork' /\ RowsNamed'
    BY <1>2, <2>2 DEF KeysTypeOK, Proc, ProcsAtWork, RowsNamed, Registered
  <2>5. \A j \in Kids : Registered(j) => <<rows[j].dir, j>> # PathOf(p)
    <3> SUFFICES ASSUME NEW j \in Kids, Registered(j), <<rows[j].dir, j>> = PathOf(p)
                 PROVE FALSE
      OBVIOUS
    <3>1. files[PathOf(p)] = [state |-> "complete", key |-> rows[j].key]
      BY DEF RegisteredKeyOnDisk
    <3> QED BY <1>2, <3>1
  <2>6. RegisteredKeyOnDisk'
    BY <2>1, <2>2, <2>5 DEF KeysTypeOK, RowsNamed, Registered, RegisteredKeyOnDisk
  <2>7. \A q \in Procs : procs[q].pc \in {"write", "insert", "remove"} => PathOf(q) # PathOf(p)
    <3> SUFFICES ASSUME NEW q \in Procs, procs[q].pc \in {"write", "insert", "remove"},
                        PathOf(q) = PathOf(p)
                 PROVE FALSE
      OBVIOUS
    <3>1. files[PathOf(q)] = [state |-> IF procs[q].pc = "write" THEN "partial" ELSE "complete",
                              key   |-> procs[q].key]
      BY DEF OwnsItsFile
    <3>2. files[PathOf(q)].state # "absent"
      BY <3>1
    <3> QED BY <1>2, <3>2
  <2>8. rows[procs[p].kid].dir # procs[p].dir
    BY <1>2, <2>5 DEF ProcsAtWork, RowsNamed, PathOf
  <2>9. \A q \in Procs : PathOf(q)' = PathOf(q)
    BY <2>2 DEF KeysTypeOK, Proc, PathOf
  <2>10. \A q \in Procs \ {p} : procs'[q] = procs[q]
    BY <2>2 DEF KeysTypeOK
  <2>11. procs'[p] = [procs[p] EXCEPT !.pc = "write"]
    BY <2>2 DEF KeysTypeOK
  <2>12. ASSUME NEW q \in Procs, procs'[q].pc \in {"write", "insert", "remove"}
         PROVE  /\ files'[PathOf(q)] =
                     [state |-> IF procs'[q].pc = "write" THEN "partial" ELSE "complete",
                      key   |-> procs'[q].key]
                /\ rows'[procs'[q].kid].dir # procs'[q].dir
                /\ \A r \in Procs \ {q} :
                      procs'[r].pc \in {"write", "insert", "remove"} => PathOf(r) # PathOf(q)
    <3>1. CASE q = p
      BY <2>1, <2>2, <2>7, <2>8, <2>10, <2>11, <3>1 DEF KeysTypeOK, Proc
    <3>2. CASE q # p
      <4>1. procs'[q] = procs[q] /\ PathOf(q) # PathOf(p)
        BY <2>7, <2>10, <2>12, <3>2
      <4>2. files'[PathOf(q)] = files[PathOf(q)]
        <5>1. PathOf(q) \in Dirs \X Kids
          BY <2>12, <4>1 DEF PathOf, ProcsAtWork
        <5> QED BY <2>1, <2>2, <4>1, <5>1 DEF KeysTypeOK
      <4>3. \A r \in Procs \ {q} :
               procs'[r].pc \in {"write", "insert", "remove"} => PathOf(r) # PathOf(q)
        <5> SUFFICES ASSUME NEW r \in Procs \ {q}, procs'[r].pc \in {"write", "insert", "remove"}
                     PROVE PathOf(r) # PathOf(q)
          OBVIOUS
        <5>1. CASE r = p
          BY <4>1, <5>1
        <5>2. CASE r # p
          <6>1. procs'[r] = procs[r]
            BY <2>10, <5>2
          <6> QED BY <2>12, <4>1, <6>1 DEF OwnsItsFile
        <5> QED BY <5>1, <5>2
      <4> QED BY <2>2, <2>12, <4>1, <4>2, <4>3 DEF OwnsItsFile
    <3> QED BY <3>1, <3>2
  <2>13. OwnsItsFile'
    BY <2>9, <2>12 DEF OwnsItsFile
  <2> QED BY <1>s, <2>2, <2>3, <2>4, <2>6, <2>13
<1>3. ASSUME NEW p \in Procs, procs' = Ended(p), UNCHANGED <<clock, files, rows, server, lastKey>>
      PROVE KeysInv'
  <2>1. KeysTypeOK' /\ ProcsAtWork' /\ RowsNamed' /\ RegisteredKeyOnDisk'
    BY <1>3
    DEF Ended, IdleProc, KeysTypeOK, Proc, ProcsAtWork, RowsNamed, Registered, RegisteredKeyOnDisk
  <2>2. OwnsItsFile'
    BY <1>3 DEF Ended, IdleProc, KeysTypeOK, OwnsItsFile, PathOf
  <2> QED BY <1>3, <1>s, <2>1, <2>2
<1>4. ASSUME NEW p \in Procs, WriteFile(p) PROVE KeysInv'
  <2>1. procs[p] \in Proc /\ PathOf(p) \in Dirs \X Kids /\ files[PathOf(p)] \in File
    BY <1>4 DEF WriteFile, KeysTypeOK, Proc, ProcsAtWork, PathOf
  <2> DEFINE f == [state |-> "complete", key |-> procs[p].key]
  <2>3. /\ files' = [files EXCEPT ![PathOf(p)] = f]
        /\ procs' = [procs EXCEPT ![p].pc = "insert"]
        /\ rows' = rows /\ server' = server /\ clock' = clock /\ lastKey' = lastKey
    BY <1>4 DEF WriteFile, At
  <2>4. f \in File
    BY <2>1 DEF Proc, File
  <2>5. KeysTypeOK'
    BY <2>1, <2>3, <2>4 DEF KeysTypeOK, Proc
  <2>6. ProcsAtWork' /\ RowsNamed'
    BY <1>4, <2>3 DEF WriteFile, KeysTypeOK, Proc, ProcsAtWork, RowsNamed, Registered
  <2>7. \A j \in Kids : Registered(j) => <<rows[j].dir, j>> # PathOf(p)
    <3>1. rows[procs[p].kid].dir # procs[p].dir
      BY <1>4 DEF WriteFile, OwnsItsFile
    <3> QED BY <3>1 DEF PathOf
  <2>8. RegisteredKeyOnDisk'
    BY <2>1, <2>3, <2>7 DEF KeysTypeOK, RowsNamed, Registered, RegisteredKeyOnDisk
  <2>9. /\ \A q \in Procs : PathOf(q)' = PathOf(q)
        /\ \A q \in Procs \ {p} : procs'[q] = procs[q]
        /\ procs'[p] = [procs[p] EXCEPT !.pc = "insert"]
    BY <2>3 DEF KeysTypeOK, Proc, PathOf
  <2>10. ASSUME NEW q \in Procs, procs'[q].pc \in {"write", "insert", "remove"}
         PROVE  /\ files'[PathOf(q)] =
                     [state |-> IF procs'[q].pc = "write" THEN "partial" ELSE "complete",
                      key   |-> procs'[q].key]
                /\ rows'[procs'[q].kid].dir # procs'[q].dir
                /\ \A r \in Procs \ {q} :
                      procs'[r].pc \in {"write", "insert", "remove"} => PathOf(r) # PathOf(q)
    <3>0. \A r \in Procs : procs'[r].pc \in {"write", "insert", "remove"} =>
                             procs[r].pc \in {"write", "insert", "remove"}
      BY <1>4, <2>9 DEF WriteFile
    <3>a. procs[q].pc \in {"write", "insert", "remove"}
      BY <2>10, <3>0
    <3>1. \A r \in Procs \ {q} :
             procs'[r].pc \in {"write", "insert", "remove"} => PathOf(r) # PathOf(q)
      BY <3>0, <3>a DEF OwnsItsFile
    <3>2. rows'[procs'[q].kid].dir # procs'[q].dir
      <4>1. procs'[q].kid = procs[q].kid /\ procs'[q].dir = procs[q].dir
        BY <2>1, <2>9 DEF Proc
      <4>2. rows[procs[q].kid].dir # procs[q].dir
        BY <3>a DEF OwnsItsFile
      <4> QED BY <2>3, <4>1, <4>2
    <3>3. CASE q = p
      <4>1. files'[PathOf(q)] = f
        BY <2>1, <2>3, <3>3 DEF KeysTypeOK
      <4>2. procs'[q].pc = "insert" /\ procs'[q].key = procs[p].key
        BY <2>1, <2>9, <3>3 DEF Proc
      <4> QED BY <3>1, <3>2, <4>1, <4>2
    <3>4. CASE q # p
      <4>1. procs'[q] = procs[q] /\ PathOf(q) # PathOf(p)
        BY <1>4, <2>9, <3>a, <3>4 DEF WriteFile, OwnsItsFile
      <4>2. files'[PathOf(q)] = files[PathOf(q)]
        BY <2>1, <2>3, <3>a, <4>1 DEF KeysTypeOK, PathOf, ProcsAtWork
      <4>3. files[PathOf(q)] =
                     [state |-> IF procs[q].pc = "write" THEN "partial" ELSE "complete",
                      key   |-> procs[q].key]
        BY <3>a DEF OwnsItsFile
      <4> QED BY <3>1, <3>2, <4>1, <4>2, <4>3
    <3> QED BY <3>3, <3>4
  <2>11. OwnsItsFile'
    BY <2>9, <2>10 DEF OwnsItsFile
  <2> QED BY <1>s, <2>3, <2>5, <2>6, <2>8, <2>11
<1>5. ASSUME NEW p \in Procs, procs[p].pc = "insert", procs' = At(p, "remove"),
             UNCHANGED <<clock, files, rows, server, lastKey>>
      PROVE KeysInv'
  <2>1. /\ \A q \in Procs : PathOf(q)' = PathOf(q)
        /\ \A q \in Procs \ {p} : procs'[q] = procs[q]
        /\ procs'[p] = [procs[p] EXCEPT !.pc = "remove"]
        /\ procs[p] \in Proc
    BY <1>5 DEF At, KeysTypeOK, Proc, PathOf
  <2>2. KeysTypeOK' /\ ProcsAtWork'
    BY <1>5, <2>1 DEF At, KeysTypeOK, Proc, ProcsAtWork
  <2>3. RowsNamed' /\ RegisteredKeyOnDisk'
    BY <1>5 DEF RowsNamed, Registered, RegisteredKeyOnDisk
  <2>4. \A q \in Procs : procs'[q].key = procs[q].key /\ procs'[q].kid = procs[q].kid
                         /\ procs'[q].dir = procs[q].dir
    BY <2>1 DEF Proc
  <2>5. \A q \in Procs : procs'[q].pc \in {"write", "insert", "remove"} =>
                            /\ procs[q].pc \in {"write", "insert", "remove"}
                            /\ procs'[q].pc = "write" <=> procs[q].pc = "write"
    BY <1>5, <2>1 DEF Proc
  <2>6. OwnsItsFile'
    BY <1>5, <2>1, <2>4, <2>5 DEF OwnsItsFile
  <2> QED BY <1>5, <1>s, <2>2, <2>3, <2>6
<1>6. ASSUME NEW p \in Procs, procs[p].pc = "insert", ~Registered(procs[p].kid),
             rows' = [rows EXCEPT ![procs[p].kid] =
                         [key |-> procs[p].key, dir |-> procs[p].dir, at |-> clock]],
             procs' = Ended(p), UNCHANGED <<clock, files, server, lastKey>>
      PROVE KeysInv'
  <2> DEFINE k == procs[p].kid
             row == [key |-> procs[p].key, dir |-> procs[p].dir, at |-> clock]
  <2>1. k \in Kids /\ procs[p].dir \in Dirs /\ procs[p].key # 0 /\ procs[p].key \in Nat
    BY <1>6 DEF ProcsAtWork, KeysTypeOK, Proc
  <2>2. row \in KeyRow /\ IdleProc \in Proc
    BY <2>1 DEF KeyRow, KeysTypeOK, IdleProc, Proc
  <2>3. /\ rows' \in [Kids -> KeyRow] /\ rows'[k] = row
        /\ \A j \in Kids \ {k} : rows'[j] = rows[j]
    BY <1>6, <2>1, <2>2 DEF KeysTypeOK
  <2>4. /\ procs' \in [Procs -> Proc] /\ procs'[p] = IdleProc
        /\ \A q \in Procs \ {p} : procs'[q] = procs[q]
    BY <1>6, <2>2 DEF KeysTypeOK, Ended
  <2>5. KeysTypeOK' /\ ProcsAtWork'
    BY <1>6, <2>3, <2>4 DEF KeysTypeOK, ProcsAtWork, IdleProc
  <2>6. RowsNamed'
    BY <2>1, <2>3 DEF RowsNamed, Registered
  <2>7. files[<<procs[p].dir, k>>] = [state |-> "complete", key |-> procs[p].key]
    BY <1>6 DEF OwnsItsFile, PathOf
  <2>8. RegisteredKeyOnDisk'
    BY <1>6, <2>3, <2>7 DEF RegisteredKeyOnDisk, Registered
  <2>9. \A q \in Procs : procs'[q].pc \in {"write", "insert", "remove"} =>
                            q # p /\ procs'[q] = procs[q] /\ PathOf(q)' = PathOf(q)
    BY <2>4 DEF IdleProc, PathOf
  <2>10. ASSUME NEW q \in Procs, procs'[q].pc \in {"write", "insert", "remove"}
         PROVE  rows'[procs[q].kid].dir # procs[q].dir
    <3>1. q # p /\ procs[q].pc \in {"write", "insert", "remove"}
      BY <2>9, <2>10
    <3>2. PathOf(q) # PathOf(p) /\ rows[procs[q].kid].dir # procs[q].dir
      BY <1>6, <3>1 DEF OwnsItsFile
    <3>3. procs[q].kid \in Kids
      BY <3>1 DEF ProcsAtWork
    <3> QED BY <2>3, <3>2, <3>3 DEF PathOf
  <2>11. OwnsItsFile'
    BY <1>6, <2>9, <2>10 DEF OwnsItsFile
  <2> QED BY <1>6, <1>s, <2>5, <2>6, <2>8, <2>11
<1>7. ASSUME NEW p \in Procs, RemoveFile(p) PROVE KeysInv'
  <2>1. PathOf(p) \in Dirs \X Kids /\ NoFile \in File /\ IdleProc \in Proc
    BY <1>7 DEF RemoveFile, ProcsAtWork, PathOf, NoFile, File, IdleProc, Proc
  <2>2. /\ files' \in [Dirs \X Kids -> File]
        /\ \A x \in Dirs \X Kids : x # PathOf(p) => files'[x] = files[x]
    BY <1>7, <2>1 DEF RemoveFile, KeysTypeOK
  <2>3. /\ procs' \in [Procs -> Proc] /\ procs'[p] = IdleProc
        /\ \A q \in Procs \ {p} : procs'[q] = procs[q]
    BY <1>7, <2>1 DEF RemoveFile, KeysTypeOK, Ended
  <2>4. rows' = rows /\ server' = server /\ clock' = clock /\ lastKey' = lastKey
    BY <1>7 DEF RemoveFile
  <2>5. KeysTypeOK' /\ ProcsAtWork' /\ RowsNamed'
    BY <2>2, <2>3, <2>4 DEF KeysTypeOK, ProcsAtWork, RowsNamed, Registered, IdleProc
  <2>6. \A j \in Kids : Registered(j) => <<rows[j].dir, j>> # PathOf(p)
    <3>1. rows[procs[p].kid].dir # procs[p].dir
      BY <1>7 DEF RemoveFile, OwnsItsFile
    <3> QED BY <3>1 DEF PathOf
  <2>7. RegisteredKeyOnDisk'
    BY <2>2, <2>4, <2>6 DEF RegisteredKeyOnDisk, RowsNamed, Registered
  <2>8. \A q \in Procs : procs'[q].pc \in {"write", "insert", "remove"} =>
                            q # p /\ procs'[q] = procs[q] /\ PathOf(q)' = PathOf(q)
    BY <2>3 DEF IdleProc, PathOf
  <2>9. ASSUME NEW q \in Procs, procs'[q].pc \in {"write", "insert", "remove"}
        PROVE  files'[PathOf(q)] = files[PathOf(q)]
    <3>1. q # p /\ procs[q].pc \in {"write", "insert", "remove"}
      BY <2>8, <2>9
    <3>2. PathOf(q) # PathOf(p)
      BY <1>7, <3>1 DEF RemoveFile, OwnsItsFile
    <3>3. PathOf(q) \in Dirs \X Kids
      BY <3>1 DEF ProcsAtWork, PathOf
    <3> QED BY <2>2, <3>2, <3>3
  <2>10. OwnsItsFile'
    BY <2>4, <2>8, <2>9 DEF OwnsItsFile
  <2> QED BY <1>s, <2>4, <2>5, <2>7, <2>10
<1>8. ASSUME server' \in Signer, SignerRight(server)', UNCHANGED <<clock, files, rows, procs, lastKey>>
      PROVE KeysInv'
  <2>1. KeysTypeOK' /\ ProcsAtWork' /\ RowsNamed' /\ RegisteredKeyOnDisk'
    BY <1>8 DEF KeysTypeOK, ProcsAtWork, RowsNamed, Registered, RegisteredKeyOnDisk
  <2>2. OwnsItsFile'
    BY <1>8 DEF OwnsItsFile, PathOf
  <2> QED BY <1>8, <2>1, <2>2
<1>9. Down \in Signer
  BY DEF Down, Signer
<1>10. ASSUME NEW k \in Kids, StartServer(k) PROVE KeysInv'
  <2>1. Meta(k) \in Signer
    BY DEF Meta, Signer, KeysTypeOK, KeyRow
  <2>2. SignerRight(server)'
    BY <1>10 DEF StartServer, Meta, SignerRight, ActiveRow, Registered
  <2> QED BY <1>8, <1>10, <2>1, <2>2 DEF StartServer
<1>11. ASSUME LoadServerKey PROVE KeysInv'
  <2>1. CASE server' = Down
    <3>1. SignerRight(server)'
      BY <2>1 DEF Down, SignerRight
    <3> QED BY <1>8, <1>9, <1>11, <2>1, <3>1 DEF LoadServerKey
  <2>2. CASE Loads(server) /\ server' = Loaded(server)
    <3>1. Loaded(server) \in Signer /\ SignerRight(Loaded(server))
      BY <1>11, <2>2, LoadsRegistered DEF LoadServerKey, KeysTypeOK
    <3>2. SignerRight(server)'
      BY <1>11, <2>2, <3>1 DEF LoadServerKey, SignerRight, Registered
    <3> QED BY <1>8, <1>11, <2>2, <3>1, <3>2 DEF LoadServerKey
  <2> QED BY <1>11, <2>1, <2>2 DEF LoadServerKey
<1>12. ASSUME StopServer PROVE KeysInv'
  <2>1. SignerRight(server)'
    BY <1>12 DEF StopServer, Down, SignerRight
  <2> QED BY <1>8, <1>9, <1>12, <2>1 DEF StopServer
<1>13. ASSUME clock' \in Nat, UNCHANGED keyVars PROVE KeysInv'
  <2>1. KeysTypeOK' /\ ProcsAtWork' /\ RowsNamed' /\ RegisteredKeyOnDisk'
    BY <1>13 DEF keyVars, KeysTypeOK, ProcsAtWork, RowsNamed, Registered, RegisteredKeyOnDisk
  <2>2. OwnsItsFile'
    BY <1>13 DEF keyVars, OwnsItsFile, PathOf
  <2> QED BY <1>13, <1>s, <2>1, <2>2 DEF keyVars
<1>14. ASSUME NEW p \in Procs, CreateFile(p) PROVE KeysInv'
  BY <1>2, <1>3, <1>14 DEF CreateFile
<1>15. ASSUME NEW p \in Procs, NEW ok \in BOOLEAN, InsertRow(p, ok) PROVE KeysInv'
  <2>1. CASE ok /\ ~Registered(procs[p].kid)
    BY <1>6, <1>15, <2>1 DEF InsertRow
  <2>2. CASE ~(ok /\ ~Registered(procs[p].kid))
    BY <1>5, <1>15, <2>2 DEF InsertRow
  <2> QED BY <2>1, <2>2
<1>16. ASSUME NEW p \in Procs, Crash(p) PROVE KeysInv'
  BY <1>3, <1>16 DEF Crash
<1>17. ASSUME KeysTick \/ UNCHANGED <<clock, keyVars>> PROVE KeysInv'
  BY <1>13, <1>17 DEF KeysTick, KeysTypeOK
<1> QED
  BY <1>1, <1>4, <1>7, <1>10, <1>11, <1>12, <1>14, <1>15, <1>16, <1>17 DEF KeysNext, ProcNext

\* The invariant holds of the keys by themselves.
LEMMA KeysInvariant == KeysSpec => []KeysInv
  BY KeysInitInv, KeysNextInv, PTL DEF KeysSpec

-----------------------------------------------------------------------------
(* Refinement *)

\* No action touches the accounts but those of AccountDirectory.
LEMMA NextAccounts == [Next]_vars => [AccountsNext]_accountVars
<1> SUFFICES ASSUME [Next]_vars PROVE AccountsNext \/ UNCHANGED accountVars
  OBVIOUS
<1>1. ASSUME NEW c \in Calls, NEW x \in Subjects, NEW u \in Users, NEW e \in Emails,
             NEW v \in BOOLEAN, Login(c, x, u, e, v)
      PROVE AccountsNext
  BY <1>1 DEF Login, AccountsNext
<1>2. ASSUME NEW c \in Calls, NEW u \in Users, NEW k \in Kids, AuthctlMint(c, u, k)
      PROVE UNCHANGED accountVars
  BY <1>2 DEF AuthctlMint
<1>3. ASSUME NEW c \in Calls, NEW kind, NEW t, NEW rs, Present(c, kind, t, rs)
      PROVE UNCHANGED accountVars
  BY <1>3 DEF Present
<1>4. ASSUME NEW c \in Calls, CallNext(c) \/ Abort(c) PROVE UNCHANGED accountVars
  BY <1>4
  DEF CallNext, Abort, KeysOnly, LoadSigner, Principal, ByJti, Lookup, Listed, Find, Check,
      Checked, Done
<1>5. ASSUME AdminWrite PROVE AccountsNext
  BY <1>5 DEF AdminWrite, AccountsNext
<1>6. ASSUME NEW rs, NEW ws, ChangeAccess(rs, ws) PROVE UNCHANGED accountVars
  BY <1>6 DEF ChangeAccess
<1>7. ASSUME KeyStep \/ Shutdown \/ Tick \/ \E p \in Procs : CrashProc(p)
      PROVE UNCHANGED accountVars
  BY <1>7 DEF KeyStep, Shutdown, Tick, CrashProc, KeysOnly
<1>8. ASSUME UNCHANGED vars PROVE UNCHANGED accountVars
  BY <1>8 DEF vars
<1> QED
  BY <1>1, <1>2, <1>3, <1>4, <1>5, <1>6, <1>7, <1>8 DEF Next

\* No action touches clock, key files, rows and server but those of SigningKeys.
LEMMA NextKeys == [Next]_vars => [KeysNext]_<<clock, keyVars>>
<1> SUFFICES ASSUME [Next]_vars PROVE KeysNext \/ UNCHANGED <<clock, keyVars>>
  OBVIOUS
<1>1. ASSUME NEW c \in Calls, NEW x \in Subjects, NEW u \in Users, NEW e \in Emails,
             NEW v \in BOOLEAN, Login(c, x, u, e, v)
      PROVE UNCHANGED <<clock, keyVars>>
  BY <1>1 DEF Login, Untouched
<1>2. ASSUME NEW c \in Calls, NEW u \in Users, NEW k \in Kids, AuthctlMint(c, u, k)
      PROVE UNCHANGED <<clock, keyVars>>
  BY <1>2 DEF AuthctlMint, Untouched
<1>3. ASSUME NEW c \in Calls, NEW kind, NEW t, NEW rs, Present(c, kind, t, rs)
      PROVE UNCHANGED <<clock, keyVars>>
  BY <1>3 DEF Present, Untouched
<1>4. ASSUME NEW c \in Calls, CallNext(c) \/ Abort(c) PROVE UNCHANGED <<clock, keyVars>>
  BY <1>4
  DEF CallNext, Abort, Untouched, LoadSigner, Principal, ByJti, Lookup, Listed, Find, Check,
      Checked, Done
<1>5. ASSUME AdminWrite PROVE UNCHANGED <<clock, keyVars>>
  BY <1>5 DEF AdminWrite
<1>6. ASSUME NEW rs, NEW ws, ChangeAccess(rs, ws) PROVE UNCHANGED <<clock, keyVars>>
  BY <1>6 DEF ChangeAccess
<1>7. ASSUME KeyStep \/ Shutdown \/ Tick \/ \E p \in Procs : CrashProc(p) PROVE KeysNext
  BY <1>7 DEF KeyStep, Shutdown, Tick, CrashProc, KeysNext
<1>8. ASSUME UNCHANGED vars PROVE UNCHANGED <<clock, keyVars>>
  BY <1>8 DEF vars
<1> QED
  BY <1>1, <1>2, <1>3, <1>4, <1>5, <1>6, <1>7, <1>8 DEF Next

\* TokenExchange implements AccountDirectory: whatever the server, lore-authctl
\* and the exchanges do, the accounts only take the steps of their own module.
THEOREM ImplementsAccounts == Spec => AccountsSpec
<1>1. Init => AccountsInit
  BY DEF Init
<1> QED BY <1>1, NextAccounts, PTL DEF Spec, AccountsSpec

\* TokenExchange implements SigningKeys: files, rows and the signer of the server
\* only take the steps of their own module.
THEOREM ImplementsKeys == Spec => KeysSpec
<1>1. Init => KeysInit
  BY DEF Init
<1> QED BY <1>1, NextKeys, PTL DEF Spec, KeysSpec

\* A bound identity is the one that its account's invitation accepted, at the
\* invited provider (resolve_login).
THEOREM LoginsBoundByInvitation == Spec => []BoundByInvitation
<1>1. AccountsInv => BoundByInvitation
  BY DEF AccountsInv
<1> QED BY <1>1, AccountsInvariant, ImplementsAccounts, PTL

\* An account whose invitation does not wait stays disabled until an audited
\* enable, whoever logs in meanwhile (resolve_login).
THEOREM DisabledUntilEnabled == Spec => DisableHolds
<1>1. AccountsInv /\ [AccountsNext]_accountVars =>
        [\A u \in Users :
           /\ users[u].status = "disabled" /\ users'[u].status # "disabled"
           /\ invitations[u].status # "pending"
           => EnabledNow(u)]_accountVars
  BY DisableHoldsStep
<1> QED BY <1>1, AccountsInvariant, ImplementsAccounts, PTL DEF AccountsSpec, DisableHolds

\* A registered key has its complete file, whatever processes generate, crash or
\* clean up (generate_active_key).
THEOREM RegisteredKeysUsable == Spec => []RegisteredKeyOnDisk
<1>1. KeysInv => RegisteredKeyOnDisk
  BY DEF KeysInv
<1> QED BY <1>1, KeysInvariant, ImplementsKeys, PTL

-----------------------------------------------------------------------------
(* Calls and the tokens they issue *)

\* A call under way has its account, a signer that holds a registered key and,
\* when it checks access, a resource.
InHand(x) ==
    x.pc # "idle" =>
        /\ x.user \in Users
        /\ x.signer.pc = IF x.pc = "load" THEN "load" ELSE "up"
        /\ SignerRight(x.signer)
        /\ x.pc \in {"check", "checking"} => x.repo \in Repos

\* y is x but for its history.
SameCall(x, y) ==
    /\ y.pc = x.pc /\ y.kind = x.kind /\ y.signer = x.signer /\ y.user = x.user
    /\ y.parent = x.parent /\ y.since = x.since /\ y.todo = x.todo /\ y.repo = x.repo
    /\ y.got = x.got

\* y is x with its check, if one is in flight, after a commit.
CommittedCall(x, y, rs, ws) ==
    /\ SameCall(x, y) /\ y.seen = x.seen /\ y.userSeen = x.userSeen /\ y.torn = x.torn
    /\ y.pc \in Checking => y.check = Noted(x.check, Asked(x) \cap Writable(rs, ws, x))

TokensInv ==
    /\ TypeOK /\ AccountsInv /\ KeysInv
    /\ \A c \in Calls : InHand(calls[c])
    /\ SignedByRegisteredKey
    /\ IsFiniteSet(issued)

\* No check is a check.
LEMMA NoCheckType == NoCheck \in CheckRecord(Repos)
  BY DEF NoCheck, CheckRecord

\* IdleCall is a call.
LEMMA IdleCallType == IdleCall \in Call
  BY DEF IdleCall, Call, Down, Signer, NoCheck, CheckRecord

\* What a call checks are repositories.
LEMMA AskedType ==
  ASSUME NEW x \in Call, NEW rs, NEW ws
  PROVE  Asked(x) \cap Writable(rs, ws, x) \in SUBSET Repos
  BY DEF Call, Asked

\* Witnessing a state leaves the rest of a call as it was.
LEMMA WitnessedSame ==
  ASSUME NEW cs \in [Calls -> Call], NEW us, NEW rs, NEW ws
  PROVE  /\ Witnessed(cs, us, rs, ws) \in [Calls -> Call]
         /\ \A c \in Calls : SameCall(cs[c], Witnessed(cs, us, rs, ws)[c])
<1> DEFINE n(c) == [cs[c] EXCEPT !.seen = @ \cup (About(cs[c]) \cap Writable(rs, ws, cs[c])),
                                 !.userSeen = @ \/ us[cs[c].user].status = "active"]
<1>1. ASSUME NEW c \in Calls PROVE n(c) \in Call /\ SameCall(cs[c], n(c))
  <2>1. cs[c] \in Call
    OBVIOUS
  <2>2. cs[c].seen \cup (About(cs[c]) \cap Writable(rs, ws, cs[c])) \in SUBSET Repos
    BY <2>1 DEF Call, About
  <2>3. (cs[c].userSeen \/ us[cs[c].user].status = "active") \in BOOLEAN
    OBVIOUS
  <2> QED BY <2>1, <2>2, <2>3 DEF Call, SameCall
<1>2. \A c \in Calls : Witnessed(cs, us, rs, ws)[c] = IF cs[c].pc = "idle" THEN cs[c] ELSE n(c)
  BY DEF Witnessed
<1>3. \A c \in Calls : SameCall(cs[c], cs[c])
  BY DEF SameCall
<1>4. Witnessed(cs, us, rs, ws) = [c \in Calls |-> Witnessed(cs, us, rs, ws)[c]]
  BY DEF Witnessed
<1> HIDE DEF n
<1>5. \A c \in Calls : /\ Witnessed(cs, us, rs, ws)[c] \in Call
                       /\ SameCall(cs[c], Witnessed(cs, us, rs, ws)[c])
  BY <1>1, <1>2, <1>3
<1> QED BY <1>4, <1>5

\* A commit changes nothing of a call but its check in flight.
LEMMA CommittedSame ==
  ASSUME NEW cs \in [Calls -> Call], NEW rs, NEW ws
  PROVE  /\ Committed(cs, rs, ws) \in [Calls -> Call]
         /\ \A c \in Calls : CommittedCall(cs[c], Committed(cs, rs, ws)[c], rs, ws)
<1> DEFINE now(c) == Asked(cs[c]) \cap Writable(rs, ws, cs[c])
           new(c) == Noted(cs[c].check, now(c))
           n(c) == [cs[c] EXCEPT !.check = new(c)]
           Right(c, y) == CommittedCall(cs[c], y, rs, ws)
<1>1. ASSUME NEW c \in Calls PROVE n(c) \in Call /\ Right(c, n(c))
  <2>1. cs[c] \in Call /\ cs[c].check \in CheckRecord(Repos)
    BY DEF Call
  <2>2. now(c) \in SUBSET Repos
    BY <2>1, AskedType
  <2> HIDE DEF now
  <2>3. new(c) \in CheckRecord(Repos)
    BY <2>1, <2>2 DEF CheckRecord, Noted
  <2> HIDE DEF new
  <2>4. n(c) \in Call /\ SameCall(cs[c], n(c)) /\ n(c).seen = cs[c].seen
        /\ n(c).userSeen = cs[c].userSeen /\ n(c).torn = cs[c].torn /\ n(c).check = new(c)
    BY <2>1, <2>3 DEF Call, SameCall
  <2> HIDE DEF n
  <2> QED BY <2>4 DEF CommittedCall, new, now
<1>2. \A c \in Calls : Committed(cs, rs, ws)[c] = IF cs[c].pc \notin Checking THEN cs[c] ELSE n(c)
  BY DEF Committed
<1>3. \A c \in Calls : cs[c].pc \notin Checking => Right(c, cs[c])
  BY DEF CommittedCall, SameCall
<1>4. Committed(cs, rs, ws) = [c \in Calls |-> Committed(cs, rs, ws)[c]]
  BY DEF Committed
<1> HIDE DEF n, Right
<1>5. \A c \in Calls : Committed(cs, rs, ws)[c] \in Call /\ Right(c, Committed(cs, rs, ws)[c])
  BY <1>1, <1>2, <1>3
<1> QED BY <1>4, <1>5 DEF Right

\* Init establishes the invariant.
LEMMA TokensInitInv == Init => TokensInv
<1> SUFFICES ASSUME Init PROVE TokensInv
  OBVIOUS
<1>1. AccountsInv /\ KeysInv
  BY AccountsInitInv, KeysInitInv DEF Init
<1>2. TypeOK
  BY <1>1, IdleCallType DEF Init, TypeOK, AccountsInv, KeysInv
<1>3. \A c \in Calls : calls[c].pc = "idle"
  BY DEF Init, IdleCall
<1>4. IsFiniteSet(issued)
  BY FS_EmptySet DEF Init
<1> QED BY <1>1, <1>2, <1>3, <1>4 DEF TokensInv, InHand, SignedByRegisteredKey, Init

\* Repositories, access and events keep their types.
LEMMA AccessTypes ==
  ASSUME TypeOK, [Next]_vars
  PROVE  live' \subseteq Repos /\ writers' \subseteq Users \X Repos /\ events' \in Nat
<1> USE DEF TypeOK
<1>1. ASSUME NEW rs, NEW ws, rs \subseteq Repos, ws \subseteq Users \X Repos, ChangeAccess(rs, ws)
      PROVE  live' \subseteq Repos /\ writers' \subseteq Users \X Repos /\ events' \in Nat
  BY <1>1 DEF ChangeAccess, CountEvent
<1>2. ASSUME NEW r \in Repos, ChangeAccess(Toggle(live, r), writers)
      PROVE  live' \subseteq Repos /\ writers' \subseteq Users \X Repos /\ events' \in Nat
  <2>1. Toggle(live, r) \subseteq Repos
    BY DEF Toggle
  <2> QED BY <1>1, <1>2, <2>1
<1>3. ASSUME NEW e \in Users \X Repos, ChangeAccess(live, Toggle(writers, e))
      PROVE  live' \subseteq Repos /\ writers' \subseteq Users \X Repos /\ events' \in Nat
  <2>1. Toggle(writers, e) \subseteq Users \X Repos
    BY DEF Toggle
  <2> QED BY <1>1, <1>3, <2>1
<1>0. ASSUME ChangeAccess(live, writers)
      PROVE  live' \subseteq Repos /\ writers' \subseteq Users \X Repos /\ events' \in Nat
  BY <1>0, <1>1
<1>4. ASSUME AdminWrite \/ Shutdown \/ (\E c \in Calls : Abort(c)) \/ \E p \in Procs : CrashProc(p)
      PROVE  live' = live /\ writers' = writers /\ events' \in Nat
  BY <1>4 DEF AdminWrite, Shutdown, Abort, CrashProc, KeysOnly, CountEvent
<1>5. ASSUME KeyStep \/ Tick \/ UNCHANGED vars
      PROVE  live' = live /\ writers' = writers /\ events' = events
  BY <1>5 DEF KeyStep, Tick, KeysOnly, vars
<1>6. ASSUME Untouched PROVE live' = live /\ writers' = writers /\ events' = events
  BY <1>6 DEF Untouched
<1>7. ASSUME NEW c \in Calls, CallNext(c) PROVE Untouched
  BY <1>7 DEF CallNext, LoadSigner, Principal, ByJti, Lookup, Listed, Find, Check,
      Checked, Done
<1> QED
  BY <1>0, <1>2, <1>3, <1>4, <1>5, <1>6, <1>7 DEF Next, Login, AuthctlMint, Present

\* Every action keeps the invariant.
LEMMA TokensNextInv == TokensInv /\ [Next]_vars => TokensInv'
<1> SUFFICES ASSUME TokensInv, [Next]_vars PROVE TokensInv'
  OBVIOUS
<1> USE DEF TokensInv
<1>1. AccountsInv' /\ KeysInv'
  BY AccountsNextInv, KeysNextInv, NextAccounts, NextKeys
<1>2. \A k \in Kids : Registered(k) => rows'[k] = rows[k]
  BY RowsStay, NextKeys DEF KeysInv
<1>3. \A d \in Calls : calls[d] \in Call
  BY DEF TypeOK
<1>4. ASSUME NEW d \in Calls, calls'[d] = IdleCall \/ SameCall(calls[d], calls'[d])
      PROVE InHand(calls[d])'
  <2>1. CASE calls'[d] = IdleCall
    BY <2>1 DEF IdleCall, InHand
  <2>2. CASE SameCall(calls[d], calls'[d])
    BY <1>2, <2>2, SignerStays DEF InHand, SameCall, SignerRight
  <2> QED BY <1>4, <2>1, <2>2
<1>5. ASSUME issued' = issued
      PROVE issued' \subseteq Token /\ SignedByRegisteredKey' /\ IsFiniteSet(issued)'
  BY <1>2, <1>5 DEF TypeOK, Token, SignedByRegisteredKey, Registered
<1>6. ASSUME calls' \in [Calls -> Call], issued' \subseteq Token, SignedByRegisteredKey',
             IsFiniteSet(issued)', \A d \in Calls : InHand(calls[d])'
      PROVE TokensInv'
  BY <1>1, <1>6, AccessTypes DEF TypeOK, AccountsInv, KeysInv
<1>7. ASSUME calls' \in [Calls -> Call], issued' = issued,
             \A d \in Calls : calls'[d] = IdleCall \/ SameCall(calls[d], calls'[d])
      PROVE TokensInv'
  BY <1>4, <1>5, <1>6, <1>7
<1>8. ASSUME NEW c \in Calls, NEW x \in Call, InHand(x), rows' = rows,
             calls' \in [Calls -> Call],
             SameCall(x, calls'[c]),
             \A d \in Calls \ {c} : SameCall(calls[d], calls'[d])
      PROVE \A d \in Calls : InHand(calls[d])'
  <2>1. InHand(calls[c])'
    BY <1>8 DEF InHand, SameCall, SignerRight, Registered
  <2> QED BY <1>4, <1>8, <2>1
<1>9. ASSUME NEW c \in Calls, NEW x \in Call, InHand(x), Begin(c, x), issued' = issued,
             rows' = rows
      PROVE TokensInv'
  <2> DEFINE cs == [calls EXCEPT ![c] = x]
  <2>1. cs \in [Calls -> Call] /\ cs[c] = x /\ \A d \in Calls \ {c} : cs[d] = calls[d]
    BY DEF TypeOK
  <2>2. calls' = Witnessed(cs, users', live, writers)
    BY <1>9 DEF Begin
  <2> HIDE DEF cs
  <2>3. calls' \in [Calls -> Call] /\ \A d \in Calls : SameCall(cs[d], calls'[d])
    BY <2>1, <2>2, WitnessedSame
  <2> QED BY <1>5, <1>6, <1>8, <1>9, <2>1, <2>3
<1>10. ASSUME NEW c \in Calls, NEW x \in Call, InHand(x), rows' = rows,
              calls' = [calls EXCEPT ![c] = x]
       PROVE /\ calls' \in [Calls -> Call]
             /\ \A d \in Calls : InHand(calls[d])'
  <2>1. calls' \in [Calls -> Call] /\ calls'[c] = x /\ \A d \in Calls \ {c} : calls'[d] = calls[d]
    BY <1>10 DEF TypeOK
  <2>2. SameCall(x, calls'[c]) /\ \A d \in Calls \ {c} : SameCall(calls[d], calls'[d])
    BY <2>1 DEF SameCall
  <2> QED BY <1>8, <1>10, <2>1, <2>2
<1>11. IdleCall \in Call /\ InHand(IdleCall)
  BY IdleCallType DEF IdleCall, InHand
<1>12. ASSUME NEW c \in Calls, NEW from, NEW ok, NEW x, ok => x \in Call /\ InHand(x),
              CallStep(c, from, ok, x), rows' = rows, issued' = issued
       PROVE TokensInv'
  <2>1. CASE ok
    BY <1>5, <1>6, <1>10, <1>12, <2>1 DEF CallStep
  <2>2. CASE ~ok
    BY <1>5, <1>6, <1>10, <1>11, <1>12, <2>2 DEF CallStep
  <2> QED BY <2>1, <2>2
<1>13. ASSUME NEW c \in Calls, NEW y \in Call, y.signer = calls[c].signer,
              y.user = calls[c].user, y.pc # "load", calls[c].pc \notin {"idle", "load"},
              y.pc \in {"check", "checking"} => y.repo \in Repos
       PROVE InHand(y)
  BY <1>13 DEF InHand
<1>20. ASSUME NEW c \in Calls, NEW s \in Subjects, NEW u \in Users, NEW e \in Emails,
              NEW v \in BOOLEAN, Login(c, s, u, e, v)
       PROVE TokensInv'
  <2> DEFINE x == MintCall("login", u, server, "principal")
  <2>1. x \in Call /\ InHand(x)
    BY <1>20, NoCheckType DEF Login, MintCall, IdleCall, Call, InHand, KeysInv, KeysTypeOK
  <2> QED BY <1>9, <1>20, <2>1 DEF Login, Untouched, keyVars
<1>21. ASSUME NEW c \in Calls, NEW u \in Users, NEW k \in Kids, AuthctlMint(c, u, k)
       PROVE TokensInv'
  <2> DEFINE x == MintCall("authctl", u, Meta(k), "load")
  <2>1. Meta(k) \in Signer /\ SignerRight(Meta(k)) /\ Meta(k).pc = "load"
    BY <1>21
    DEF AuthctlMint, ActiveRow, Meta, Signer, SignerRight, KeysInv, KeysTypeOK, KeyRow, Registered
  <2>2. x \in Call /\ InHand(x)
    BY <2>1, NoCheckType DEF MintCall, IdleCall, Call, InHand
  <2> QED BY <1>9, <1>21, <2>2 DEF AuthctlMint, Untouched, keyVars
<1>22. ASSUME NEW c \in Calls, NEW kind \in {"exchange", "check", "lookup"}, NEW t \in issued,
              NEW rs \in SUBSET Repos, Present(c, kind, t, rs)
       PROVE TokensInv'
  <2> DEFINE x == [IdleCall EXCEPT !.pc = "jti", !.kind = kind, !.signer = server,
                                   !.user = t.user, !.parent = t.jti, !.todo = rs]
  <2>1. t.user \in Users /\ t.jti \in Nat
    BY DEF TypeOK, Token
  <2>2. x \in Call /\ InHand(x)
    BY <1>22, <2>1, NoCheckType DEF Present, IdleCall, Call, InHand, KeysInv, KeysTypeOK
  <2> QED BY <1>9, <1>22, <2>2 DEF Present, Untouched, keyVars
<1>23. ASSUME NEW c \in Calls, LoadSigner(c) PROVE TokensInv'
  <2> DEFINE x == [calls[c] EXCEPT !.pc = "principal", !.signer = Loaded(calls[c].signer)]
  <2>1. calls[c].pc = "load" /\ calls[c].signer \in Signer
    BY <1>3, <1>23 DEF LoadSigner, CallStep, Call
  <2>2. ASSUME Loads(calls[c].signer) PROVE x \in Call /\ InHand(x)
    <3>1. SignerRight(calls[c].signer) /\ calls[c].signer.pc = "load" /\ calls[c].user \in Users
      BY <2>1 DEF InHand
    <3>2. /\ Loaded(calls[c].signer) \in Signer /\ SignerRight(Loaded(calls[c].signer))
          /\ Loaded(calls[c].signer).pc = "up"
      BY <2>1, <2>2, <3>1, LoadsRegistered
    <3> DEFINE l == Loaded(calls[c].signer)
    <3>3. calls[c] \in Call /\ x = [calls[c] EXCEPT !.pc = "principal", !.signer = l]
      BY <1>3
    <3> HIDE DEF l, x
    <3>4. x \in Call /\ x.pc = "principal" /\ x.signer = l /\ x.user = calls[c].user
      BY <3>2, <3>3 DEF Call, l
    <3>5. InHand(x)
      BY <3>1, <3>2, <3>4 DEF InHand, l
    <3> QED BY <3>4, <3>5
  <2>3. CallStep(c, "load", Loads(calls[c].signer), x) /\ rows' = rows /\ issued' = issued
    BY <1>3, <1>23 DEF LoadSigner, Untouched, keyVars, Call
  <2> HIDE DEF x
  <2> QED BY <1>12, <2>2, <2>3
<1>24. ASSUME NEW c \in Calls, Principal(c) PROVE TokensInv'
  <2> DEFINE x == [calls[c] EXCEPT !.pc = "done"]
  <2>1. x \in Call
    BY <1>3 DEF Call
  <2>2. InHand(x)
    BY <1>3, <1>13, <1>24, <2>1 DEF Principal, CallStep, Call
  <2>3. /\ CallStep(c, "principal", Active(calls[c].user), x)
        /\ rows' = rows /\ issued' = issued
    BY <1>24 DEF Principal, Untouched, keyVars
  <2> HIDE DEF x
  <2> QED BY <1>12, <2>1, <2>2, <2>3
<1>25. ASSUME NEW c \in Calls, ByJti(c) PROVE TokensInv'
  <2> DEFINE x == [calls[c] EXCEPT !.pc = IF calls[c].kind = "lookup" THEN "lookup" ELSE "find",
                                   !.since = clock]
             ok == \E t \in issued : t.jti = calls[c].parent /\ LoggedIn(t)
             pc == IF calls[c].kind = "lookup" THEN "lookup" ELSE "find"
  <2>0. calls[c] \in Call /\ calls[c].pc = "jti" /\ clock \in Nat
    BY <1>3, <1>25 DEF ByJti, CallStep, KeysInv, KeysTypeOK
  <2>p. pc \in {"lookup", "find"} /\ x = [calls[c] EXCEPT !.pc = pc, !.since = clock]
    OBVIOUS
  <2> HIDE DEF x, pc
  <2>1. x \in Call /\ x.signer = calls[c].signer /\ x.user = calls[c].user /\ x.pc = pc
    BY <2>0, <2>p DEF Call
  <2>2. InHand(x)
    BY <1>13, <2>0, <2>1, <2>p
  <2> USE DEF x
  <2>3. CallStep(c, "jti", ok, x) /\ rows' = rows /\ issued' = issued
    BY <1>25 DEF ByJti, Untouched, keyVars
  <2> HIDE DEF x, ok
  <2> QED BY <1>12, <2>1, <2>2, <2>3
<1>a. ASSUME NEW c \in Calls, NEW to \in Checking, calls[c].pc \in {"lookup", "check"},
             to = "checking" => calls[c].repo \in Repos
      PROVE  Begins(calls[c], to) \in Call /\ InHand(Begins(calls[c], to))
  <2> DEFINE x == Begins(calls[c], to)
             now == Asked(calls[c]) \cap Writable(live, writers, calls[c])
             new == Begun(now)
  <2>1. calls[c] \in Call
    BY <1>3
  <2>2. now \in SUBSET Repos
    BY <2>1, AskedType
  <2> HIDE DEF now
  <2>3. new \in CheckRecord(Repos)
    BY <2>2 DEF Begun, CheckRecord
  <2> HIDE DEF new
  <2>4. x = [calls[c] EXCEPT !.pc = to, !.check = new]
    BY DEF Begins, new, now
  <2>5. to \in {"checking", "listing"}
    BY DEF Checking
  <2> HIDE DEF x
  <2>6. /\ x \in Call /\ x.signer = calls[c].signer /\ x.user = calls[c].user /\ x.pc = to
        /\ x.repo = calls[c].repo
    BY <2>1, <2>3, <2>4, <2>5 DEF Call
  <2>7. InHand(x)
    BY <1>a, <1>13, <2>5, <2>6
  <2> QED BY <2>6, <2>7 DEF x
<1>26. ASSUME NEW c \in Calls, Lookup(c) PROVE TokensInv'
  <2> DEFINE x == Begins(calls[c], "listing")
  <2>1. calls[c].pc = "lookup"
    BY <1>26 DEF Lookup, CallStep
  <2>2. x \in Call /\ InHand(x)
    BY <1>a, <2>1 DEF Checking
  <2>3. CallStep(c, "lookup", TRUE, x) /\ rows' = rows /\ issued' = issued
    BY <1>26 DEF Lookup, Untouched, keyVars
  <2> HIDE DEF x
  <2> QED BY <1>12, <2>2, <2>3
<1>b. ASSUME NEW c \in Calls, Listed(c) PROVE TokensInv'
  <2>1. PICK got \in Outcomes(calls[c].check, Repos) :
          CallStep(c, "listing", TRUE,
                   [calls[c] EXCEPT !.pc = "done", !.todo = {}, !.got = got,
                                    !.check = NoCheck, !.torn = TornBy(calls[c].check, got)])
    BY <1>b DEF Listed
  <2> DEFINE torn == TornBy(calls[c].check, got)
             x == [calls[c] EXCEPT !.pc = "done", !.todo = {}, !.got = got,
                                   !.check = NoCheck, !.torn = torn]
  <2>2. calls[c] \in Call /\ calls[c].pc = "listing"
    BY <1>3, <2>1 DEF CallStep
  <2>3. got \in SUBSET Repos /\ torn \in SUBSET Repos /\ NoCheck \in CheckRecord(Repos)
    BY DEF Outcomes, TornBy, NoCheck, CheckRecord
  <2>4. CallStep(c, "listing", TRUE, x) /\ rows' = rows /\ issued' = issued
    BY <1>b, <2>1 DEF Listed, Untouched, keyVars
  <2> HIDE DEF torn
  <2>5. x \in Call /\ x.signer = calls[c].signer /\ x.user = calls[c].user /\ x.pc = "done"
    BY <2>2, <2>3 DEF Call
  <2> HIDE DEF x
  <2>6. InHand(x)
    BY <1>13, <2>2, <2>5
  <2> QED BY <1>12, <2>4, <2>5, <2>6
<1>27. ASSUME NEW c \in Calls, NEW r \in Repos, NEW g \in SUBSET Repos,
              calls[c].pc \in {"find", "checking"}
       PROVE Judged(calls[c], r, g) \in Call /\ InHand(Judged(calls[c], r, g))
  <2> DEFINE x == Judged(calls[c], r, g)
             todo == calls[c].todo \ {r}
             got == calls[c].got \cup g
             torn == calls[c].torn \cup TornBy(calls[c].check, g)
             pc == IF calls[c].todo = {r} THEN "done" ELSE "find"
  <2>1. calls[c] \in Call
    BY <1>3
  <2>2. /\ todo \in SUBSET Repos /\ got \in SUBSET Repos /\ torn \in SUBSET Repos
        /\ NoCheck \in CheckRecord(Repos) /\ pc \in {"done", "find"}
    BY <2>1 DEF Call, TornBy, NoCheck, CheckRecord
  <2>3. x = [calls[c] EXCEPT !.todo = todo, !.repo = NoRepo, !.got = got, !.check = NoCheck,
                             !.torn = torn, !.pc = pc]
    BY DEF Judged
  <2> HIDE DEF todo, got, torn, pc, x
  <2>4. x \in Call /\ x.signer = calls[c].signer /\ x.user = calls[c].user /\ x.pc = pc
    BY <2>1, <2>2, <2>3 DEF Call
  <2>5. InHand(x)
    BY <1>13, <1>27, <2>2, <2>4
  <2> QED BY <2>4, <2>5 DEF x
<1>28. ASSUME NEW c \in Calls, NEW r \in Repos, Find(c, r) PROVE TokensInv'
  <2> DEFINE x == [calls[c] EXCEPT !.pc = "check", !.repo = r]
             y == IF r \in live THEN x ELSE Judged(calls[c], r, {})
  <2>0. calls[c] \in Call /\ calls[c].pc = "find"
    BY <1>3, <1>28 DEF Find, CallStep
  <2>1. /\ x \in Call /\ x.signer = calls[c].signer /\ x.user = calls[c].user /\ x.pc = "check"
        /\ x.repo = r
    BY <2>0 DEF Call
  <2> HIDE DEF x
  <2>2. InHand(x)
    BY <1>13, <2>0, <2>1
  <2> USE DEF x
  <2>3. /\ CallStep(c, "find", r \in live \/ calls[c].kind = "check", y)
        /\ rows' = rows /\ issued' = issued
    BY <1>28 DEF Find, Untouched, keyVars
  <2>4. y \in Call /\ InHand(y)
    BY <1>27, <2>1, <2>2, <2>3 DEF CallStep
  <2> HIDE DEF y
  <2> QED BY <1>12, <2>3, <2>4
<1>29. ASSUME NEW c \in Calls, Check(c) PROVE TokensInv'
  <2> DEFINE x == Begins(calls[c], "checking")
  <2>1. calls[c].pc = "check"
    BY <1>29 DEF Check, CallStep
  <2>2. calls[c].repo \in Repos
    BY <2>1 DEF InHand
  <2>3. x \in Call /\ InHand(x)
    BY <1>a, <2>1, <2>2 DEF Checking
  <2>4. CallStep(c, "check", calls[c].repo \in live, x) /\ rows' = rows /\ issued' = issued
    BY <1>29 DEF Check, Untouched, keyVars
  <2> HIDE DEF x
  <2> QED BY <1>12, <2>3, <2>4
<1>c. ASSUME NEW c \in Calls, Checked(c) PROVE TokensInv'
  <2>1. PICK got \in Answers(calls[c]) :
          CallStep(c, "checking", got # {} \/ calls[c].kind = "check",
                   Judged(calls[c], calls[c].repo, got))
    BY <1>c DEF Checked
  <2>2. calls[c].pc = "checking" /\ calls[c].repo \in Repos
    BY <2>1 DEF CallStep, InHand
  <2>3. got \in SUBSET Repos
    BY <2>2 DEF Answers, Outcomes
  <2>4. Judged(calls[c], calls[c].repo, got) \in Call /\ InHand(Judged(calls[c], calls[c].repo, got))
    BY <1>27, <2>2, <2>3
  <2>5. rows' = rows /\ issued' = issued
    BY <1>c DEF Checked, Untouched, keyVars
  <2> QED BY <1>12, <2>1, <2>4, <2>5
<1>30. ASSUME NEW c \in Calls, Done(c) PROVE TokensInv'
  <2> DEFINE x == calls[c]
             kind == IF x.kind = "exchange" THEN "authz" ELSE "authn"
             t == [jti |-> Cardinality(issued) + 1, kind |-> kind, user |-> x.user,
                   kid |-> x.signer.kid, key |-> x.signer.key, repos |-> x.got,
                   parent |-> x.parent, since |-> x.since, expires |-> Expiry(kind)]
  <2>1. /\ x.pc = "done" /\ calls' = [calls EXCEPT ![c] = IdleCall] /\ rows' = rows
        /\ issued' = issued \/ (/\ Cardinality(issued) + 1 <= MaxTokens
                                /\ issued' = issued \cup {t})
    BY <1>30 DEF Done, CallStep, Untouched, keyVars
  <2>2. calls' \in [Calls -> Call] /\ \A d \in Calls : InHand(calls[d])'
    BY <1>10, <1>11, <2>1
  <2>3. CASE issued' = issued
    BY <1>5, <1>6, <2>2, <2>3
  <2>4. CASE Cardinality(issued) + 1 <= MaxTokens /\ issued' = issued \cup {t}
    <3>1. x.user \in Users /\ x.signer.pc = "up" /\ SignerRight(x.signer)
      BY <2>1 DEF InHand
    <3>2. x.signer.kid \in Kids /\ Registered(x.signer.kid) /\ x.signer.key = rows[x.signer.kid].key
      BY <3>1 DEF SignerRight
    <3>3. x.signer.key \in Nat
      BY <3>2 DEF KeysInv, KeysTypeOK, KeyRow
    <3>4. Expiry(kind) \in Nat
      BY TokensAssumption DEF Expiry, KeysInv, KeysTypeOK
    <3>5. Cardinality(issued) + 1 \in Nat
      BY FS_CardinalityType
    <3>6. t \in Token
      BY <1>3, <3>1, <3>2, <3>3, <3>4, <3>5 DEF Call, Token
    <3>7. issued' \subseteq Token
      BY <2>4, <3>6 DEF TypeOK
    <3>8. SignedByRegisteredKey'
      BY <2>1, <2>4, <3>2 DEF SignedByRegisteredKey, Registered
    <3>9. IsFiniteSet(issued)'
      BY <2>4, FS_AddElement
    <3> QED BY <1>6, <2>2, <3>7, <3>8, <3>9
  <2> QED BY <2>1, <2>3, <2>4
<1>31. \A d \in Calls : SameCall(calls[d], calls[d])
  BY DEF SameCall
<1>32. ASSUME calls' = calls, issued' = issued PROVE TokensInv'
  BY <1>7, <1>31, <1>32 DEF TypeOK
<1>33. ASSUME NEW us, NEW rs, NEW ws, issued' = issued,
              \/ calls' = Witnessed(calls, us, rs, ws)
              \/ calls' = Committed(Witnessed(calls, us, rs, ws), rs, ws)
       PROVE TokensInv'
  <2>1. calls \in [Calls -> Call]
    BY DEF TypeOK
  <2> DEFINE cs == Witnessed(calls, us, rs, ws)
  <2>2. cs \in [Calls -> Call] /\ \A d \in Calls : SameCall(calls[d], cs[d])
    BY <2>1, WitnessedSame
  <2>3. CASE calls' = cs
    BY <1>7, <1>33, <2>2, <2>3
  <2>4. CASE calls' = Committed(cs, rs, ws)
    <3> HIDE DEF cs
    <3>1. calls' \in [Calls -> Call] /\ \A d \in Calls : SameCall(cs[d], calls'[d])
      BY <2>2, <2>4, CommittedSame DEF CommittedCall
    <3>2. \A d \in Calls : SameCall(calls[d], calls'[d])
      BY <2>2, <3>1 DEF SameCall
    <3> QED BY <1>7, <1>33, <3>1, <3>2
  <2> QED BY <1>33, <2>3, <2>4
<1>34. ASSUME NEW c \in Calls, Abort(c) PROVE TokensInv'
  BY <1>7, <1>11, <1>31, <1>34 DEF Abort, KeysOnly, TypeOK
<1>35. ASSUME Shutdown PROVE TokensInv'
  BY <1>7, <1>11, <1>31, <1>35 DEF Shutdown, KeysOnly, TypeOK
<1>36. ASSUME AdminWrite PROVE TokensInv'
  BY <1>33, <1>36 DEF AdminWrite
<1>37. ASSUME NEW rs, NEW ws, ChangeAccess(rs, ws) PROVE TokensInv'
  BY <1>33, <1>37 DEF ChangeAccess
<1>38. ASSUME KeyStep \/ Tick \/ (\E p \in Procs : CrashProc(p)) \/ UNCHANGED vars
       PROVE TokensInv'
  BY <1>32, <1>38 DEF KeyStep, Tick, CrashProc, KeysOnly, vars
<1>39. ASSUME NEW c \in Calls, CallNext(c) PROVE TokensInv'
  BY <1>23, <1>24, <1>25, <1>26, <1>28, <1>29, <1>30, <1>39, <1>b, <1>c DEF CallNext
<1>40. ASSUME NEW c \in Calls, NEW t \in issued, NEW rs \in SUBSET Repos,
              Present(c, "lookup", t, Repos) \/ Present(c, "exchange", t, rs)
              \/ Present(c, "check", t, rs)
       PROVE TokensInv'
  BY <1>22, <1>40
<1> QED
  BY <1>20, <1>21, <1>34, <1>35, <1>36, <1>37, <1>38, <1>39, <1>40 DEF Next

\* TokensInv holds throughout.
LEMMA TokensInvariant == Spec => []TokensInv
  BY TokensInitInv, TokensNextInv, PTL DEF Spec

\* The type invariant holds.
THEOREM TypeCorrect == Spec => []TypeOK
<1>1. TokensInv => TypeOK
  BY DEF TokensInv
<1> QED BY <1>1, TokensInvariant, PTL

\* Every token is signed with the key registered under its kid (sign_authn,
\* sign_authz), although keys are generated and the server and lore-authctl load
\* them at any time.
THEOREM TokensSignedByRegisteredKey == Spec => []SignedByRegisteredKey
<1>1. TokensInv => SignedByRegisteredKey
  BY DEF TokensInv
<1> QED BY <1>1, TokensInvariant, PTL

-----------------------------------------------------------------------------
(* Exchanges, checks and lookups *)

\* A jti names one token, and the next one is free.
Numbered ==
    /\ \A t \in issued : t.jti <= Cardinality(issued)
    /\ \A t1, t2 \in issued : t1.jti = t2.jti => t1 = t2

\* The token that a call presents was issued to the call's account.
Presented(x) == \E t \in issued : t.jti = x.parent /\ t.user = x.user

LoggedInBy(x) == \E t \in issued : /\ t.jti = x.parent /\ t.kind = "authn"
                                   /\ t.user = x.user /\ x.since < t.expires

\* What the steps of a call that are behind it have found out
Verified(x) ==
    /\ x.pc \in {"load", "principal"} => x.kind \in {"login", "authctl"}
    /\ x.pc \in {"jti", "lookup", "listing", "find", "check", "checking"} => x.kind \in {"exchange", "check", "lookup"}
    /\ x.kind \in {"exchange", "check", "lookup"} =>
          Presented(x) /\ (x.pc # "jti" => LoggedInBy(x))

\* What a call has got, it has seen, or a torn check said so; its check in flight
\* knows of nothing else.  The account was active if it was looked up.
WasTrue(x) ==
    /\ x.got \subseteq x.seen \cup x.torn
    /\ x.pc \in Checking => x.check.ever \subseteq x.seen
    /\ x.pc \in {"lookup", "listing", "find", "check", "checking", "done"} => x.userSeen = TRUE
    /\ x.pc \in {"lookup", "listing"} \/ (x.pc = "jti" /\ x.kind = "lookup") => x.todo = Repos
    /\ x.pc \in {"check", "checking"} => x.repo \in x.todo

\* The history of x knows a state.
Knows(x, us, rs, ws) ==
    /\ About(x) \cap Writable(rs, ws, x) \subseteq x.seen
    /\ us[x.user].status = "active" => x.userSeen = TRUE

Noticed(x) == Knows(x, users, live, writers)

ExchangesInv ==
    /\ Numbered
    /\ \A t \in issued : t.kind = "authz" => LoggedInBy(t)
    /\ \A c \in Calls : calls[c].pc # "idle" =>
          Verified(calls[c]) /\ WasTrue(calls[c]) /\ Noticed(calls[c])

\* Witnessing keeps what was true and notices the new state.
LEMMA WitnessedTrue ==
  ASSUME NEW cs \in [Calls -> Call], NEW us, NEW rs, NEW ws, NEW c \in Calls,
         cs[c].pc # "idle", WasTrue(cs[c])
  PROVE  LET n == Witnessed(cs, us, rs, ws)[c] IN WasTrue(n) /\ Knows(n, us, rs, ws)
<1> DEFINE x == cs[c]
           n == [x EXCEPT !.seen = @ \cup (About(x) \cap Writable(rs, ws, x)),
                          !.userSeen = @ \/ us[x.user].status = "active"]
<1>1. Witnessed(cs, us, rs, ws)[c] = n
  BY DEF Witnessed
<1>2. x \in Call
  OBVIOUS
<1>3. /\ n.pc = x.pc /\ n.kind = x.kind /\ n.todo = x.todo /\ n.repo = x.repo /\ n.got = x.got
      /\ n.user = x.user /\ n.check = x.check /\ n.torn = x.torn
      /\ n.seen = x.seen \cup (About(x) \cap Writable(rs, ws, x))
  BY <1>2 DEF Call
<1>4. n.userSeen = (x.userSeen \/ us[x.user].status = "active")
  BY <1>2 DEF Call
<1>5. x.userSeen \in BOOLEAN
  BY <1>2 DEF Call
<1>6. us[x.user].status = "active" \/ x.userSeen = TRUE => n.userSeen = TRUE
  BY <1>4
<1>7. Writable(rs, ws, n) = Writable(rs, ws, x) /\ About(n) = About(x)
  BY <1>3 DEF Writable, About
<1> HIDE DEF n, x
<1>8. WasTrue(n)
  BY <1>3, <1>6 DEF WasTrue, x
<1>9. Knows(n, us, rs, ws)
  BY <1>3, <1>6, <1>7 DEF Knows
<1> QED BY <1>1, <1>8, <1>9

\* A commit into the checks in flight keeps what was true.
LEMMA CommittedTrue ==
  ASSUME NEW cs \in [Calls -> Call], NEW us, NEW rs, NEW ws, NEW c \in Calls,
         WasTrue(cs[c]), Knows(cs[c], us, rs, ws)
  PROVE  LET n == Committed(cs, rs, ws)[c] IN WasTrue(n) /\ Knows(n, us, rs, ws)
<1> DEFINE x == cs[c]
           n == Committed(cs, rs, ws)[c]
           now == Asked(x) \cap Writable(rs, ws, x)
<1>1. /\ x \in Call /\ SameCall(x, n) /\ n.seen = x.seen /\ n.userSeen = x.userSeen
      /\ n.torn = x.torn
      /\ n.pc \in Checking => n.check = Noted(x.check, now)
  <2>1. CommittedCall(x, n, rs, ws)
    BY CommittedSame
  <2> QED BY <2>1 DEF CommittedCall
<1>2. About(n) = About(x) /\ Writable(rs, ws, n) = Writable(rs, ws, x)
  BY <1>1 DEF SameCall, About, Writable
<1> HIDE DEF n, x
<1>3. Knows(n, us, rs, ws)
  BY <1>1, <1>2 DEF Knows, SameCall, x
<1>4. ASSUME n.pc \in Checking PROVE n.check.ever \subseteq n.seen
  <2>1. x.pc = n.pc /\ x.check.ever \subseteq x.seen
    BY <1>1, <1>4 DEF SameCall, WasTrue, x
  <2>2. Asked(x) \subseteq About(x)
    <3>1. CASE x.pc = "listing"
      <4>1. x.todo = Repos
        BY <3>1 DEF WasTrue, x
      <4> QED BY <1>1, <4>1 DEF Asked, About, Call
    <3>2. CASE x.pc = "checking"
      <4>1. x.repo \in x.todo /\ x.todo \subseteq Repos
        BY <1>1, <3>2 DEF WasTrue, Call, x
      <4> QED BY <4>1, TokensAssumption DEF Asked, About
    <3> QED BY <1>4, <2>1, <3>1, <3>2 DEF Checking
  <2>3. now \subseteq x.seen
    BY <2>2 DEF Knows, x
  <2>4. n.check.ever = x.check.ever \cup now
    BY <1>1, <1>4 DEF Noted
  <2> QED BY <1>1, <2>1, <2>3, <2>4
<1>5. WasTrue(n)
  BY <1>1, <1>4 DEF WasTrue, SameCall, Checking, x
<1> QED BY <1>3, <1>5 DEF n

\* Init establishes the invariant.
LEMMA ExchangesInitInv == Init => ExchangesInv
  BY DEF Init, IdleCall, ExchangesInv, Numbered

\* Every action keeps the invariant.
LEMMA ExchangesNextInv == TokensInv /\ ExchangesInv /\ [Next]_vars => ExchangesInv'
<1> SUFFICES ASSUME TokensInv, ExchangesInv, [Next]_vars PROVE ExchangesInv'
  OBVIOUS
<1> USE DEF ExchangesInv
<1>1. calls \in [Calls -> Call]
  BY DEF TokensInv, TypeOK
<1>2. ASSUME issued' = issued
      PROVE Numbered' /\ (\A t \in issued : t.kind = "authz" => LoggedInBy(t))'
  BY <1>2 DEF Numbered, LoggedInBy
<1>3. ASSUME NEW d \in Calls, NEW x, SameCall(x, calls'[d]), issued \subseteq issued', Verified(x)
      PROVE Verified(calls[d])'
  BY <1>3 DEF SameCall, Verified, Presented, LoggedInBy
<1>4. ASSUME NEW d \in Calls, calls'[d] = calls[d], calls[d].pc # "idle", issued \subseteq issued',
             users' = users, live' = live, writers' = writers
      PROVE (Verified(calls[d]) /\ WasTrue(calls[d]) /\ Noticed(calls[d]))'
  <2>1. SameCall(calls[d], calls'[d])
    BY <1>4 DEF SameCall
  <2>2. Verified(calls[d])'
    BY <1>3, <1>4, <2>1
  <2> QED BY <1>4, <2>2 DEF WasTrue, Noticed, Knows
<1>5. ASSUME issued' = issued, users' = users, live' = live, writers' = writers,
             \A d \in Calls : calls'[d] = IdleCall \/ calls'[d] = calls[d]
      PROVE ExchangesInv'
  BY <1>2, <1>4, <1>5 DEF IdleCall
<1>6. ASSUME NEW cs \in [Calls -> Call], issued' = issued,
             \/ calls' = Witnessed(cs, users', live', writers')
             \/ calls' = Committed(Witnessed(cs, users', live', writers'), live', writers'),
             \A d \in Calls : cs[d].pc # "idle" => Verified(cs[d]) /\ WasTrue(cs[d])
      PROVE ExchangesInv'
  <2>0. PICK us, rs, ws : us = users' /\ rs = live' /\ ws = writers'
    OBVIOUS
  <2> DEFINE ds == Witnessed(cs, us, rs, ws)
  <2>1. ASSUME NEW d \in Calls, calls'[d].pc # "idle"
        PROVE (Verified(calls[d]) /\ WasTrue(calls[d]) /\ Noticed(calls[d]))'
    <3>1. ds \in [Calls -> Call] /\ SameCall(cs[d], ds[d])
      BY WitnessedSame
    <3>2. calls' = ds \/ calls' = Committed(ds, rs, ws)
      BY <1>6, <2>0
    <3>w. cs[d].pc # "idle" => WasTrue(ds[d]) /\ Knows(ds[d], us, rs, ws)
      BY <1>6, WitnessedTrue
    <3> HIDE DEF ds
    <3>3. SameCall(ds[d], calls'[d])
      <4>1. SameCall(ds[d], ds[d])
        BY DEF SameCall
      <4>2. SameCall(ds[d], Committed(ds, rs, ws)[d])
        BY <3>1, CommittedSame DEF CommittedCall
      <4> QED BY <3>2, <4>1, <4>2
    <3>4. SameCall(cs[d], calls'[d]) /\ cs[d].pc # "idle"
      BY <2>1, <3>1, <3>3 DEF SameCall
    <3>5. Verified(calls[d])'
      BY <1>3, <1>6, <3>4
    <3>6. WasTrue(calls'[d]) /\ Knows(calls'[d], us, rs, ws)
      BY <3>1, <3>2, <3>4, <3>w, CommittedTrue
    <3> QED BY <2>0, <3>5, <3>6 DEF WasTrue, Noticed, Knows, Writable
  <2> QED BY <1>2, <1>6, <2>1
<1>7. ASSUME NEW c \in Calls, NEW x \in Call, Begin(c, x), issued' = issued, live' = live,
             writers' = writers, Verified(x), WasTrue(x)
      PROVE ExchangesInv'
  <2> DEFINE cs == [calls EXCEPT ![c] = x]
  <2>1. cs \in [Calls -> Call] /\ \A d \in Calls : cs[d].pc # "idle" => Verified(cs[d]) /\ WasTrue(cs[d])
    BY <1>1, <1>7
  <2>2. calls' = Witnessed(cs, users', live', writers')
    BY <1>7 DEF Begin
  <2> HIDE DEF cs
  <2> QED BY <1>6, <1>7, <2>1, <2>2
<1>8. ASSUME NEW c \in Calls, NEW from, NEW ok, NEW x,
             ok => Verified(x) /\ WasTrue(x) /\ Noticed(x),
             CallStep(c, from, ok, x), UNCHANGED accountVars, issued' = issued, Untouched
      PROVE ExchangesInv'
  <2> DEFINE y == IF ok THEN x ELSE IdleCall
  <2>1. users' = users /\ live' = live /\ writers' = writers
    BY <1>8 DEF accountVars, Untouched
  <2>2. calls'[c] = y /\ \A d \in Calls \ {c} : calls'[d] = calls[d]
    BY <1>1, <1>8 DEF CallStep
  <2>3. CASE ok
    <3>1. calls'[c] = x
      BY <2>2, <2>3
    <3>2. (Verified(calls[c]) /\ WasTrue(calls[c]) /\ Noticed(calls[c]))'
      BY <1>8, <2>1, <2>3, <3>1
      DEF Verified, Presented, LoggedInBy, WasTrue, Noticed, Knows
    <3> QED BY <1>2, <1>4, <1>8, <2>1, <2>2, <3>2
  <2>4. CASE ~ok
    BY <1>5, <1>8, <2>1, <2>2, <2>4
  <2> QED BY <2>3, <2>4
<1>20. ASSUME NEW c \in Calls, NEW s \in Subjects, NEW u \in Users, NEW e \in Emails,
              NEW v \in BOOLEAN, Login(c, s, u, e, v)
       PROVE ExchangesInv'
  <2> DEFINE x == MintCall("login", u, server, "principal")
  <2>1. x \in Call
    BY NoCheckType DEF MintCall, IdleCall, Call, TokensInv, KeysInv, KeysTypeOK
  <2>2. Verified(x) /\ WasTrue(x)
    BY DEF MintCall, IdleCall, Verified, WasTrue, Checking
  <2> QED BY <1>7, <1>20, <2>1, <2>2 DEF Login, Untouched
<1>21. ASSUME NEW c \in Calls, NEW u \in Users, NEW k \in Kids, AuthctlMint(c, u, k)
       PROVE ExchangesInv'
  <2> DEFINE x == MintCall("authctl", u, Meta(k), "load")
  <2>1. Meta(k) \in Signer
    BY DEF Meta, Signer, TokensInv, KeysInv, KeysTypeOK, KeyRow
  <2>2. x \in Call
    BY <2>1, NoCheckType DEF MintCall, IdleCall, Call
  <2>3. Verified(x) /\ WasTrue(x)
    BY DEF MintCall, IdleCall, Verified, WasTrue, Checking
  <2> QED BY <1>7, <1>21, <2>2, <2>3 DEF AuthctlMint, Untouched
<1>22. ASSUME NEW c \in Calls, NEW kind \in {"exchange", "check", "lookup"}, NEW t \in issued,
              NEW rs \in SUBSET Repos, kind = "lookup" => rs = Repos, Present(c, kind, t, rs)
       PROVE ExchangesInv'
  <2> DEFINE x == [IdleCall EXCEPT !.pc = "jti", !.kind = kind, !.signer = server,
                                   !.user = t.user, !.parent = t.jti, !.todo = rs]
  <2>1. t.user \in Users /\ t.jti \in Nat
    BY DEF TokensInv, TypeOK, Token
  <2>2. x \in Call
    BY <2>1, NoCheckType DEF IdleCall, Call, TokensInv, KeysInv, KeysTypeOK
  <2>3. /\ x.pc = "jti" /\ x.kind = kind /\ x.user = t.user /\ x.parent = t.jti /\ x.todo = rs
        /\ x.got = {}
    BY DEF IdleCall
  <2>4. Verified(x) /\ WasTrue(x)
    BY <1>22, <2>3 DEF Verified, Presented, WasTrue, Checking
  <2> QED BY <1>7, <1>22, <2>2, <2>4 DEF Present, Untouched
<1>23. ASSUME NEW c \in Calls, calls[c].pc # "idle", NEW y, Verified(y),
              y.pc \in {"principal", "lookup", "find", "done"},
              y.kind = calls[c].kind, y.user = calls[c].user, y.todo = calls[c].todo,
              y.got = calls[c].got, y.seen = calls[c].seen, y.userSeen = calls[c].userSeen,
              y.torn = calls[c].torn,
              y.pc # "principal" => Active(y.user), y.pc = "lookup" => y.todo = Repos
       PROVE Verified(y) /\ WasTrue(y) /\ Noticed(y)
  BY <1>23 DEF WasTrue, Noticed, Knows, About, Writable, Active, Checking
<1>24. ASSUME NEW c \in Calls, LoadSigner(c) PROVE ExchangesInv'
  <2> DEFINE x == [calls[c] EXCEPT !.pc = "principal", !.signer = Loaded(calls[c].signer)]
  <2>1. calls[c].pc = "load" /\ calls[c] \in Call
    BY <1>1, <1>24 DEF LoadSigner, CallStep
  <2>2. /\ x.pc = "principal" /\ x.kind = calls[c].kind /\ x.user = calls[c].user
        /\ x.todo = calls[c].todo /\ x.got = calls[c].got /\ x.seen = calls[c].seen
        /\ x.userSeen = calls[c].userSeen /\ x.torn = calls[c].torn
    BY <2>1 DEF Call
  <2>3. Verified(x)
    BY <2>1, <2>2 DEF Verified
  <2>4. /\ CallStep(c, "load", Loads(calls[c].signer), x)
        /\ UNCHANGED accountVars /\ issued' = issued /\ Untouched
    BY <1>24, <2>1 DEF LoadSigner, Call
  <2> HIDE DEF x
  <2>5. Verified(x) /\ WasTrue(x) /\ Noticed(x)
    BY <1>23, <2>1, <2>2, <2>3
  <2> QED BY <1>8, <2>4, <2>5
<1>25. ASSUME NEW c \in Calls, Principal(c) PROVE ExchangesInv'
  <2> DEFINE x == [calls[c] EXCEPT !.pc = "done"]
  <2>1. calls[c].pc = "principal" /\ calls[c] \in Call
    BY <1>1, <1>25 DEF Principal, CallStep
  <2>2. /\ x.pc = "done" /\ x.kind = calls[c].kind /\ x.user = calls[c].user
        /\ x.todo = calls[c].todo /\ x.got = calls[c].got /\ x.seen = calls[c].seen
        /\ x.userSeen = calls[c].userSeen /\ x.torn = calls[c].torn
    BY <2>1 DEF Call
  <2>3. Verified(x)
    BY <2>1, <2>2 DEF Verified
  <2>4. /\ CallStep(c, "principal", Active(calls[c].user), x)
        /\ UNCHANGED accountVars /\ issued' = issued /\ Untouched
    BY <1>25 DEF Principal
  <2> HIDE DEF x
  <2>5. Active(calls[c].user) => Verified(x) /\ WasTrue(x) /\ Noticed(x)
    BY <1>23, <2>1, <2>2, <2>3
  <2> QED BY <1>8, <2>4, <2>5
<1>26. ASSUME NEW c \in Calls, ByJti(c) PROVE ExchangesInv'
  <2> DEFINE x == [calls[c] EXCEPT !.pc = IF calls[c].kind = "lookup" THEN "lookup" ELSE "find",
                                   !.since = clock]
             ok == \E t \in issued : t.jti = calls[c].parent /\ LoggedIn(t)
  <2>1. calls[c].pc = "jti" /\ calls[c] \in Call
    BY <1>1, <1>26 DEF ByJti, CallStep
  <2>2. /\ x.pc = IF calls[c].kind = "lookup" THEN "lookup" ELSE "find"
        /\ x.kind = calls[c].kind /\ x.user = calls[c].user
        /\ x.todo = calls[c].todo /\ x.got = calls[c].got /\ x.seen = calls[c].seen
        /\ x.userSeen = calls[c].userSeen /\ x.since = clock /\ x.parent = calls[c].parent
        /\ x.torn = calls[c].torn
    BY <2>1 DEF Call
  <2>3. /\ CallStep(c, "jti", ok, x)
        /\ UNCHANGED accountVars /\ issued' = issued /\ Untouched
    BY <1>26 DEF ByJti
  <2>4. ASSUME ok PROVE Verified(x) /\ WasTrue(x) /\ Noticed(x)
    <3> HIDE DEF x
    <3>1. PICK t \in issued : t.jti = calls[c].parent /\ LoggedIn(t)
      BY <2>4
    <3>2. Verified(calls[c]) /\ WasTrue(calls[c])
      BY <2>1
    <3>3. calls[c].kind \in {"exchange", "check", "lookup"} /\ Presented(calls[c])
      BY <2>1, <3>2 DEF Verified
    <3>4. PICK t0 \in issued : t0.jti = calls[c].parent /\ t0.user = calls[c].user
      BY <3>3 DEF Presented
    <3>5. t = t0
      BY <3>1, <3>4 DEF Numbered
    <3>6. Presented(x) /\ LoggedInBy(x) /\ Active(x.user)
      BY <2>2, <3>1, <3>4, <3>5 DEF Presented, LoggedInBy, LoggedIn
    <3>7. Verified(x)
      BY <2>2, <3>3, <3>6 DEF Verified
    <3>8. x.pc = "lookup" => x.todo = Repos
      BY <2>1, <2>2, <3>2 DEF WasTrue
    <3> QED BY <1>23, <2>1, <2>2, <3>6, <3>7, <3>8
  <2> HIDE DEF x, ok
  <2> QED BY <1>8, <2>3, <2>4
<1>27. ASSUME NEW c \in Calls, NEW y,
              calls[c].pc \in {"lookup", "listing", "find", "check", "checking"},
              y.pc \in {"listing", "find", "check", "checking", "done"}, y.kind = calls[c].kind,
              y.user = calls[c].user, y.parent = calls[c].parent, y.since = calls[c].since
       PROVE Verified(y)
  BY <1>27 DEF Verified, Presented, LoggedInBy
<1>a. ASSUME NEW c \in Calls, NEW to \in Checking,
             calls[c].pc = IF to = "checking" THEN "check" ELSE "lookup"
      PROVE  LET y == Begins(calls[c], to) IN Verified(y) /\ WasTrue(y) /\ Noticed(y)
  <2> DEFINE x == calls[c]
             y == Begins(x, to)
             now == Asked(x) \cap Writable(live, writers, x)
  <2>1. x \in Call /\ WasTrue(x) /\ Noticed(x) /\ to \in {"checking", "listing"}
    BY <1>1, <1>a DEF Checking
  <2>2. /\ y.pc = to /\ y.kind = x.kind /\ y.user = x.user /\ y.parent = x.parent
        /\ y.since = x.since /\ y.todo = x.todo /\ y.got = x.got /\ y.seen = x.seen
        /\ y.repo = x.repo /\ y.userSeen = x.userSeen /\ y.torn = x.torn
        /\ y.check.ever = now
    BY <2>1 DEF Call, Begins, Begun
  <2>3. Asked(x) \subseteq About(x)
    <3>1. CASE to = "listing"
      <4>1. x.todo = Repos
        BY <1>a, <2>1, <3>1 DEF WasTrue
      <4> QED BY <2>1, <4>1 DEF Asked, About, Call
    <3>2. CASE to = "checking"
      <4>1. x.repo \in x.todo /\ x.todo \subseteq Repos
        BY <1>a, <2>1, <3>2 DEF WasTrue, Call
      <4> QED BY <4>1, TokensAssumption DEF Asked, About
    <3> QED BY <2>1, <3>1, <3>2
  <2>4. now \subseteq x.seen
    BY <2>1, <2>3 DEF Noticed, Knows
  <2> HIDE DEF y, now
  <2>5. Verified(y)
    BY <1>27, <1>a, <2>1, <2>2
  <2>6. WasTrue(y)
    <3>1. y.got \subseteq y.seen \cup y.torn /\ y.check.ever \subseteq y.seen
      BY <2>1, <2>2, <2>4 DEF WasTrue
    <3>2. /\ y.userSeen = TRUE
          /\ to = "listing" => y.todo = Repos
          /\ to = "checking" => y.repo \in y.todo
      BY <1>a, <2>1, <2>2 DEF WasTrue
    <3> QED BY <2>1, <2>2, <3>1, <3>2 DEF WasTrue
  <2>7. Noticed(y)
    BY <2>1, <2>2 DEF Noticed, Knows, About, Writable
  <2> QED BY <2>5, <2>6, <2>7 DEF y
<1>28. ASSUME NEW c \in Calls, Lookup(c) PROVE ExchangesInv'
  <2> DEFINE x == Begins(calls[c], "listing")
  <2>1. calls[c].pc = "lookup"
    BY <1>28 DEF Lookup, CallStep
  <2>2. /\ CallStep(c, "lookup", TRUE, x)
        /\ UNCHANGED accountVars /\ issued' = issued /\ Untouched
    BY <1>28 DEF Lookup
  <2>3. Verified(x) /\ WasTrue(x) /\ Noticed(x)
    BY <1>a, <2>1 DEF Checking
  <2> HIDE DEF x
  <2> QED BY <1>8, <2>2, <2>3
<1>b. ASSUME NEW c \in Calls, Listed(c) PROVE ExchangesInv'
  <2>1. PICK got \in Outcomes(calls[c].check, Repos) :
          CallStep(c, "listing", TRUE,
                   [calls[c] EXCEPT !.pc = "done", !.todo = {}, !.got = got,
                                    !.check = NoCheck, !.torn = TornBy(calls[c].check, got)])
    BY <1>b DEF Listed
  <2> DEFINE torn == TornBy(calls[c].check, got)
             x == [calls[c] EXCEPT !.pc = "done", !.todo = {}, !.got = got,
                                   !.check = NoCheck, !.torn = torn]
  <2>2. calls[c].pc = "listing" /\ calls[c] \in Call
    BY <1>1, <2>1 DEF CallStep
  <2>3. /\ x.pc = "done" /\ x.kind = calls[c].kind /\ x.user = calls[c].user
        /\ x.parent = calls[c].parent /\ x.since = calls[c].since
        /\ x.todo = {} /\ x.got = got /\ x.seen = calls[c].seen
        /\ x.userSeen = calls[c].userSeen /\ x.torn = torn
    BY <2>2 DEF Call
  <2>4. /\ CallStep(c, "listing", TRUE, x)
        /\ UNCHANGED accountVars /\ issued' = issued /\ Untouched
    BY <1>b, <2>1 DEF Listed
  <2>5. WasTrue(calls[c]) /\ Noticed(calls[c])
    BY <2>2
  <2>6. calls[c].check.ever \subseteq calls[c].seen /\ calls[c].todo = Repos
    BY <2>2, <2>5 DEF WasTrue, Checking
  <2>7. got \subseteq calls[c].seen \cup torn /\ got \subseteq Repos
    BY <2>6 DEF Outcomes, TornBy
  <2> HIDE DEF x, torn
  <2>8. Verified(x)
    BY <1>27, <2>2, <2>3
  <2>9. WasTrue(x)
    BY <2>2, <2>3, <2>5, <2>7 DEF WasTrue, Checking
  <2>10. Noticed(x)
    BY <2>3, <2>5, <2>6, <2>7 DEF Noticed, Knows, About, Writable
  <2> QED BY <1>8, <2>4, <2>8, <2>9, <2>10
<1>29. ASSUME NEW c \in Calls, NEW r, NEW g, calls[c].pc \in {"find", "checking"},
              g \subseteq calls[c].todo,
              g \subseteq calls[c].seen \cup TornBy(calls[c].check, g)
       PROVE LET y == Judged(calls[c], r, g) IN Verified(y) /\ WasTrue(y) /\ Noticed(y)
  <2> DEFINE y == Judged(calls[c], r, g)
             torn == TornBy(calls[c].check, g)
  <2>1. calls[c] \in Call /\ WasTrue(calls[c]) /\ Noticed(calls[c])
    BY <1>1, <1>29
  <2>2. /\ y.pc = IF calls[c].todo = {r} THEN "done" ELSE "find"
        /\ y.kind = calls[c].kind /\ y.user = calls[c].user
        /\ y.parent = calls[c].parent /\ y.since = calls[c].since
        /\ y.todo = calls[c].todo \ {r} /\ y.got = calls[c].got \cup g
        /\ y.seen = calls[c].seen /\ y.userSeen = calls[c].userSeen
        /\ y.torn = calls[c].torn \cup torn
    BY <2>1 DEF Call, Judged
  <2> HIDE DEF y
  <2>3. Verified(y)
    BY <1>27, <1>29, <2>2
  <2>4. y.got \subseteq y.seen \cup y.torn /\ About(y) \subseteq About(calls[c])
    <3> HIDE DEF torn
    <3> QED BY <1>29, <2>1, <2>2 DEF WasTrue, About, torn
  <2>5. WasTrue(y)
    BY <1>29, <2>1, <2>2, <2>4 DEF WasTrue, Checking
  <2>6. Noticed(y)
    BY <2>1, <2>2, <2>4 DEF Noticed, Knows, Writable
  <2> QED BY <2>3, <2>5, <2>6 DEF y
<1>30. ASSUME NEW c \in Calls, NEW r \in Repos, Find(c, r) PROVE ExchangesInv'
  <2> DEFINE x == [calls[c] EXCEPT !.pc = "check", !.repo = r]
             y == IF r \in live THEN x ELSE Judged(calls[c], r, {})
  <2>1. calls[c].pc = "find" /\ calls[c] \in Call /\ r \in calls[c].todo
    BY <1>1, <1>30 DEF Find, CallStep
  <2>2. /\ x.pc = "check" /\ x.kind = calls[c].kind /\ x.user = calls[c].user
        /\ x.parent = calls[c].parent /\ x.since = calls[c].since /\ x.repo = r
        /\ x.todo = calls[c].todo /\ x.got = calls[c].got /\ x.seen = calls[c].seen
        /\ x.userSeen = calls[c].userSeen /\ x.torn = calls[c].torn
    BY <2>1 DEF Call
  <2>3. /\ CallStep(c, "find", r \in live \/ calls[c].kind = "check", y)
        /\ UNCHANGED accountVars /\ issued' = issued /\ Untouched
    BY <1>30 DEF Find
  <2>4. WasTrue(calls[c]) /\ Noticed(calls[c])
    BY <2>1
  <2> HIDE DEF x
  <2>5. Verified(x)
    BY <1>27, <2>1, <2>2
  <2>6. WasTrue(x) /\ Noticed(x)
    BY <2>1, <2>2, <2>4 DEF WasTrue, Noticed, Knows, About, Writable, Checking
  <2>7. Verified(y) /\ WasTrue(y) /\ Noticed(y)
    <3>1. CASE r \in live
      BY <2>5, <2>6, <3>1
    <3>2. CASE r \notin live
      BY <1>29, <2>1, <3>2
    <3> QED BY <3>1, <3>2
  <2> HIDE DEF y
  <2> QED BY <1>8, <2>3, <2>7
<1>31. ASSUME NEW c \in Calls, Check(c) PROVE ExchangesInv'
  <2> DEFINE x == Begins(calls[c], "checking")
  <2>1. calls[c].pc = "check"
    BY <1>31 DEF Check, CallStep
  <2>2. /\ CallStep(c, "check", calls[c].repo \in live, x)
        /\ UNCHANGED accountVars /\ issued' = issued /\ Untouched
    BY <1>31 DEF Check
  <2>3. Verified(x) /\ WasTrue(x) /\ Noticed(x)
    BY <1>a, <2>1 DEF Checking
  <2> HIDE DEF x
  <2> QED BY <1>8, <2>2, <2>3
<1>c. ASSUME NEW c \in Calls, Checked(c) PROVE ExchangesInv'
  <2>1. PICK got \in Answers(calls[c]) :
          CallStep(c, "checking", got # {} \/ calls[c].kind = "check",
                   Judged(calls[c], calls[c].repo, got))
    BY <1>c DEF Checked
  <2>2. calls[c].pc = "checking" /\ WasTrue(calls[c])
    BY <2>1 DEF CallStep
  <2>3. calls[c].check.ever \subseteq calls[c].seen /\ calls[c].repo \in calls[c].todo
    BY <2>2 DEF WasTrue, Checking
  <2>4. /\ got \subseteq calls[c].todo
        /\ got \subseteq calls[c].seen \cup TornBy(calls[c].check, got)
    BY <2>3 DEF Answers, Outcomes, TornBy
  <2> DEFINE y == Judged(calls[c], calls[c].repo, got)
  <2>5. Verified(y) /\ WasTrue(y) /\ Noticed(y)
    BY <1>29, <2>2, <2>4
  <2>6. UNCHANGED accountVars /\ issued' = issued /\ Untouched
    BY <1>c DEF Checked
  <2> QED BY <1>8, <2>1, <2>5, <2>6
<1>32. ASSUME NEW c \in Calls, Done(c) PROVE ExchangesInv'
  <2> DEFINE x == calls[c]
             kind == IF x.kind = "exchange" THEN "authz" ELSE "authn"
             t == [jti |-> Cardinality(issued) + 1, kind |-> kind, user |-> x.user,
                   kid |-> x.signer.kid, key |-> x.signer.key, repos |-> x.got,
                   parent |-> x.parent, since |-> x.since, expires |-> Expiry(kind)]
  <2>1. /\ x.pc = "done" /\ calls' = [calls EXCEPT ![c] = IdleCall]
        /\ users' = users /\ live' = live /\ writers' = writers
        /\ issued' = issued \/ issued' = issued \cup {t}
    BY <1>32 DEF Done, CallStep, accountVars, Untouched
  <2>2. \A d \in Calls : calls'[d] = IdleCall \/ calls'[d] = calls[d]
    BY <1>1, <2>1
  <2>3. CASE issued' = issued
    BY <1>5, <2>1, <2>2, <2>3
  <2>4. CASE issued' = issued \cup {t}
    <3>1. \A d \in Calls : calls'[d].pc # "idle" =>
             (Verified(calls[d]) /\ WasTrue(calls[d]) /\ Noticed(calls[d]))'
      BY <1>4, <2>1, <2>2, <2>4 DEF IdleCall
    <3>2. /\ t.jti = Cardinality(issued) + 1 /\ t.parent = x.parent /\ t.since = x.since
          /\ t.user = x.user /\ t.kind = kind
      OBVIOUS
    <3> HIDE DEF t
    <3>3. IsFiniteSet(issued) /\ Cardinality(issued) \in Nat /\ \A z \in issued : z.jti \in Nat
      BY FS_CardinalityType DEF TokensInv, TypeOK, Token
    <3>4. t \notin issued
      BY <3>2, <3>3 DEF Numbered
    <3>5. Cardinality(issued') = Cardinality(issued) + 1
      BY <2>4, <3>3, <3>4, FS_AddElement
    <3>6. Numbered'
      BY <2>4, <3>2, <3>3, <3>5 DEF Numbered
    <3>7. t.kind = "authz" => LoggedInBy(x)
      BY <2>1, <3>2 DEF Verified
    <3>8. (\A z \in issued : z.kind = "authz" => LoggedInBy(z))'
      BY <2>4, <3>2, <3>7 DEF LoggedInBy
    <3> QED BY <3>1, <3>6, <3>8
  <2> QED BY <2>1, <2>3, <2>4
<1>33. ASSUME NEW c \in Calls, CallNext(c) PROVE ExchangesInv'
  BY <1>24, <1>25, <1>26, <1>28, <1>30, <1>31, <1>32, <1>33, <1>b, <1>c DEF CallNext
<1>34. ASSUME NEW c \in Calls, Abort(c) PROVE ExchangesInv'
  BY <1>1, <1>5, <1>34 DEF Abort, KeysOnly, accountVars
<1>35. ASSUME Shutdown PROVE ExchangesInv'
  BY <1>1, <1>5, <1>35 DEF Shutdown, KeysOnly, accountVars
<1>36. ASSUME AdminWrite PROVE ExchangesInv'
  BY <1>1, <1>6, <1>36 DEF AdminWrite
<1>37. ASSUME NEW rs, NEW ws, ChangeAccess(rs, ws) PROVE ExchangesInv'
  BY <1>1, <1>6, <1>37 DEF ChangeAccess, accountVars
<1>38. ASSUME KeyStep \/ Tick \/ (\E p \in Procs : CrashProc(p)) \/ UNCHANGED vars
       PROVE ExchangesInv'
  BY <1>5, <1>38 DEF KeyStep, Tick, CrashProc, KeysOnly, accountVars, vars
<1>39. ASSUME NEW c \in Calls, NEW t \in issued, NEW rs \in SUBSET Repos,
              Present(c, "lookup", t, Repos) \/ Present(c, "exchange", t, rs)
              \/ Present(c, "check", t, rs)
       PROVE ExchangesInv'
  BY <1>22, <1>39
<1> QED
  BY <1>20, <1>21, <1>33, <1>34, <1>35, <1>36, <1>37, <1>38, <1>39 DEF Next

\* ExchangesInv holds throughout.
LEMMA ExchangesInvariant == Spec => []ExchangesInv
  BY ExchangesInitInv, ExchangesNextInv, TokensInvariant, PTL DEF Spec

\* exchange_authz, check_user_permission and lookup_user_permissions tell of each
\* resource only what was true at some moment of the call, and answer no account
\* that was not active then, whatever happens to account and access meanwhile,
\* also between the SELECTs of one check (can_access, list_accessible); only a
\* check that two or more commits fell into is excepted.
THEOREM AnswersWereTrue == Spec => []AnswerWasTrue
<1>1. ExchangesInv => AnswerWasTrue
  BY DEF ExchangesInv, WasTrue, AnswerWasTrue
<1> QED BY <1>1, ExchangesInvariant, PTL

\* Every authz token stems from an authn token of its account that was in time
\* when verify_authn looked it up, also when jwt.audience lets authz tokens pass
\* verification.
THEOREM ExchangesInTime == Spec => []ExchangedInTime
<1>1. ExchangesInv => ExchangedInTime
  <2> SUFFICES ASSUME ExchangesInv PROVE ExchangedInTime
    OBVIOUS
  <2>1. \A c \in Calls :
           calls[c].pc \in {"lookup", "find", "check"} \cup Checking => LoggedInBy(calls[c])
    BY DEF ExchangesInv, Verified, Checking
  <2> QED BY <2>1 DEF ExchangesInv, ExchangedInTime, LoggedInBy
<1> QED BY <1>1, ExchangesInvariant, PTL

=============================================================================
