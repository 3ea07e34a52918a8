-------------------------- MODULE AccountDirectory --------------------------
(***************************************************************************)
(* Accounts, the invitations that wait for their first login, and the      *)
(* identities of external providers bound to them: the tables users,       *)
(* identity_invitations and external_identities behind AccountDirectory of *)
(* lore-auth-core.  Every operation is one transaction of SQLite, so one   *)
(* action; what is refused rolls back and changes nothing.                 *)
(*                                                                         *)
(* An invitation is only ever inserted together with its account, so the   *)
(* row is kept under the account.  Both callers pass expires_at = 0 (never)*)
(* and the policy verified_email_invitation.                               *)
(*                                                                         *)
(* A definition X_Fault is X with a plausible bug, kept beside it to show  *)
(* that a property notices; no specification uses it.                      *)
(***************************************************************************)
EXTENDS Integers, Sequences

CONSTANTS
    Users,      \* account ids
    Emails,     \* normalised addresses
    Providers,  \* an id with its issuer
    Subjects,   \* identities at providers, e.g. the `sub' of Google accounts
    ProviderOf, \* Subjects -> Providers
    Bindable,   \* Providers -> addresses its trust policy lets bind: none unless
                \* email_binding = verified_email_invitation, else the allowed domains
    Hosted,     \* Subjects -> hosted domain of a Google account, or NoDomain
    HostedDomains,    \* Providers -> the allowed ones; empty allows all
    NoPersonal, \* Providers with personal_accounts = deny
    NoUser, NoEmail, NoProvider, NoSubject, NoDomain

ASSUME AccountsAssumption ==
    /\ ProviderOf \in [Subjects -> Providers]
    /\ Bindable \in [Providers -> SUBSET Emails]
    /\ NoPersonal \subseteq Providers
    /\ \A p \in Providers : NoDomain \notin HostedDomains[p]
    /\ NoUser \notin Users /\ NoEmail \notin Emails
    /\ NoProvider \notin Providers /\ NoSubject \notin Subjects

VARIABLES
    users,        \* Users -> row of users
    invitations,  \* Users -> row of identity_invitations
    identities,   \* Subjects -> the account that external_identities names
    audit         \* admin_audit: [act, user]

accountVars == <<users, invitations, identities, audit>>

-----------------------------------------------------------------------------
UserRow == [status : {"absent", "pending", "active", "disabled"},
            email  : Emails \cup {NoEmail}]

InvitationRow == [status   : {"none", "pending", "accepted"},
                  provider : Providers \cup {NoProvider},
                  email    : Emails \cup {NoEmail},
                  subject  : Subjects \cup {NoSubject}]   \* accepted_identity_id

NoInvitation == [status |-> "none", provider |-> NoProvider, email |-> NoEmail,
                 subject |-> NoSubject]

AuditRows == [act : {"user.add", "user.invite", "user.disable", "user.enable"},
              user : Users]

AccountsTypeOK ==
    /\ users \in [Users -> UserRow]
    /\ invitations \in [Users -> InvitationRow]
    /\ identities \in [Subjects -> Users \cup {NoUser}]
    /\ audit \in Seq(AuditRows)

AccountsInit ==
    /\ users = [u \in Users |-> [status |-> "absent", email |-> NoEmail]]
    /\ invitations = [u \in Users |-> NoInvitation]
    /\ identities = [s \in Subjects |-> NoUser]
    /\ audit = <<>>

Active(u) == users[u].status = "active"

-----------------------------------------------------------------------------
(* AuditedStore: the admin UI and lore-authctl *)

Audited(act, u) == audit' = Append(audit, [act |-> act, user |-> u])

\* The unique index on primary_email_normalized
EmailFree(e) == \A v \in Users : users[v].email # e

\* `user add': an active account without an identity
AddUser(u, e) ==
    /\ users[u].status = "absent" /\ EmailFree(e)
    /\ users' = [users EXCEPT ![u] = [status |-> "active", email |-> e]]
    /\ Audited("user.add", u)
    /\ UNCHANGED <<invitations, identities>>

\* `user invite': account and invitation in one transaction
AddInvitation(u, p, e) ==
    /\ users[u].status = "absent" /\ EmailFree(e)
    /\ users' = [users EXCEPT ![u] = [status |-> "pending", email |-> e]]
    /\ invitations' = [invitations EXCEPT ![u] =
                          [status |-> "pending", provider |-> p, email |-> e,
                           subject |-> NoSubject]]
    /\ Audited("user.invite", u)
    /\ UNCHANGED identities

\* Both UPDATEs match whatever the status was, a pending account's too.
DisableUser(u) ==
    /\ users[u].status # "absent"
    /\ users' = [users EXCEPT ![u].status = "disabled"]
    /\ Audited("user.disable", u)
    /\ UNCHANGED <<invitations, identities>>

EnableUser(u) ==
    /\ users[u].status # "absent"
    /\ users' = [users EXCEPT ![u].status = "active"]
    /\ Audited("user.enable", u)
    /\ UNCHANGED <<invitations, identities>>

-----------------------------------------------------------------------------
(* resolve_login *)

\* Faulty variant: a login makes the account active again.
LoginKnown_Reactivates(s, u) ==
    /\ identities[s] = u
    /\ users' = [users EXCEPT ![u].status = "active"]
    /\ UNCHANGED <<invitations, identities, audit>>

\* An identity that is bound logs in to its account, whatever address the
\* provider reports by now; the account must be active.  (last_seen_at and
\* last_login_at are left out.)
LoginKnown(s, u) ==
    /\ identities[s] = u
    /\ Active(u)
    /\ UNCHANGED accountVars

\* Faulty variant: the invitation's provider is not looked at.
Awaits_AnyProvider(u, s, e) ==
    /\ invitations[u].status = "pending"
    /\ invitations[u].email = e

\* The SELECT of the invitation
Awaits(u, s, e) ==
    /\ invitations[u].status = "pending"
    /\ invitations[u].provider = ProviderOf[s]
    /\ invitations[u].email = e

\* An unknown identity with a verified address that the policy lets bind takes
\* up its invitation: identity, invitation and account are written together.
\* The account becomes active whatever it was, and keeps the invited address.
LoginInvited(s, u, e, verified) ==
    /\ identities[s] = NoUser
    /\ verified /\ e \in Bindable[ProviderOf[s]]
    /\ Awaits(u, s, e)
    /\ identities' = [identities EXCEPT ![s] = u]
    /\ invitations' = [invitations EXCEPT ![u].status = "accepted", ![u].subject = s]
    /\ users' = [users EXCEPT ![u] = [status |-> "active", email |-> e]]
    /\ UNCHANGED audit

\* validate_trust, for a provider of the google profile; others admit all
Trusted(s) ==
    LET p == ProviderOf[s]
    IN  IF HostedDomains[p] # {} THEN Hosted[s] \in HostedDomains[p]
        ELSE Hosted[s] = NoDomain => p \notin NoPersonal

\* Identity s, with address e, logs in as account u.
ResolveLogin(s, u, e, verified) ==
    Trusted(s) /\ (LoginKnown(s, u) \/ LoginInvited(s, u, e, verified))

-----------------------------------------------------------------------------
AdminNext ==
    \E u \in Users :
        \/ \E e \in Emails : AddUser(u, e) \/ \E p \in Providers : AddInvitation(u, p, e)
        \/ DisableUser(u) \/ EnableUser(u)

AccountsNext ==
    \/ AdminNext
    \/ \E s \in Subjects, u \in Users, e \in Emails, v \in BOOLEAN : ResolveLogin(s, u, e, v)

AccountsSpec == AccountsInit /\ [][AccountsNext]_accountVars

-----------------------------------------------------------------------------
(* Properties *)

\* resolve_login gives an account to nobody but the identity that took up the
\* account's own invitation: each bound identity is the one its account's
\* invitation accepted, at the invited provider.  A second identity that shows
\* the same address, an identity of another provider and an account made by
\* `user add' are never bound.
BoundByInvitation ==
    \A s \in Subjects :
        identities[s] # NoUser =>
            LET i == invitations[identities[s]]
            IN  i.status = "accepted" /\ i.subject = s /\ i.provider = ProviderOf[s]

EnabledNow(u) == audit' = Append(audit, [act |-> "user.enable", user |-> u])

\* Once an account's invitation is taken up, a disable holds until an audited
\* enable, however often and through whatever identity somebody logs in.  (While
\* the invitation waits it does not: the first login makes a disabled account
\* active again.)
DisableHolds ==
    [][\A u \in Users :
         /\ users[u].status = "disabled" /\ users'[u].status # "disabled"
         /\ invitations[u].status # "pending"
         => EnabledNow(u)]_accountVars

=============================================================================
