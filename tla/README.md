# lore-auth-bridge in TLA+

TLA+ models of `lore-auth-bridge`, the service that logs users of the Lore CLI
in at an external identity provider, decides by relationships (users, groups,
grants) what they may do with which repository, and signs the tokens that
`loreserver` accepts. All state that matters lives in one SQLite file, which the
server and any number of `lore-authctl` processes share. Every request is a
sequence of awaited database calls, so almost every rule of the code is a
*read, decide, write later* that other requests, expiry, crashes and
administrators can get into. The models are about that.

## 1. The system

| part | source | state | operations |
|---|---|---|---|
| Device authorization flow | `lore-auth-core/src/service/device.rs`, `sqlite/devices.rs`, `httpserver/device.rs` | `device_authorizations` | start, preview, approve, token (poll) |
| CLI login | `service/login.rs`, `sqlite/state.rs`, `httpserver/login.rs`, `grpcauth.rs` | `auth_sessions`, `login_transactions` | StartAuthSession, login page, provider redirect, callback, GetAuthSession (poll) |
| Browser sessions, CSRF | `httpserver/session.rs`, `sqlite/state.rs` | `sessions`, `csrf_tokens` | create at login, resolve, logout, create and consume a CSRF token |
| Admin UI | `admin/*.rs` | none of its own | guard, user/group/repository/grant writes, simulator |
| `lore-authctl` | `lore-authctl/src` | none of its own | the same writes from a second process |
| Groups, nesting, grants, audit | `sqlite/groups.rs`, `sqlite/grants.rs`, `sqlite/audited.rs` | `groups`, `group_members`, `group_groups`, `grants`, `admin_audit` | audited add and remove |
| ReBAC evaluation | `lore-auth-adapters/src/authz.rs`, `service/permission.rs` | a tuple snapshot per check | can_access, list_accessible, evidence |
| Repositories | `sqlite/resources.rs`, `service/resource.rs`, `grpcrebac.rs` | `repositories` | upsert by hand, RebacApi create and delete, look-ups |
| Accounts | `sqlite/accounts.rs` | `users`, `external_identities`, `identity_invitations` | add, invite, resolve_login, enable, disable |
| Tokens | `service/token.rs`, `sqlite/issued_tokens.rs` | `issued_tokens` | mint authn, mint and exchange authz, verify, record |
| Signing keys | `rs256.rs`, server `main.rs` | key files and `signing_keys` | generate, load, preflight |
| Identity providers | `oidc.rs`, `staticidp.rs`, `idpregistry.rs` | none | begin_auth, complete_auth |
| Rate limiters | `ratelimit.rs`, `httpserver/middleware.rs` | a window per peer, in memory | allow, prune |
| gRPC auth API | `grpcauth.rs` | none | exchange, check and look up permissions |
| Configuration, in-memory stores, claim probe | `config.rs`, `memory/`, `lore-claimprobe` | – | parsing; test doubles; diagnosis |

How they interact: the HTTP and gRPC handlers call the services of
`lore-auth-core`, which call the stores and the signer through ports. The
server has one SQLite connection thread: its statements run one after the
other, but a *request* is many statements with awaits in between.
`lore-authctl` has its own connection and only SQLite's write lock orders it
against the server. Clients poll. The identity provider calls back through the
user's browser, whenever and as often as the browser likes.

What is hard: two polls, approvals or callbacks for one row; a row that expires
between the check and the write; an account, grant or repository that changes
while a request relies on it; a request that dies between two writes; two
administrators at once; SELECTs of one check that see different commits; three
implementations of the same access rule; a key file and its row without a
transaction over both; requests that are counted with a clock read before they
waited. `PROJECT.json` lists each under
`hazards` at its line, with the properties that cover it.

What makes the parts correct:

* *Device flow, CLI login*: one token at most for a code, for the user who
  approved or logged in, recorded, on access that was held during that very
  request; a request that dies burns nothing.
* *Login states, CSRF tokens*: used once, by the session they were made for.
* *Groups*: no cycle, whoever nests; *audit*: the log tells what administrators
  did to groups, memberships, nesting, grants and accounts.
* *ReBAC*: check, listing and evidence agree with the definition of access, up to
  the depth at which the resolver gives up with an error.
* *Sessions*: a logout is final. *Admin UI*: an active administrator stays.
* *Repositories*: a look-up by name never faces two rows.
* *Accounts*: an account belongs to the identity that took up its invitation; a
  disable holds.
* *Keys*: a registered key can be loaded, and tokens are signed with it.
* *Exchange*: it grants what was true while it ran, and prolongs no login.
* *Rate limiters*: a bound on what passes, and nobody pays for somebody else.

## 2. Modules

| module | models | built on |
|---|---|---|
| `CheckInFlight` | an access check or listing as the flows see it: several SELECTs, commits of `lore-authctl` in between, and the answers these allow | – |
| `Directory` | who exists and may write: accounts, repositories and the relation "may write", with every write that changes them | extends `CheckInFlight` |
| `DirectoryCheck` | `Directory` with an access check in flight: what the flows assume of the tables | extends `Directory` |
| `DeviceGrant` | abstract: a one-time grant is opened, approved by one user or lapses, is redeemed once | – |
| `DeviceFlow` | the device flow over a changing `Directory` | extends `Directory`; implements `DeviceGrant` |
| `DeviceFlowProofs` | theorems about `DeviceFlow` | extends it |
| `AccessControl` | groups, nesting, grants, audited transactions of several processes, the three computations of access, checks and listings in flight | implements `DirectoryCheck` |
| `AccessControlProofs` | theorems about its writes: types, no cycles | extends it |
| `AuditLogProofs` | the theorem about the audit log | extends `AccessControlProofs` |
| `AccessCheckProofs` | theorems about what is read of it: access, checks in flight, `DirectoryCheck` | extends `AccessControlProofs` |
| `CliLogin` | auth sessions, login states, callbacks and polls | implements `DeviceGrant` |
| `CliLoginProofs` | theorems about `CliLogin` | extends it |
| `AdminConsole` | browser sessions, CSRF tokens, logout, the token page, the disable rule of the admin UI | – |
| `AdminConsoleProofs` | theorems about `AdminConsole` | extends it |
| `AccountDirectory` | accounts, invitations, identities, `resolve_login` with the provider's trust rules | – |
| `SigningKeys` | key files, `signing_keys`, `key generate` by several processes with crashes, the signer of the server | – |
| `TokenExchange` | logins, mints, verification, the exchange for several resources, permission checks and look-ups | extends `CheckInFlight`; extends and implements `AccountDirectory` and `SigningKeys` |
| `TokenExchangeProofs` | theorems about all three | extends it |
| `RateLimiter` | both limiters, with the clock read before the mutex | – |
| `RateLimiterProofs` | theorems about `RateLimiter` | extends it |
| `MC…` | instances for TLC | |

The composition: `DeviceFlow` is checked and proved against *any* sequence of
writes of `Directory`, a coarse view in which "may write" is one relation, and its
access checks are those of `CheckInFlight`: a check is two steps, its first SELECT
and its last one; commits of `lore-authctl` may fall between them, and if one does
the answer is that of some moment of the check, if two or more do it is any
answer. `AccessControl` has the real tables, transactions, processes and SELECTs,
and is shown to implement `DirectoryCheck`, so what `DeviceFlow` and `TokenExchange`
assume of the tables and of access checks is what the tables do. `TokenExchange` runs the accounts and the keys together with the
calls that rely on both; it is proved to implement the two modules, so what
holds of accounts and keys by themselves holds in the composition.

### Conventions

* One action is one database call together with the synchronous code up to the
  next call. A request is a record with a `pc` that names its next call and
  with what it has read so far. `XStep(…, ok, next)` moves a request on when the
  code's condition `ok` holds and ends it otherwise (the error answer).
* A request may end at any await (`Abort…`): the client is gone, the database
  fails, or the server stops. The database keeps what was committed. A restart
  of the server is the abort of all its requests; what else it has in memory is
  its signer (`SigningKeys`) and the buckets of the limiters (`RateLimiter`).
* The clock never goes back; `expires > now` is modelled as `clock < expires`.
* Codes, nonces, cookies and ids are drawn at random in the code and are
  distinct model values here: a row and the secret it is found by are one thing.
* A field called `seen`, `torn`, `stale` or the like, and the variables `released`,
  `base` and `passed`, are history: no guard reads them.
* A definition `X_Fault` is `X` with a plausible bug. No specification uses it;
  it documents which fault each property notices (`mutants` in `PROJECT.json`).
* `CHECK_DEADLOCK FALSE` in every configuration: once the bounded clock, token
  counter and event counter are used up and all requests are answered, an
  instance has nothing left to do.

### Correspondence with the code

`map` in `PROJECT.json` names the lines for each definition. In outline:

* **DeviceFlow.** `StartLookup`/`StartCreate` are `DeviceService::start`. `Approve*`
  is `handle_device_approve` and `approve`: session, read by user code, expiry,
  repository, access check, principal, conditional UPDATE. `Poll*` is `token`
  with `manual_mint_authz` and `exchange_authz` inside it: read by device code,
  repository by id, principal, repository *by name again*, access check,
  repository by id, access check again, record, conditional UPDATE. An access
  check is two steps with `AdminWrite` between them (`…Check`, `…Checked`); the
  server's other calls wait for it (`Busy`), because its SELECTs run in one closure
  on the server's only connection. A check that ends in an error is an abort.
* **AccessControl.** The action named for an operation is its transaction up to
  the commit; `Commit` makes table and audit row visible, `Rollback` neither. The
  audit row has the names that were typed (`said`), which for a grant is the name of
  the repository and not its row. `LoginActivates` is the write of a first login
  that makes an invited account active, without an audit row. The
  reader's `ReadGrants`, `ReadMembers`, `ReadNesting` are the SELECTs of
  `can_access_snapshot_conn`, and with `ReadCandidates` and `ReadCandidateGrants` in
  front those of `list_accessible_snapshot_conn`. `Resolve` is the resolver of the
  `authz-core` library: it goes down from the granted groups, `MaxDepth` levels deep
  (a constant), and gives up with an error below (the test
  `rebac_deep_nested_group_hits_authz_core_max_depth_as_error` pins this); where one
  way leads to the user and another one is too deep, either may be met first. `CanAccess`, `ListAccessible` and `Evidence` are
  the code's three computations; the recursive CTEs are least fixed points over
  the finite set of groups, and so is the breadth-first search for the paths that
  the simulator shows (`PathGroups`). `Replay` is no code of the repository: it is
  how somebody reads the audit log.
* **CliLogin.** `AuthStart`, `CreateLoginState`, `SetPrivateState` are
  `handle_auth_start`; `Callback*` is `handle_auth_callback` with
  `complete_auth`; `Poll*` is `get_auth_session` with `mint_authn`. `redirects`
  is what the provider has answered: a redirect stays deliverable, so duplicates
  and late arrivals are included. A callback for a session that is over silently becomes a browser login,
  as in the code. `CallbackResolve` is `resolve_login` reduced to its effect on
  account status.
* **AdminConsole.** `Post` resolves the session (for the admin UI: `guard_middleware`),
  `RequireAdmin` is the handler's second look, `ConsumeCsrfToken` the
  conditional UPDATE; then logout revokes, the token page mints (the mint is in
  `DeviceFlow`), and a disable looks the target up, counts the remaining
  administrators and commits. The other writes and the simulator go through the
  same guard and CSRF token. Every disable, done or refused, renders the page
  again with a new CSRF token. The rule "not your own account" and the rule
  "not the last administrator" are the two checks of
  `validate_admin_disable_target`: as the acting user is an active administrator
  and never the target, the second rule can only matter when accounts change
  while the request runs.
* **AccountDirectory.** `AddUser`, `AddInvitation`, `DisableUser`, `EnableUser` are the
  audited transactions of the same names; `ResolveLogin` is `resolve_login_conn`
  behind `validate_trust`: a known identity (`LoginKnown`) or the first login of
  an invited one (`LoginInvited`). An invitation is kept under its account, as
  both are always inserted together.
* **SigningKeys.** `Generate`, `CreateFile`, `WriteFile`, `InsertRow`, `RemoveFile` are the
  calls of `generate_active_key`: look for the row, open with `create_new`, write,
  insert, and remove the file when the insert failed. `Crash` ends a process
  between any two. `StartServer` and `LoadServerKey` are `load_signer` and
  `preflight_signer`. A key pair is a number; its private half in a file and its
  JWK in a row are equal numbers.
* **TokenExchange.** `Login` is `resolve_login` followed by `mint_authn` (`Principal`,
  `Done`); `AuthctlMint` and `LoadSigner` are `build_token_service` of lore-authctl,
  which has no preflight. `Present` is the verification of a bearer token, `ByJti`
  the look-up in `issued_tokens`, `Find` and `Check` the loop over the resources,
  `Lookup` and `Listed` are `list_accessible`, and `Done` signs and records. Who may
  write is one relation, as in `Directory`. `Check` and `Checked`, `Lookup` and `Listed`
  are the first and the last SELECT of a check and of a listing, as in
  `CheckInFlight`; `ChangeAccess` may come between them, and calls that need the
  server's connection wait.
* **RateLimiter.** `Arrive` reads the clock, `Allow` is the rest of `allow` under the
  mutex with `prune`. `Instant::duration_since` saturates at zero. `Tick` does not
  let a request wait longer than `MaxWait`, which is half a window at most: the
  mutex is held for a few operations on a map, and the window is a minute.
  `passed` remembers who was let through, when, and counted in which bucket.

## 3. Runs

States are distinct states; times are with two workers.

| run | size | checks |
|---|---|---|
| `device_race` | 2 users, 2 polls, 2 approvals, 1 code, 1 event | `TypeOK`, `AtMostOneRelease`, `ReleasedToApprover`, `ReleasedIsRecorded`, `ApproverStable`, `ImplementsGrant` |
| `device_admin` | 1 poll, 1 approval, 2 repositories, 3 names, 4 events (244k states, 3 min) | `DirWellFormed`, `FreshlyAuthorized`, `RebacTokenForRequested`, `ApprovedByWriter`; under fairness `PollsAnswered`, `ApprovedIsRedeemed` |
| `device_ttl` | violation | `RedeemedWithinTtl` |
| `device_rename` | violation | `TokenForRequested` |
| `access_eval` | every membership and nesting of 3 groups, up to 3 grants of 3 roles, a repository of every origin or none, a resolver that goes one level deep | `AccessAgrees` |
| `access_snapshot` | every content of 2 groups, 2 processes, 2 commits, a check or listing (905k states) | `TypeOK`, `OneWriteHarmless`, `Acyclic`, `AuditTellsAll`, `ImplementsDirectory` |
| `access_torn` | violation | `SnapshotIsAMoment` |
| `login_race` | 2 users, 1 session, 2 login states with PKCE, 2 callbacks, 2 polls, fairness | `TypeOK`, `TokenForCompleter`, `ReleasedInTime`, `FreshAccount`, `CompletedByItsLogin`, `OneCallbackPerState`, `VerifierKept`, `ImplementsGrant`, `CompletedIsRedeemed` |
| `admin_forms` | 2 administrators, 1 plain user, 2 sessions, 2 requests, 2 CSRF tokens (1.2M states) | `TypeOK`, `TokenSpentOnce`, `AdminLostOnlyByRace`, `LogoutIsFinal` |
| `admin_last` | violation | `LastAdminStays` |
| `tokens` | 1 account, 4 identities at 2 providers, 2 kids, 2 directories, 2 `key generate` processes, 1 call, 2 repositories, 2 tokens, 2 events (1.3M states, 2½ min) | `TypeOK`, `BoundByInvitation`, `RegisteredKeyOnDisk`, `SignedByRegisteredKey`, `AnswerWasTrue`, `ExchangedInTime`, `DisableHolds` |
| `limiter` | 2 peers, 2 requests, limit 2, window 2 (877k states) | `BurstBound`, `OnlyBusyRefused` |

**Why the bounds are enough.** Every race here is between two requests for one
row, so two polls, approvals, callbacks or requests and one row exhibit it; a
third is stopped by the same conditional UPDATE. Lifetimes are one tick and the
clock reaches the instant at which a row made at the start expires, so a row is
used in time, exactly at its expiry, and by requests that began before it.
`MaxTokens` lets both polls of a race mint; in `device_admin` and `login_race`,
which check liveness, it is what the polls and the retries after the allowed
aborts can use, so that the bound never blocks a request.
`MaxEvents` bounds administrative writes and aborts together: four of them in
`device_admin` are enough to take access away and give it back, or to move a
name and re-register a repository, inside one poll. Three groups, with a resolver
that stops one level down, have nestings that it can follow, nestings that are too
deep for it, and users who are reached on both ways at once. Two groups are enough
for two harmless edges of two processes to close a cycle, and two commits for an access
check that begins after a write, for one that is torn twice, and for an audit
entry that takes back another; longer cycles and logs are left to the proofs. In `tokens` one call at a time is enough for what can go wrong
with it, because nothing but accounts, access, keys and the clock, which all
change while it runs, decides its outcome: calls do not look at each other. Its
two tokens let an authz token be presented again; two processes with two
directories and two kids race for a path and for a kid. In `login_race` a login
for the one terminal can be mistaken for a browser login and the other way round;
that of two terminals for each other is left to `CompletionsByTheirLogin`, since two
sessions make the state graph too large for its liveness property. A limiter with one
tick of waiting and two peers can prune a bucket behind the back of a request
that waits. The theorems below remove the bounds for the invariants.
Symmetry is used for identities that no constant singles out, and only in runs
without liveness properties.

**Fairness.** The server runs every request it has accepted to its end: the tokio
runtime keeps polling a task whose database call has returned. In `CliLogin` this is
weak fairness of each request's steps. In `DeviceFlow` it
is strong fairness of each request's steps, as a step is not possible while the
access check of another request has the connection; the calls queue up for the
connection's thread in the order in which they come, so the checks of others
cannot keep one waiting for ever. Aborts (lost clients, failing calls, a nesting
too deep for the resolver) are not fair, and finite in number. Fairness of
a client's next poll: the device client and the CLI poll in a loop until their
code is settled. Nothing is assumed about users approving or logging in, about
administrators, or about the clock.

**Findings.** Four runs end in a violation, each of what a document, a comment
or a message of the code says (quoted under `findings`):

* `device_ttl`: the lifetime of a device code is looked at only while it is
  pending; an approved code can be redeemed at any later time. The CLI login
  checks `expires_at` again in its last UPDATE: there `ReleasedInTime` holds.
  `ApprovedIsRedeemed` claims a token only while the code lives.
* `device_rename`: a poll reads the requested repository by id, but the mint
  looks it up again by name; if the names of two repositories that were added by
  hand move in between, the token is for the other one (which the user may
  write, too: `FreshlyAuthorized` holds). Repositories that loreserver registered
  cannot be renamed: `RebacTokenForRequested` holds and is proved.
* `access_torn`: the "immutable snapshot" of an access check is three SELECTs
  without a transaction; two commits of `lore-authctl` between them make it
  allow what was allowed at no moment. One commit is harmless
  (`OneWriteHarmless`). What relies on a check inherits this: a user whom such a
  check lets through approves a code without having had access at any moment,
  against "approval succeeds only if that user has write access" of `operations.md`.
  `ApprovedByWriter`, `AnswerWasTrue` and `FreshlyAuthorized` say that nothing else
  can go wrong; a poll checks twice, so for its token both checks have to be torn.
* `admin_last`: two administrators who disable each other at the same time both
  pass the "last active admin" rule. `AdminLostOnlyByRace` says that a disable of
  the admin UI whose count is not out of date never takes the last one, whatever
  happened before it. (`lore-authctl` has no such rule.)

**Observations** that contradict no document, and which the comments of the
properties name:

* While its invitation waits, a disabled account is made active by its first
  login: `LoginInvited` writes the status whatever it was. `DisableHolds` is about
  every other account. No audit row tells of this write (`LoginActivates` in
  `AccessControl`), and `AuditTellsAll` leaves out what it did.
* An entry of the audit log has the names that were typed. Once a repository has
  been renamed, the log alone no longer tells which one a grant was for;
  `AuditTellsAll` says what it tells of grants only while it shows no renaming.
* Where groups are nested too deep for the resolver, a check or a listing ends in an
  error (a test of the repository expects this), while the simulator's evidence
  shows the grant: it comes from recursive SQL without a limit.
* A `key generate` that dies between file and row leaves a file that blocks its
  kid in that directory until somebody removes it; `generate_active_key` refuses
  to overwrite it. That is what makes `RegisteredKeyOnDisk` true: `create_new`
  gives each path one owner, who alone may remove it.
* A limiter lets up to three times its limit through in one window, not
  twice, because requests use the time at which they began to wait. (Were they to
  wait for more than half a window, a fourth bucket would fit in: the proof of
  `BurstBound` needs that bound, and with longer waits TLC finds a counterexample.)

## 4. Proofs

For every value of the constants that satisfies the named assumptions
(`DirectoryAssumption`, `DeviceFlowAssumption`, `AccessAssumption`,
`AdminConsoleAssumption`, `AccountsAssumption`, `KeysAssumption`,
`TokensAssumption`, `CliLoginAssumption`, `LimiterAssumption`): any number of users,
repositories, names, devices, polls, approvals, callbacks, groups, sessions,
requests, peers, identities, keys, calls and processes, any lifetime, limit and
window.

**DeviceFlowProofs.** `Inductive` proves `[]IInv`, from which follow `TypeCorrect`,
`OneRelease`, `ReleaseToApprover`, `ReleaseRecorded`, `FreshAuthorization`,
`RebacToken`, `DirectoryWellFormed`, the action properties `ApproverIsStable` and
`ApprovalByWriter`, and `Refinement` (`DeviceFlow` implements `DeviceGrant`).
The properties are not inductive: that a poll releases its token to the
approver depends on what it read many steps before. `IInv` adds

* `RowInv`: which fields a row has in which status;
* `ApprovalInv`, `PollInv`: what a request in flight still knows of its row
  (a poll past its first read holds the approver of a row that is approved or
  that another poll has consumed) and that what it has checked is witnessed by
  its history fields, except for checks that two commits tore, which are marked
  (`torn`); for a repository that loreserver registered, that the
  name it carries still leads back to it;
* `JtiInv`: a token id is in the hands of one request or one release.

The argument for one release: two polls may hold tokens for one code, but the
release and the change to `consumed` are one UPDATE, and a row never leaves
`consumed`.

**AccessControlProofs.** `Inductive`, `TypeCorrect` and `NoCycles`. `IInv` is `TypeOK`,
`Acyclic`, `LockInv` (SQLite's write lock:
at most one transaction holds a write) and `TxInv` (a nesting edge that waits
for its commit does not close a cycle in the tables as they are now: what the
transaction checked cannot be overtaken, because of `LockInv`). `Below` is
the least set closed under the nesting (no recursion, so it can be proved about);
`NewEdge` is the graph lemma: an edge from g to h, where g is not below h,
keeps an acyclic nesting acyclic.

**AuditLogProofs.** `AuditsTellAll`. `AuditInv` is `AuditTellsAll` with `NameInv`, which says
where the name of a repository comes from while the log shows no renaming (the
start, an entry of the log, or loreserver), and `BaseInv` (repositories stay,
invitations are not added). One more entry does to the reading of the log what
the write does to the table (`ReplayNext`): that is where the order of inserts and
deletes of one row matters. `NamesKept` carries this over to grants, whose
entries have names where the table has ids: while no renaming shows, a commit
renames nothing.

**AccessCheckProofs.** Three results about what is read of these tables.

* `AccessesAgree` needs nothing but types: on *every* content of the tables, and for
  every depth of the resolver, the check and the listing give the right answer or
  end in the depth error, and this only where there is access to find; the
  evidence is always complete. `UpAndDown` says that going up from the user's
  groups (the code's CTE) and going down from a granted group (the definition of
  membership) meet; `RelevantEdges`, that edges which start outside of what is
  reached may be left out, which is why the trimmed tuples of a snapshot
  (`MemberTuples`) and the trimmed search of the simulator (`PathGroups`) find all
  groups (`SnapshotGroups`). `Visited` is what the resolver gets to within its depth
  (`VisitedIsLeast`, `VisitedAll`): without an error it is all there is
  (`ResolveSound`). Role by role it is then a case distinction (`PermissionsSound`).
* `OneWriteIsHarmless` adds `CheckInv` to `IInv`, for checks and for listings: one in
  flight with no commit since its first SELECT has read the tables of now
  (`Fresh`); with one commit it has read each table from before or after it, in the
  order of its SELECTs (`Split`), and its history knows both answers
  (`FlightInv`). A write touches one table, so
  all but one of the reads belong to one moment (`OneTornTable`). The case
  that is not obvious is a membership removed between the SELECTs of memberships
  and of nesting: the groups found then belong to neither moment, but they lie
  between those of the two, and the decision grows with the groups (`Between`).
* `DirectoryRefinement`: every committed write is a write of `Directory`, or changes
  nothing it shows, and every check or listing in flight is one of
  `CheckInFlight`: with one commit in it its answer is right for a moment of it, by
  `CheckInv`. This is what entitles `DeviceFlow` and `TokenExchange` to check
  access in two steps.

**CliLoginProofs.** `IInv` gives `TypeCorrect`, `TokensForCompleter`, `ReleasesInTime`,
`AccountsFresh`, `CompletionsByTheirLogin`, `CallbacksOncePerState`, `VerifiersKept` and
`Refinement` (`CliLogin` implements `DeviceGrant`). Its parts:

* `WebInv`: a login state that a browser was sent away with is kept with its
  private part (`StateInv`); a redirect belongs to such a state (`RedirectInv`); a
  callback past the consumption of its state holds that state alone and its
  verifier (`CallbackInv`, with `OneCallbackPerState`);
* `SessionInv`: which fields a session has in which status, and that its user came
  from a redirect of a state made for it (`CompletedByItsLogin`);
* `TokenInv`: a poll past its first read holds the user of a session that is
  completed or that another poll has consumed, and has seen the account active
  before it records (`PollInv`); a token id is in the hands of one poll or one
  release (`JtiInv`).

Two things are not obvious. The account of a completed session is no longer
invited, so no later `CallbackResolve` makes an account active that a poll has
looked up as disabled, behind the back of that poll's history. And a redirect may be delivered to two
callbacks at once, or again later: only the conditional UPDATE that uses the state
up keeps them apart, so `OneCallbackPerState` must be carried along with what each
callback holds.

**RateLimiterProofs.** `IInv` gives `TypeCorrect`, `BurstsBounded` and
`RefusalsEarned`. The passes of the history carry the start of the bucket that they
were counted in, so a bound on a sum becomes a bound on sets: no bucket takes more
than the limit (`SizeInv`), a bucket that exists counts its passes and all other
passes of the peer are in buckets whose window is over, also after somebody else
has pruned (`BucketInv`), and of two buckets of a peer the later one was opened a
window after the start of the earlier, up to the time that its opener had waited
(`OrderInv`). `ThreeBuckets`: the passes of a span are counted in a bucket opened
more than `MaxWait` before it, or in one opened less than that before it, or in one
opened in it; `OrderInv` leaves one bucket of each kind.

**TokenExchangeProofs.** First the two components by themselves. `AccountsInv` adds to
`BoundByInvitation` that an account that does not exist has no invitation, or
`AddInvitation` could overwrite an accepted one. `KeysInv` adds to
`RegisteredKeyOnDisk` that a process past `create_new` owns its file
(`OwnsItsFile`): nobody else works on that path and no row names it, so neither
a write nor a clean-up touches the file of a registered key; and that a signer
holds what is registered (`SignerRight`), which lasts because rows stay
(`RowsStay`). `ImplementsAccounts` and `ImplementsKeys` say that every step of
`TokenExchange` is a step of these modules or leaves them alone, and so
`LoginsBoundByInvitation`, `DisabledUntilEnabled` and `RegisteredKeysUsable` hold of
the composition. `TokensInv` gives every call in flight its account and a
registered key: `TypeCorrect` and `TokensSignedByRegisteredKey`. `ExchangesInv`
says what the steps behind a call have established: the token it presents is
its account's (`Presented`; jtis are unique, `Numbered`), was an authn token in
time (`LoggedInBy`), and what the call has got it has seen allowed, or its check was torn by two
commits (`WasTrue`, with `Noticed`: the history knows the present state). From it follow
`AnswersWereTrue` and `ExchangesInTime`.

**AdminConsoleProofs.** `IInv` is `TypeOK` and `TokenSpentOnce` with what they and the action properties
need of a request in flight: `HasToken` (past its start it has a
session, and past the form a token, until a page is rendered for it) and
`CountRight` (a disable whose count of administrators is not marked out of date
leaves one: every status change marks the counts it overtakes). From it follow
`TypeCorrect`, `CsrfSpentOnce` and, by what a disable does (`DisableStep`),
`AdminsLostOnlyByRace`. `LogoutsFinal` goes
action by action (`LogoutStep`): only `current_browser_session` puts a session
into a request, and it does not resolve a revoked one.

Only model-checked: liveness (`PollsAnswered`, `ApprovedIsRedeemed`,
`CompletedIsRedeemed`), which is out of the prover's reach. Every other property of
a run that passes is a theorem.

## 5. What is left out, and why

* Rendering, JSON, wording, logging, the `same_origin` header check, the
  comparison of `client_state` (a second secret of the same client) and the peer
  allow-lists: they refuse requests and change nothing.
* An answer may be lost after the last UPDATE: the code is then used up and the
  user starts again. The models say *at most* once and do not say that a
  client has received its token.
* RSA, JWT encoding, SQL and the provider's HTTP side are external.
* `revoke_issued_token` and the tuple reader without a snapshot have no callers
  but tests; invitations never expire, as both callers pass `expires_at = 0`; keys
  are never retired. The methods of the gRPC API that answer *unimplemented* do
  nothing.
* The listings of `lore-authctl` and the parsing of its command line.
* Configuration parsing, the in-memory stores (test doubles) and
  `lore-claimprobe` keep no state of the service.

## 6. Plan

Done: all components that keep state of the service, with their runs, and a
theorem for every invariant, action property and refinement that a run checks.
Left:

1. An abstract view of the accounts (who is active, whose invitation waits) that
   `AccountDirectory` implements and that `CliLogin` assumes, the way `DeviceFlow` assumes
   `Directory`: today `CallbackResolve` restates `resolve_login` as far as a CLI
   login sees it.
2. The write side of `AdminConsole`, whose disables are commits of
   `AccessControl`, under the same view.
