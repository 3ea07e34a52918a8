----------------------------- MODULE DeviceFlow -----------------------------
(***************************************************************************)
(* The device authorization flow: DeviceService of lore-auth-core over the *)
(* device_authorizations table.  A client without a browser starts an      *)
(* authorization, a logged-in user approves it, and the client polls until *)
(* it is given an authz token for the repository.                          *)
(*                                                                         *)
(* Each HTTP request is a sequence of awaited database calls, and requests *)
(* interleave between them.  One action is one database call together with *)
(* the synchronous code that follows it up to the next call; a request is  *)
(* a record of what it has read so far and the call it makes next ("pc").  *)
(* A request may end at any await (client gone, database error, crash of   *)
(* the server): the database keeps what was committed.                     *)
(*                                                                         *)
(* An access check is one such call of several SELECTs: the server's other *)
(* calls wait for it, lore-authctl does not.                               *)
(***************************************************************************)
EXTENDS Directory

CONSTANTS
    Devices,     \* device authorizations: a row, its device code, its user code
    Polls,       \* concurrent /api/device/token requests
    Approvals,   \* concurrent /device/approve requests
    Ttl,         \* device_code_ttl, in clock ticks
    NoUser, NoRepo, NoDevice,
    MaxClock,    \* bound: the last instant of the clock
    MaxTokens,   \* bound: tokens recorded
    MaxEvents    \* bound: administrative writes and aborted requests

ASSUME DeviceFlowAssumption ==
    /\ Ttl \in Nat \ {0}
    /\ MaxClock \in Nat /\ MaxTokens \in Nat /\ MaxEvents \in Nat
    /\ NoUser \notin Users /\ NoRepo \notin Repos /\ NoDevice \notin Devices

VARIABLES
    clock,      \* unix time
    devices,    \* Devices -> row of device_authorizations
    starts,     \* Devices -> repository found by a start request in flight
    approvals,  \* Approvals -> request
    polls,      \* Polls -> request
    issued,     \* rows of issued_tokens
    lastJti,    \* the last token id used
    released,   \* tokens a poll has answered with (history)
    events      \* administrative writes and aborts so far

reqVars == <<starts, approvals, polls>>
logVars == <<issued, lastJti, released>>
vars == <<dirVars, clock, devices, reqVars, logVars, events>>

-----------------------------------------------------------------------------
DeviceRow == [status  : {"absent", "pending", "approved", "consumed", "expired"},
              repo    : Repos \cup {NoRepo},
              user    : Users \cup {NoUser},
              expires : Nat]

NoRow == [status |-> "absent", repo |-> NoRepo, user |-> NoUser, expires |-> 0]

\* `seen' and `torn' are history fields: was the write access that the request
\* asks for held at some moment since it began, and was the check that it
\* passed torn by two commits?
Approval == [pc    : {"idle", "read", "expire", "repo", "check", "checking",
                      "principal", "commit"},
             dev   : Devices \cup {NoDevice},
             user  : Users \cup {NoUser},
             check : CheckRecord(Repos),
             seen  : BOOLEAN,
             torn  : BOOLEAN]

IdleApproval == [pc |-> "idle", dev |-> NoDevice, user |-> NoUser, check |-> NoCheck,
                 seen |-> FALSE, torn |-> FALSE]

\* `userSeen', `repoSeen' and `torn' are history fields: was the approver active,
\* and to which repositories could they write, at some moment of this request,
\* and was every check that it passed torn by two commits?
Poll == [pc       : {"idle", "expire", "repo", "principal", "name", "check", "checking",
                     "resource", "recheck", "rechecking", "record", "consume"},
         dev      : Devices \cup {NoDevice},
         user     : Users \cup {NoUser},   \* device.approved_user_id
         name     : Names \cup {NoName},   \* name of the requested repository
         target   : Repos \cup {NoRepo},   \* repository that name resolved to
         jti      : Nat,
         check    : CheckRecord(Repos),
         userSeen : BOOLEAN,
         repoSeen : SUBSET Repos,
         torn     : BOOLEAN]

IdlePoll == [pc |-> "idle", dev |-> NoDevice, user |-> NoUser, name |-> NoName,
             target |-> NoRepo, jti |-> 0, check |-> NoCheck, userSeen |-> FALSE,
             repoSeen |-> {}, torn |-> FALSE]

Token == [jti : Nat, user : Users, repo : Repos]

Release == [dev : Devices, jti : Nat, user : Users, repo : Repos, at : Nat]

TypeOK ==
    /\ DirTypeOK
    /\ clock \in Nat
    /\ devices \in [Devices -> DeviceRow]
    /\ starts \in [Devices -> Repos \cup {NoRepo}]
    /\ approvals \in [Approvals -> Approval]
    /\ polls \in [Polls -> Poll]
    /\ issued \subseteq Token
    /\ lastJti \in Nat
    /\ released \subseteq Release
    /\ events \in Nat

Init ==
    /\ DirInit
    /\ activeUsers = Users
    /\ clock = 0
    /\ devices = [d \in Devices |-> NoRow]
    /\ starts = [d \in Devices |-> NoRepo]
    /\ approvals = [a \in Approvals |-> IdleApproval]
    /\ polls = [p \in Polls |-> IdlePoll]
    /\ issued = {}
    /\ lastJti = 0
    /\ released = {}
    /\ events = 0

Expired(d) == devices[d].expires <= clock

\* The server has one connection, which runs one call after the other: while an
\* access check is between its SELECTs, every other call of the server waits.
Checking == {"checking", "rechecking"}

Busy ==
    \/ \E a \in Approvals : approvals[a].pc \in Checking
    \/ \E p \in Polls : polls[p].pc \in Checking

-----------------------------------------------------------------------------
(* POST /api/device/start: DeviceService::start *)

\* get_by_name(repo_name); an unknown repository ends the request.
StartLookup(d, n) ==
    /\ ~Busy
    /\ devices[d].status = "absent" /\ starts[d] = NoRepo
    /\ \E r \in LiveNamed(n) : starts' = [starts EXCEPT ![d] = r]
    /\ UNCHANGED <<dirVars, clock, devices, approvals, polls, logVars, events>>

\* Faulty variant: the lifetime is taken off instead of added.
StartCreate_Backwards(d) ==
    /\ ~Busy
    /\ starts[d] # NoRepo
    /\ starts' = [starts EXCEPT ![d] = NoRepo]
    /\ devices' = [devices EXCEPT ![d] =
                      [status |-> "pending", repo |-> starts[d],
                       user |-> NoUser, expires |-> clock - Ttl]]
    /\ UNCHANGED <<dirVars, clock, approvals, polls, logVars, events>>

\* create_device_authorization
StartCreate(d) ==
    /\ ~Busy
    /\ starts[d] # NoRepo
    /\ starts' = [starts EXCEPT ![d] = NoRepo]
    /\ devices' = [devices EXCEPT ![d] =
                      [status |-> "pending", repo |-> starts[d],
                       user |-> NoUser, expires |-> clock + Ttl]]
    /\ UNCHANGED <<dirVars, clock, approvals, polls, logVars, events>>

-----------------------------------------------------------------------------
(* expire_device_authorization: UPDATE ... WHERE status = 'pending' *)
MarkExpired(d) ==
    devices' = IF devices[d].status = "pending"
               THEN [devices EXCEPT ![d].status = "expired"]
               ELSE devices

\* GET /device: DeviceService::preview changes the table only when it finds
\* the code expired.
PreviewExpire(d) ==
    /\ ~Busy
    /\ devices[d].status = "pending" /\ Expired(d)
    /\ MarkExpired(d)
    /\ UNCHANGED <<dirVars, clock, reqVars, logVars, events>>

-----------------------------------------------------------------------------
(* POST /device/approve: handle_device_approve, DeviceService::approve *)

ApproveStep(a, from, ok, next) ==
    /\ approvals[a].pc = from
    /\ from \in Checking \/ ~Busy
    /\ approvals' = [approvals EXCEPT ![a] = IF ok THEN next ELSE IdleApproval]

ApproveUnchanged == UNCHANGED <<dirVars, clock, starts, polls, logVars, events>>

\* user_by_browser_session: the session belongs to an active user.
ApproveSession(a, u, d) ==
    /\ u \in activeUsers
    /\ devices[d].status # "absent"
    /\ ApproveStep(a, "idle", TRUE,
                   [IdleApproval EXCEPT
                      !.pc = "read", !.dev = d, !.user = u,
                      !.seen = devices[d].repo \in Writable(repos, writers, u)])
    /\ UNCHANGED devices /\ ApproveUnchanged

\* device_by_user_code, then ensure_pending
ApproveRead(a) ==
    LET d == approvals[a].dev IN
    /\ ApproveStep(a, "read", devices[d].status = "pending",
                   [approvals[a] EXCEPT !.pc = IF Expired(d) THEN "expire" ELSE "repo"])
    /\ UNCHANGED devices /\ ApproveUnchanged

ApproveExpire(a) ==
    /\ ApproveStep(a, "expire", FALSE, IdleApproval)
    /\ MarkExpired(approvals[a].dev)
    /\ ApproveUnchanged

\* repository_for_device: get_by_id finds live rows only
ApproveRepository(a) ==
    /\ ApproveStep(a, "repo", Live(devices[approvals[a].dev].repo),
                   [approvals[a] EXCEPT !.pc = "check"])
    /\ UNCHANGED devices /\ ApproveUnchanged

\* Faulty variant: any user with a session may approve.
ApproveCheck_Skipped(a) ==
    /\ ApproveStep(a, "check", TRUE, [approvals[a] EXCEPT !.pc = "principal"])
    /\ UNCHANGED devices /\ ApproveUnchanged

\* can_access(user, resource, "write"): the first SELECT, which finds live
\* repositories only
ApproveCheck(a) ==
    LET r == devices[approvals[a].dev].repo IN
    /\ ApproveStep(a, "check", Live(r),
                   [approvals[a] EXCEPT
                      !.pc = "checking",
                      !.check = Begun(Writable(repos, writers, approvals[a].user) \cap {r})])
    /\ UNCHANGED devices /\ ApproveUnchanged

\* can_access: the other SELECTs and the answer
ApproveChecked(a) ==
    /\ approvals[a].pc = "checking"
    /\ \E got \in Outcomes(approvals[a].check, {devices[approvals[a].dev].repo}) :
          ApproveStep(a, "checking", got # {},
                      [approvals[a] EXCEPT !.pc = "principal", !.check = NoCheck,
                                           !.torn = Torn(approvals[a].check)])
    /\ UNCHANGED devices /\ ApproveUnchanged

\* principal_by_user_id: active accounts only
ApprovePrincipal(a) ==
    /\ ApproveStep(a, "principal", approvals[a].user \in activeUsers,
                   [approvals[a] EXCEPT !.pc = "commit"])
    /\ UNCHANGED devices /\ ApproveUnchanged

\* Faulty variant: the UPDATE trusts the status read earlier.
Approvable_NotExpired(d) == ~Expired(d)

\* approve_device_authorization:
\* UPDATE ... WHERE status = 'pending' AND expires_at > now
Approvable(d) == devices[d].status = "pending" /\ ~Expired(d)

ApproveCommit(a) ==
    LET d == approvals[a].dev IN
    /\ ApproveStep(a, "commit", FALSE, IdleApproval)
    /\ devices' = IF Approvable(d)
                  THEN [devices EXCEPT ![d].status = "approved",
                                       ![d].user = approvals[a].user]
                  ELSE devices
    /\ ApproveUnchanged

ApproveNext(a) ==
    \/ ApproveRead(a) \/ ApproveExpire(a) \/ ApproveRepository(a)
    \/ ApproveCheck(a) \/ ApproveChecked(a) \/ ApprovePrincipal(a) \/ ApproveCommit(a)

-----------------------------------------------------------------------------
(* POST /api/device/token: DeviceService::token, which mints through        *)
(* TokenService::manual_mint_authz and exchange_authz                       *)

PollStep(p, from, ok, next) ==
    /\ polls[p].pc = from
    /\ from \in Checking \/ ~Busy
    /\ polls' = [polls EXCEPT ![p] = IF ok THEN next ELSE IdlePoll]

PollUnchanged == UNCHANGED <<dirVars, clock, starts, approvals, events>>

\* device_by_device_code and the decisions on the row read: a pending code is
\* expired or answered "authorization_pending", a consumed or expired one is
\* answered with its status, an approved one goes on.
PollRead(p, d) ==
    /\ devices[d].status # "absent"
    /\ PollStep(p, "idle", \/ devices[d].status = "approved"
                           \/ devices[d].status = "pending" /\ Expired(d),
          [IdlePoll EXCEPT
             !.pc = IF devices[d].status = "approved" THEN "repo" ELSE "expire",
             !.dev = d,
             !.user = devices[d].user,
             !.userSeen = devices[d].user \in activeUsers,
             !.repoSeen = Writable(repos, writers, devices[d].user)])
    /\ UNCHANGED <<devices, logVars>> /\ PollUnchanged

PollExpire(p) ==
    /\ PollStep(p, "expire", FALSE, IdlePoll)
    /\ MarkExpired(polls[p].dev)
    /\ UNCHANGED logVars /\ PollUnchanged

\* Faulty variant: the request waits for the repository to come back.
PollRepository_Waits(p) ==
    LET r == devices[polls[p].dev].repo IN
    /\ polls[p].pc = "repo" /\ Live(r)
    /\ PollStep(p, "repo", TRUE,
                [polls[p] EXCEPT !.pc = "principal", !.name = repos[r].name])
    /\ UNCHANGED <<devices, logVars>> /\ PollUnchanged

\* repository_for_device: by row id; only the name travels on
PollRepository(p) ==
    LET r == devices[polls[p].dev].repo IN
    /\ PollStep(p, "repo", Live(r),
                [polls[p] EXCEPT !.pc = "principal", !.name = repos[r].name])
    /\ UNCHANGED <<devices, logVars>> /\ PollUnchanged

\* manual_mint_authz: principal_by_user_id
PollPrincipal(p) ==
    /\ PollStep(p, "principal", polls[p].user \in activeUsers,
                [polls[p] EXCEPT !.pc = "name"])
    /\ UNCHANGED <<devices, logVars>> /\ PollUnchanged

\* manual_mint_authz: get_by_name
PollResolveName(p) ==
    /\ IF LiveNamed(polls[p].name) = {}
       THEN PollStep(p, "name", FALSE, IdlePoll)
       ELSE \E r \in LiveNamed(polls[p].name) :
               PollStep(p, "name", TRUE,
                        [polls[p] EXCEPT !.pc = "check", !.target = r])
    /\ UNCHANGED <<devices, logVars>> /\ PollUnchanged

\* The first SELECT of a check and its answer; `next' is the poll that passed.
PollBeginCheck(p, from, to) ==
    PollStep(p, from, Live(polls[p].target),
             [polls[p] EXCEPT
                !.pc = to,
                !.check = Begun(Writable(repos, writers, polls[p].user)
                                   \cap {polls[p].target})])

PollEndCheck(p, from, next) ==
    \E got \in Outcomes(polls[p].check, {polls[p].target}) :
        PollStep(p, from, got # {}, [next EXCEPT !.check = NoCheck])

\* manual_mint_authz: can_access
PollCheck(p) ==
    /\ PollBeginCheck(p, "check", "checking")
    /\ UNCHANGED <<devices, logVars>> /\ PollUnchanged

PollChecked(p) ==
    /\ PollEndCheck(p, "checking",
                    [polls[p] EXCEPT !.pc = "resource", !.torn = Torn(polls[p].check)])
    /\ UNCHANGED <<devices, logVars>> /\ PollUnchanged

\* exchange_authz: get_by_resource_id
PollResource(p) ==
    /\ PollStep(p, "resource", Live(polls[p].target),
                [polls[p] EXCEPT !.pc = "recheck"])
    /\ UNCHANGED <<devices, logVars>> /\ PollUnchanged

\* exchange_authz: can_access, then the token is signed
PollRecheck(p) ==
    /\ PollBeginCheck(p, "recheck", "rechecking")
    /\ UNCHANGED <<devices, logVars>> /\ PollUnchanged

PollRechecked(p) ==
    /\ PollEndCheck(p, "rechecking",
                    [polls[p] EXCEPT !.pc = "record", !.torn = @ /\ Torn(polls[p].check)])
    /\ UNCHANGED <<devices, logVars>> /\ PollUnchanged

\* Faulty variant: the token is signed and not recorded.
PollRecord_Skipped(p) ==
    /\ lastJti < MaxTokens
    /\ PollStep(p, "record", TRUE,
                [polls[p] EXCEPT !.pc = "consume", !.jti = lastJti + 1])
    /\ lastJti' = lastJti + 1
    /\ UNCHANGED <<devices, issued, released>> /\ PollUnchanged

\* record: the token enters issued_tokens under a fresh jti
PollRecord(p) ==
    /\ lastJti < MaxTokens
    /\ PollStep(p, "record", TRUE,
                [polls[p] EXCEPT !.pc = "consume", !.jti = lastJti + 1])
    /\ lastJti' = lastJti + 1
    /\ issued' = issued \cup {[jti |-> lastJti + 1, user |-> polls[p].user,
                               repo |-> polls[p].target]}
    /\ UNCHANGED <<devices, released>> /\ PollUnchanged

\* Faulty variant: the number of rows the UPDATE changed is ignored.
Consumable_Always(d) == TRUE

\* consume_device_authorization: UPDATE ... WHERE status = 'approved'.  Only
\* the request whose UPDATE took effect answers with its token.
Consumable(d) == devices[d].status = "approved"

PollConsume(p) ==
    LET d == polls[p].dev IN
    /\ PollStep(p, "consume", FALSE, IdlePoll)
    /\ IF Consumable(d)
       THEN /\ devices' = [devices EXCEPT ![d].status = "consumed"]
            /\ released' = released \cup
                  {[dev |-> d, jti |-> polls[p].jti, user |-> polls[p].user,
                    repo |-> polls[p].target, at |-> clock]}
       ELSE UNCHANGED <<devices, released>>
    /\ UNCHANGED <<issued, lastJti>> /\ PollUnchanged

\* Faulty variant: the code is consumed before the token is recorded.
PollNext_ConsumeFirst(p) ==
    \/ PollExpire(p) \/ PollRepository(p) \/ PollPrincipal(p)
    \/ PollResolveName(p) \/ PollCheck(p) \/ PollChecked(p) \/ PollResource(p)
    \/ PollRecheck(p) \/ PollRechecked(p)
    \/ LET d == polls[p].dev IN
       /\ PollStep(p, "record", Consumable(d), [polls[p] EXCEPT !.pc = "consume"])
       /\ devices' = IF Consumable(d) THEN [devices EXCEPT ![d].status = "consumed"]
                     ELSE devices
       /\ UNCHANGED logVars /\ PollUnchanged
    \/ /\ lastJti < MaxTokens
       /\ PollStep(p, "consume", FALSE, IdlePoll)
       /\ lastJti' = lastJti + 1
       /\ issued' = issued \cup {[jti |-> lastJti + 1, user |-> polls[p].user,
                                  repo |-> polls[p].target]}
       /\ released' = released \cup
             {[dev |-> polls[p].dev, jti |-> lastJti + 1, user |-> polls[p].user,
               repo |-> polls[p].target, at |-> clock]}
       /\ UNCHANGED devices /\ PollUnchanged

PollNext(p) ==
    \/ PollExpire(p) \/ PollRepository(p) \/ PollPrincipal(p)
    \/ PollResolveName(p) \/ PollCheck(p) \/ PollChecked(p) \/ PollResource(p)
    \/ PollRecheck(p) \/ PollRechecked(p) \/ PollRecord(p) \/ PollConsume(p)

-----------------------------------------------------------------------------
(* The environment *)

Tick ==
    /\ clock < MaxClock
    /\ clock' = clock + 1
    /\ UNCHANGED <<dirVars, devices, reqVars, logVars, events>>

CountEvent == events < MaxEvents /\ events' = events + 1

\* A check in flight after a write; it does not read accounts.
Observed(x, asked) ==
    IF x.pc \notin Checking \/ activeUsers' # activeUsers THEN x.check
    ELSE Noted(x.check, Writable(repos', writers', x.user) \cap {asked})

\* The checks and the history fields of the requests in flight after a write
Witness ==
    /\ approvals' = [a \in Approvals |->
          IF approvals[a].pc = "idle" THEN approvals[a]
          ELSE LET r == devices[approvals[a].dev].repo
               IN  [approvals[a] EXCEPT
                      !.check = Observed(approvals[a], r),
                      !.seen = @ \/ r \in Writable(repos', writers', approvals[a].user)]]
    /\ polls' = [p \in Polls |->
          IF polls[p].pc = "idle" THEN polls[p]
          ELSE [polls[p] EXCEPT
                  !.check = Observed(polls[p], polls[p].target),
                  !.userSeen = @ \/ polls[p].user \in activeUsers',
                  !.repoSeen = @ \cup Writable(repos', writers', polls[p].user)]]

\* While a check is in flight the writes are those of lore-authctl.  A write that
\* changes nothing matters only then.
AdminWrite ==
    /\ CountEvent
    /\ AdminNext \/ (~Busy /\ RebacNext)
    /\ Busy \/ dirVars' # dirVars
    /\ Witness
    /\ UNCHANGED <<clock, devices, starts, logVars>>

\* A request in flight ends: its client is gone, a database call failed, its
\* access check ended in an error, or the server stopped (a stop of the server
\* ends all of them, one by one).
AbortStart(d) ==
    /\ CountEvent
    /\ starts[d] # NoRepo
    /\ starts' = [starts EXCEPT ![d] = NoRepo]
    /\ UNCHANGED <<dirVars, clock, devices, approvals, polls, logVars>>

AbortApproval(a) ==
    /\ CountEvent
    /\ approvals[a].pc # "idle"
    /\ approvals' = [approvals EXCEPT ![a] = IdleApproval]
    /\ UNCHANGED <<dirVars, clock, devices, starts, polls, logVars>>

AbortPoll(p) ==
    /\ CountEvent
    /\ polls[p].pc # "idle"
    /\ polls' = [polls EXCEPT ![p] = IdlePoll]
    /\ UNCHANGED <<dirVars, clock, devices, starts, approvals, logVars>>

Abort ==
    \/ \E d \in Devices : AbortStart(d)
    \/ \E a \in Approvals : AbortApproval(a)
    \/ \E p \in Polls : AbortPoll(p)

Next ==
    \/ \E d \in Devices, n \in Names : StartLookup(d, n)
    \/ \E d \in Devices : StartCreate(d) \/ PreviewExpire(d)
    \/ \E a \in Approvals, u \in Users, d \in Devices : ApproveSession(a, u, d)
    \/ \E a \in Approvals : ApproveNext(a)
    \/ \E p \in Polls, d \in Devices : PollRead(p, d)
    \/ \E p \in Polls : PollNext(p)
    \/ Tick
    \/ AdminWrite
    \/ Abort

Spec == Init /\ [][Next]_vars

\* The server runs every request it has accepted to its end: the tokio runtime
\* keeps polling a task whose database call has returned, and the calls queue
\* up for the connection's thread in the order in which they come, so that
\* the checks of other requests cannot keep one waiting for ever.
Fairness ==
    /\ \A a \in Approvals : SF_vars(ApproveNext(a))
    /\ \A p \in Polls : SF_vars(PollNext(p))

\* A client that keeps polling, as the `interval' it was given tells it to,
\* until its device code is settled.
ClientPolls ==
    \A d \in Devices : SF_vars(\E p \in Polls : PollRead(p, d))

FairSpec == Spec /\ Fairness /\ ClientPolls

-----------------------------------------------------------------------------
(* Properties *)

\* However many polls race, crash or are retried, at most one of them answers
\* with a token for a device code: consume_device_authorization decides.
AtMostOneRelease ==
    \A s, t \in released : s.dev = t.dev => s = t

\* A token is given out for an authorization that is consumed, to the user the
\* row names as approver: the user the poll read at its start and the row at
\* the end agree although other approvals ran in between.
ReleasedToApprover ==
    \A t \in released :
        /\ devices[t.dev].status = "consumed"
        /\ devices[t.dev].user = t.user

\* Every token that leaves the server is in issued_tokens with its owner and
\* repository: what an operator cannot see he cannot revoke.
ReleasedIsRecorded ==
    \A t \in released :
        [jti |-> t.jti, user |-> t.user, repo |-> t.repo] \in issued

\* A poll signs and records a token only if, at some moment of that very poll,
\* the approver's account was active and had write access to the token's
\* repository.  The approval is not enough: grants and accounts revoked
\* between the approval and the poll stop the token.  The mint checks twice, so
\* one check that two commits of lore-authctl tear does no harm: only a poll
\* both of whose checks are torn may go wrong.
FreshlyAuthorized ==
    \A p \in Polls :
        polls[p].pc \in {"record", "consume"} =>
            /\ polls[p].userSeen
            /\ polls[p].target \in polls[p].repoSeen \/ polls[p].torn

\* The approvals in flight that may have led from devices to devices'
Approving(d) ==
    {a \in Approvals : approvals[a].dev = d /\ approvals[a].user = devices'[d].user}

\* An approval is committed only within the code's lifetime, and by a user who
\* could write to the requested repository at some moment of that request,
\* unless two commits of lore-authctl tore its check.
ApprovedByWriter ==
    [][\A d \in Devices :
         devices[d].status # "approved" /\ devices'[d].status = "approved" =>
           /\ clock < devices[d].expires
           /\ \E a \in Approving(d) : approvals[a].seen \/ approvals[a].torn]_vars

\* Two users may race to approve one code, and polls race with both: the
\* first commit wins, and neither the approver nor the requested repository
\* of a row ever changes again.
ApproverStable ==
    [][\A d \in Devices :
         devices[d].user # NoUser =>
           /\ devices'[d].user = devices[d].user
           /\ devices'[d].repo = devices[d].repo]_vars

\* A repository that loreserver registered keeps its name for ever, so the
\* detour of the mint through the repository's name is harmless for it: the
\* token is for the very repository that was requested and approved.
RebacTokenForRequested ==
    \A t \in released :
        repos[devices[t.dev].repo].source = "rebac" =>
            t.repo = devices[t.dev].repo

\* The flow does what the abstract device grant says: requests, retries and
\* the clock disappear, and what is left is one decision per step.
grantBar ==
    [d \in Devices |-> [state |-> IF devices[d].status = "absent" THEN "none"
                                 ELSE devices[d].status,
                       user  |-> devices[d].user]]

handedBar == {[dev |-> t.dev, user |-> t.user, token |-> t.jti] : t \in released}

AbstractGrant ==
    INSTANCE DeviceGrant WITH
        Tokens <- 1 .. MaxTokens, grant <- grantBar, handed <- handedBar

\* Every behaviour of the device flow is one of DeviceGrant: racing requests
\* of DeviceService never skip, repeat or undo a decision.
ImplementsGrant == AbstractGrant!GrantSpec

\* Every poll request is answered.
PollsAnswered ==
    \A p \in Polls : polls[p].pc # "idle" ~> polls[p].pc = "idle"

\* A client that keeps polling an approved code gets its token while the code
\* lives, although polls are lost, crash or are refused by a torn check: a poll
\* that dies after recording its token does not burn the code.  Only the loss of
\* account, access or repository ends the code otherwise.  Assumed is that polls
\* do not fail for ever, as they do when the database is gone or groups are
\* nested too deep for the resolver: such failures are aborts, which are finite.
ApprovedIsRedeemed ==
    \A d \in Devices :
        (devices[d].status = "approved") ~>
            \/ \E t \in released : t.dev = d
            \/ Expired(d)
            \/ devices[d].user \notin activeUsers
            \/ devices[d].repo \notin Writable(repos, writers, devices[d].user)

\* configuration.md: `device_code_ttl_seconds' "is the TTL for device flow user
\* codes and device codes": no token is released on a device code whose
\* lifetime is over.
RedeemedWithinTtl ==
    \A t \in released : t.at < devices[t.dev].expires

\* operations.md: the flow is for requesting "a repository token that a
\* logged-in user approves": the token is for the approved repository.
TokenForRequested ==
    \A t \in released : t.repo = devices[t.dev].repo

=============================================================================
