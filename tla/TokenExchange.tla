--------------------------- MODULE TokenExchange ---------------------------
(***************************************************************************)
(* Tokens from the first login to the exchange: TokenService of            *)
(* lore-auth-core over the accounts of AccountDirectory and the keys of    *)
(* SigningKeys.  A login or `lore-authctl token mint-authn' yields an      *)
(* authn token; UrcAuthApi exchanges it for an authz token on several      *)
(* repositories, or checks permissions with it.                            *)
(*                                                                         *)
(* One action is one database call (or the load of a key) with the         *)
(* synchronous code around it.  Meanwhile accounts, access and keys        *)
(* change, and the server restarts.  An access check or listing begins and *)
(* ends, as CheckInFlight says, with commits of lore-authctl in between;   *)
(* the server's other database calls wait for it.  How a login reaches its *)
(* mint is in CliLogin, how access comes about in AccessControl.           *)
(*                                                                         *)
(* A definition X_Fault is X with a plausible bug, kept beside it to show  *)
(* that a property notices; no specification uses it.                      *)
(***************************************************************************)
EXTENDS AccountDirectory, SigningKeys, CheckInFlight, FiniteSets

CONSTANTS
    Repos,           \* resource ids
    NoRepo,
    Calls,           \* concurrent calls of the server or processes of lore-authctl
    SharedAudience,  \* does jwt.audience contain the host of public_base_url?
    AuthnTtl, AuthzTtl,
    MaxClock,        \* bound: the last instant of the clock
    MaxTokens,       \* bound: tokens recorded
    MaxEvents        \* bound: administrative writes, aborts, crashes and restarts

ASSUME TokensAssumption ==
    /\ NoRepo \notin Repos /\ SharedAudience \in BOOLEAN
    /\ AuthnTtl \in Nat \ {0} /\ AuthzTtl \in Nat \ {0}
    /\ MaxClock \in Nat /\ MaxTokens \in Nat /\ MaxEvents \in Nat

VARIABLES
    live,     \* repositories that get_by_resource_id finds
    writers,  \* [user, repository] pairs that the grants allow to write
    calls,    \* Calls -> call
    issued,   \* rows of issued_tokens, each with its JWT
    events

vars == <<accountVars, clock, keyVars, live, writers, calls, issued, events>>

-----------------------------------------------------------------------------
\* `key' is what the JWT is signed with; `parent' (the token it was exchanged
\* for) and `since' (when that one was verified) are history.
Token == [jti : Nat, kind : {"authn", "authz"}, user : Users, kid : Kids, key : Nat,
          repos : SUBSET Repos, expires : Nat, parent : Nat, since : Nat]

\* `seen' and `userSeen' are history: which of the repositories the user could
\* write to, and whether the account was active, at some moment of the call;
\* `torn': the repositories granted or listed by a check that two or more
\* commits fell into.
Call == [pc       : {"idle", "load", "principal", "jti", "lookup", "listing", "find", "check",
                     "checking", "done"},
         kind     : {"none", "login", "authctl", "exchange", "check", "lookup"},
         signer   : Signer,
         user     : Users \cup {NoUser},
         parent   : Nat,
         since    : Nat,
         todo     : SUBSET Repos,
         repo     : Repos \cup {NoRepo},   \* the resource in hand
         got      : SUBSET Repos,
         check    : CheckRecord(Repos),    \* the check or listing in flight
         torn     : SUBSET Repos,
         seen     : SUBSET Repos,
         userSeen : BOOLEAN]

IdleCall == [pc |-> "idle", kind |-> "none", signer |-> Down, user |-> NoUser, parent |-> 0,
             since |-> 0, todo |-> {}, repo |-> NoRepo, got |-> {}, check |-> NoCheck,
             torn |-> {}, seen |-> {}, userSeen |-> FALSE]

TypeOK ==
    /\ AccountsTypeOK /\ KeysTypeOK
    /\ live \subseteq Repos
    /\ writers \subseteq Users \X Repos
    /\ calls \in [Calls -> Call]
    /\ issued \subseteq Token
    /\ events \in Nat

Init ==
    /\ AccountsInit /\ KeysInit
    /\ live = Repos
    /\ writers = Users \X Repos
    /\ calls = [c \in Calls |-> IdleCall]
    /\ issued = {}
    /\ events = 0

\* Those of rs that the user of a call can write to
Writable(rs, ws, call) == {r \in rs : <<call.user, r>> \in ws}

\* What a call is about, and what its check or listing is about
About(call) == call.todo \cup call.got

Asked(call) == IF call.repo = NoRepo THEN Repos ELSE {call.repo}

\* Every call under way sees what the new state would allow it.
Witnessed(cs, us, rs, ws) ==
    [c \in Calls |->
        IF cs[c].pc = "idle" THEN cs[c]
        ELSE [cs[c] EXCEPT !.seen = @ \cup (About(cs[c]) \cap Writable(rs, ws, cs[c])),
                           !.userSeen = @ \/ us[cs[c].user].status = "active"]]

Checking == {"checking", "listing"}

\* The server's connection is taken by a check or listing.
Busy == \E c \in Calls : calls[c].pc \in Checking

\* A commit falls into the checks in flight.
Committed(cs, rs, ws) ==
    [c \in Calls |->
        IF cs[c].pc \notin Checking THEN cs[c]
        ELSE [cs[c] EXCEPT !.check = Noted(@, Asked(cs[c]) \cap Writable(rs, ws, cs[c]))]]

\* The next step of a call waits for the connection.  A process of lore-authctl
\* has its own, and a final answer needs none.
Waits(call) ==
    /\ Busy
    /\ call.pc \notin Checking /\ call.kind # "authctl"
    /\ call.pc = "done" => call.kind \notin {"check", "lookup"}

CallStep(c, from, ok, next) ==
    /\ calls[c].pc = from
    /\ ~Waits(calls[c])
    /\ calls' = [calls EXCEPT ![c] = IF ok THEN next ELSE IdleCall]

Begin(c, call) ==
    /\ calls[c].pc = "idle"
    /\ calls' = Witnessed([calls EXCEPT ![c] = call], users', live, writers)

Untouched == UNCHANGED <<clock, keyVars, live, writers, events>>

-----------------------------------------------------------------------------
(* mint_authn *)

MintCall(kind, u, signer, pc) ==
    [IdleCall EXCEPT !.pc = pc, !.kind = kind, !.user = u, !.signer = signer]

\* A login ends in mint_authn, with the signer of the server.
Login(c, s, u, e, verified) ==
    /\ server.pc = "up" /\ ~Busy
    /\ ResolveLogin(s, u, e, verified)
    /\ Begin(c, MintCall("login", u, server, "principal"))
    /\ UNCHANGED issued /\ Untouched

\* `token mint-authn': build_token_service reads the active row, then the file;
\* it makes no preflight.
AuthctlMint(c, u, k) ==
    /\ ActiveRow(k)
    /\ UNCHANGED accountVars
    /\ Begin(c, MintCall("authctl", u, Meta(k), "load"))
    /\ UNCHANGED issued /\ Untouched

LoadSigner(c) ==
    /\ CallStep(c, "load", Loads(calls[c].signer),
                [calls[c] EXCEPT !.pc = "principal", !.signer = Loaded(@)])
    /\ UNCHANGED <<accountVars, issued>> /\ Untouched

\* principal_by_user_id
Principal(c) ==
    /\ CallStep(c, "principal", Active(calls[c].user), [calls[c] EXCEPT !.pc = "done"])
    /\ UNCHANGED <<accountVars, issued>> /\ Untouched

-----------------------------------------------------------------------------
(* verify_authn and what UrcAuthApi does with the account *)

\* verify: the kid and the key are the signer's own, the token is in time, and
\* its audience has the host of public_base_url.
Verifies(t) ==
    /\ t.kid = server.kid /\ t.key = server.key
    /\ clock < t.expires
    /\ t.kind = "authn" \/ SharedAudience

\* ExchangeUserTokenForMultiresourceToken, CheckUserPermission (whose token may
\* be that of a target user) and LookupUserPermissions, about all resources; an
\* exchange for no resource is refused, a check of none has nothing to say.
Present(c, kind, t, rs) ==
    /\ server.pc = "up" /\ Verifies(t)
    /\ UNCHANGED accountVars
    /\ Begin(c, [IdleCall EXCEPT !.pc = "jti", !.kind = kind, !.signer = server,
                                 !.user = t.user, !.parent = t.jti, !.todo = rs])
    /\ UNCHANGED issued /\ Untouched

\* Faulty variant: any recorded token will do.
LoggedIn_AnyKind(t) == clock < t.expires /\ Active(t.user)

\* principal_by_authn_token_jti (nothing sets revoked_at)
LoggedIn(t) == t.kind = "authn" /\ clock < t.expires /\ Active(t.user)

ByJti(c) ==
    /\ CallStep(c, "jti", \E t \in issued : t.jti = calls[c].parent /\ LoggedIn(t),
                [calls[c] EXCEPT !.pc = IF calls[c].kind = "lookup" THEN "lookup" ELSE "find",
                                 !.since = clock])
    /\ UNCHANGED <<accountVars, issued>> /\ Untouched

\* A check or listing begins with its first SELECT.
Begins(call, to) ==
    [call EXCEPT !.pc = to, !.check = Begun(Asked(call) \cap Writable(live, writers, call))]

\* Those of `got' that the answer of a torn check put there
TornBy(check, got) == IF Torn(check) THEN got ELSE {}

\* list_accessible: its first SELECT, then the others and what they say of
\* writing
Lookup(c) ==
    /\ CallStep(c, "lookup", TRUE, Begins(calls[c], "listing"))
    /\ UNCHANGED <<accountVars, issued>> /\ Untouched

Listed(c) ==
    /\ \E got \in Outcomes(calls[c].check, Repos) :
          CallStep(c, "listing", TRUE,
                   [calls[c] EXCEPT !.pc = "done", !.todo = {}, !.got = got,
                                    !.check = NoCheck, !.torn = TornBy(calls[c].check, got)])
    /\ UNCHANGED <<accountVars, issued>> /\ Untouched

\* The answer on one resource: `got' is {r} or nothing; the last one ends the
\* loop.
Judged(call, r, got) ==
    [call EXCEPT !.todo = @ \ {r},
                 !.repo = NoRepo,
                 !.got = @ \cup got,
                 !.check = NoCheck,
                 !.torn = @ \cup TornBy(call.check, got),
                 !.pc = IF call.todo = {r} THEN "done" ELSE "find"]

\* get_by_resource_id: an unknown resource ends an exchange; a check denies it
\* and goes on.
Find(c, r) ==
    /\ r \in calls[c].todo
    /\ CallStep(c, "find", r \in live \/ calls[c].kind = "check",
                IF r \in live THEN [calls[c] EXCEPT !.pc = "check", !.repo = r]
                ELSE Judged(calls[c], r, {}))
    /\ UNCHANGED <<accountVars, issued>> /\ Untouched

\* can_access(u, r, "write"): its first SELECT; a resource that is gone by now
\* is an error
Check(c) ==
    /\ CallStep(c, "check", calls[c].repo \in live, Begins(calls[c], "checking"))
    /\ UNCHANGED <<accountVars, issued>> /\ Untouched

\* Faulty variant: only the first resource is checked.
Answers_First(call) ==
    IF call.got # {} THEN {{call.repo}} ELSE Outcomes(call.check, {call.repo})

Answers(call) == Outcomes(call.check, {call.repo})

\* Its other SELECTs and the answer; a refusal ends an exchange.
Checked(c) ==
    /\ calls[c].pc = "checking"
    /\ \E got \in Answers(calls[c]) :
          CallStep(c, "checking", got # {} \/ calls[c].kind = "check",
                   Judged(calls[c], calls[c].repo, got))
    /\ UNCHANGED <<accountVars, issued>> /\ Untouched

\* Faulty variant: the lifetime is taken off.
Expiry_Backwards(kind) == clock - (IF kind = "authn" THEN AuthnTtl ELSE AuthzTtl)

Expiry(kind) == clock + (IF kind = "authn" THEN AuthnTtl ELSE AuthzTtl)

\* sign_authn or sign_authz, then record; checks and lookups just answer.
Done(c) ==
    LET call == calls[c]
        kind == IF call.kind = "exchange" THEN "authz" ELSE "authn"
        jti  == Cardinality(issued) + 1
    IN  /\ CallStep(c, "done", TRUE, IdleCall)
        /\ IF call.kind \in {"check", "lookup"} THEN UNCHANGED issued
           ELSE /\ jti <= MaxTokens
                /\ issued' = issued \cup
                     {[jti |-> jti, kind |-> kind, user |-> call.user,
                       kid |-> call.signer.kid, key |-> call.signer.key,
                       repos |-> call.got, parent |-> call.parent, since |-> call.since,
                       expires |-> Expiry(kind)]}
        /\ UNCHANGED accountVars /\ Untouched

CallNext(c) ==
    \/ LoadSigner(c) \/ Principal(c) \/ ByJti(c) \/ Lookup(c) \/ Listed(c)
    \/ \E r \in Repos : Find(c, r)
    \/ Check(c) \/ Checked(c) \/ Done(c)

-----------------------------------------------------------------------------
(* The environment *)

CountEvent == events < MaxEvents /\ events' = events + 1

AdminWrite ==
    /\ CountEvent
    /\ AdminNext
    /\ calls' = Witnessed(calls, users', live, writers)
    /\ UNCHANGED <<clock, keyVars, live, writers, issued>>

\* A repository is deleted or comes back, access is given or taken; or a commit
\* that changes nobody's access falls into a check.
ChangeAccess(rs, ws) ==
    /\ CountEvent
    /\ live' = rs /\ writers' = ws
    /\ calls' = Committed(Witnessed(calls, users, rs, ws), rs, ws)
    /\ UNCHANGED <<accountVars, clock, keyVars, issued>>

Toggle(set, e) == IF e \in set THEN set \ {e} ELSE set \cup {e}

KeysOnly == UNCHANGED <<accountVars, live, writers, issued>>

KeyStep ==
    /\ \/ \E p \in Procs, k \in Kids, d \in Dirs : Generate(p, k, d)
       \/ \E p \in Procs : ProcNext(p)
       \/ \E k \in Kids : StartServer(k)
       \/ LoadServerKey
    /\ UNCHANGED <<calls, events>> /\ KeysOnly

CrashProc(p) ==
    /\ CountEvent
    /\ Crash(p)
    /\ UNCHANGED calls /\ KeysOnly

\* The calls of the server end with it.
Shutdown ==
    /\ CountEvent
    /\ StopServer
    /\ calls' = [c \in Calls |-> IF calls[c].kind = "authctl" THEN calls[c] ELSE IdleCall]
    /\ KeysOnly

\* The client is gone, a database call failed, or an access check or listing
\* ended in an error.
Abort(c) ==
    /\ CountEvent
    /\ calls[c].pc # "idle"
    /\ calls' = [calls EXCEPT ![c] = IdleCall]
    /\ UNCHANGED <<clock, keyVars>> /\ KeysOnly

Tick ==
    /\ clock < MaxClock
    /\ KeysTick
    /\ UNCHANGED <<calls, events>> /\ KeysOnly

Next ==
    \/ \E c \in Calls :
          \/ \E s \in Subjects, u \in Users, e \in Emails, v \in BOOLEAN : Login(c, s, u, e, v)
          \/ \E u \in Users, k \in Kids : AuthctlMint(c, u, k)
          \/ \E t \in issued : Present(c, "lookup", t, Repos)
          \/ \E t \in issued, rs \in SUBSET Repos \ {{}} :
                Present(c, "exchange", t, rs) \/ Present(c, "check", t, rs)
          \/ CallNext(c) \/ Abort(c)
    \/ AdminWrite
    \/ \E r \in Repos : ChangeAccess(Toggle(live, r), writers)
    \/ \E e \in Users \X Repos : ChangeAccess(live, Toggle(writers, e))
    \/ Busy /\ ChangeAccess(live, writers)
    \/ KeyStep \/ Shutdown \/ Tick
    \/ \E p \in Procs : CrashProc(p)

Spec == Init /\ [][Next]_vars

-----------------------------------------------------------------------------
(* Properties *)

\* Whatever kid a token carries, it is signed with the key registered under
\* that kid, so the JWKS of a server that signs with this kid verifies it.  This
\* holds although lore-authctl makes no preflight, several processes generate
\* keys under one kid, and the server was started before or after them.
SignedByRegisteredKey ==
    \A t \in issued : Registered(t.kid) /\ t.key = rows[t.kid].key

\* exchange_authz grants, and check_user_permission and lookup_user_permissions
\* report, only what the user could write to at some moment of the call, for
\* each of the resources, unless two commits of lore-authctl fell into the check
\* of that resource (what AccessControl's SnapshotIsAMoment shows can go wrong);
\* and an account that was not active at any moment of a call gets neither a
\* token nor an answer.
AnswerWasTrue ==
    \A c \in Calls :
        calls[c].pc = "done" => /\ calls[c].got \subseteq calls[c].seen \cup calls[c].torn
                                /\ calls[c].userSeen

\* An authz token stems from an authn token of the same account, not from
\* another authz token, and that one had not expired when it was looked up: a
\* login is not prolonged by exchanging tokens again and again, even if
\* jwt.audience lets an authz token pass verification.
ExchangedInTime ==
    LET LoggedInBy(x) == \E t \in issued : /\ t.jti = x.parent /\ t.kind = "authn"
                                           /\ t.user = x.user /\ x.since < t.expires
    IN  /\ \A t \in issued : t.kind = "authz" => LoggedInBy(t)
        /\ \A c \in Calls :
              calls[c].pc \in {"lookup", "find", "check"} \cup Checking => LoggedInBy(calls[c])

=============================================================================
