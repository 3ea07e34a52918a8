------------------------------ MODULE CliLogin ------------------------------
(***************************************************************************)
(* Login of the Lore CLI: LoginService of lore-auth-core over the tables   *)
(* auth_sessions, login_transactions and sessions.  The CLI opens an auth  *)
(* session and polls it; a browser opens the session's login URL, is sent  *)
(* to the identity provider with a login state, and comes back to the      *)
(* callback, which completes the auth session.  A login that belongs to no *)
(* auth session, or to one that is over, ends in a browser session.        *)
(*                                                                         *)
(* As in DeviceFlow one action is one database call with the synchronous   *)
(* code up to the next one, and a request may end at any await.            *)
(*                                                                         *)
(* A definition X_Fault is X with a plausible bug, kept beside it to show  *)
(* that a property notices; no specification uses it.                      *)
(***************************************************************************)
EXTENDS Integers

CONSTANTS
    Users,       \* accounts; an identity of the provider resolves to one
    Sessions,    \* auth sessions: a row, its session code, its login nonce
    States,      \* login states: a row and the `state' parameter it is found by
    Polls,       \* concurrent GetAuthSession calls
    Callbacks,   \* concurrent callback requests
    Pkce,        \* does the provider keep private state (a PKCE verifier)?
    SessionTtl, StateTtl,
    NoUser, NoSession, NoState,
    MaxClock,    \* bound: the last instant of the clock
    MaxTokens,   \* bound: tokens recorded
    MaxEvents    \* bound: status changes of accounts and aborted requests

ASSUME CliLoginAssumption ==
    /\ SessionTtl \in Nat \ {0} /\ StateTtl \in Nat \ {0}
    /\ MaxClock \in Nat /\ MaxTokens \in Nat /\ MaxEvents \in Nat
    /\ Pkce \in BOOLEAN
    /\ NoUser \notin Users /\ NoSession \notin Sessions /\ NoState \notin States

VARIABLES
    clock,
    active,     \* users whose status is 'active'
    invited,    \* users whose identity is not bound: a pending invitation waits for it
    sessions,   \* Sessions -> row of auth_sessions
    states,     \* States -> row of login_transactions
    starts,     \* States -> the /auth/:provider/start request that creates it
    sent,       \* login states a browser was redirected with
    redirects,  \* the provider's answers: browsers may deliver them repeatedly
    callbacks,  \* Callbacks -> request
    polls,      \* Polls -> request
    browsers,   \* browser sessions created: [state, user]
    issued,     \* authn rows of issued_tokens
    lastJti,
    released,   \* tokens a poll has answered with (history)
    events

accounts == <<active, invited>>
webVars == <<states, starts, sent, redirects, browsers>>
logVars == <<issued, lastJti, released>>
vars == <<clock, accounts, sessions, webVars, callbacks, polls, logVars, events>>

-----------------------------------------------------------------------------
SessionRow == [status  : {"absent", "pending", "completed", "consumed"},
               user    : Users \cup {NoUser},
               expires : Nat]

StateRow == [status  : {"absent", "open", "used"},
             session : Sessions \cup {NoSession},   \* login_url_nonce
             private : BOOLEAN,                     \* is private_state set?
             expires : Nat]

Start == [pc : {"idle", "create", "private"}, session : Sessions \cup {NoSession}]

Callback == [pc      : {"idle", "exchange", "resolve", "find", "complete", "browser"},
             state   : States \cup {NoState},
             session : Sessions \cup {NoSession},
             private : BOOLEAN,
             user    : Users \cup {NoUser}]

\* `seen' is a history field: was the account active at some moment of the poll?
Poll == [pc      : {"idle", "principal", "record", "consume"},
         session : Sessions \cup {NoSession},
         user    : Users \cup {NoUser},
         jti     : Nat,
         seen    : BOOLEAN]

IdleStart == [pc |-> "idle", session |-> NoSession]
IdleCallback == [pc |-> "idle", state |-> NoState, session |-> NoSession,
                 private |-> FALSE, user |-> NoUser]
IdlePoll == [pc |-> "idle", session |-> NoSession, user |-> NoUser, jti |-> 0,
             seen |-> FALSE]

Login == [state : States, user : Users]
Token == [jti : Nat, user : Users]
Release == [session : Sessions, jti : Nat, user : Users, at : Nat]

TypeOK ==
    /\ clock \in Nat
    /\ active \subseteq Users /\ invited \subseteq Users
    /\ sessions \in [Sessions -> SessionRow]
    /\ states \in [States -> StateRow]
    /\ starts \in [States -> Start]
    /\ sent \subseteq States
    /\ redirects \subseteq Login
    /\ callbacks \in [Callbacks -> Callback]
    /\ polls \in [Polls -> Poll]
    /\ browsers \subseteq Login
    /\ issued \subseteq Token
    /\ lastJti \in Nat
    /\ released \subseteq Release
    /\ events \in Nat

Init ==
    /\ clock = 0
    /\ invited \in SUBSET Users
    /\ active = Users \ invited
    /\ sessions = [s \in Sessions |-> [status |-> "absent", user |-> NoUser, expires |-> 0]]
    /\ states = [x \in States |-> [status |-> "absent", session |-> NoSession,
                                   private |-> FALSE, expires |-> 0]]
    /\ starts = [x \in States |-> IdleStart]
    /\ sent = {}
    /\ redirects = {}
    /\ callbacks = [k \in Callbacks |-> IdleCallback]
    /\ polls = [p \in Polls |-> IdlePoll]
    /\ browsers = {}
    /\ issued = {}
    /\ lastJti = 0
    /\ released = {}
    /\ events = 0

\* auth_session_by_clause: an expired session is as good as none.
Findable(s) == sessions[s].status # "absent" /\ clock < sessions[s].expires

-----------------------------------------------------------------------------
(* StartAuthSession *)

\* Faulty variant: the lifetime is taken off instead of added.
CreateAuthSession_Backwards(s) ==
    /\ sessions[s].status = "absent"
    /\ sessions' = [sessions EXCEPT ![s] = [status |-> "pending", user |-> NoUser,
                                            expires |-> clock - SessionTtl]]
    /\ UNCHANGED <<clock, accounts, webVars, callbacks, polls, logVars, events>>

\* create_auth_session
CreateAuthSession(s) ==
    /\ sessions[s].status = "absent"
    /\ sessions' = [sessions EXCEPT ![s] = [status |-> "pending", user |-> NoUser,
                                            expires |-> clock + SessionTtl]]
    /\ UNCHANGED <<clock, accounts, webVars, callbacks, polls, logVars, events>>

-----------------------------------------------------------------------------
(* GET /auth/:provider/start: handle_auth_start *)

StartUnchanged ==
    UNCHANGED <<clock, accounts, sessions, redirects, browsers, callbacks, polls,
                logVars, events>>

\* A login URL names its auth session, which must be live; a browser login
\* names none.
AuthStart(x, s) ==
    /\ states[x].status = "absent" /\ starts[x].pc = "idle"
    /\ s # NoSession => Findable(s)
    /\ starts' = [starts EXCEPT ![x] = [pc |-> "create", session |-> s]]
    /\ UNCHANGED <<states, sent>> /\ StartUnchanged

\* Faulty variant: the browser is redirected before the private state is kept.
CreateLoginState_Redirects(x) ==
    /\ starts[x].pc = "create"
    /\ states' = [states EXCEPT ![x] = [status |-> "open", session |-> starts[x].session,
                                        private |-> FALSE, expires |-> clock + StateTtl]]
    /\ starts' = [starts EXCEPT ![x] = [@ EXCEPT !.pc = "private"]]
    /\ sent' = sent \cup {x}
    /\ StartUnchanged

\* create_login_state, then begin_auth: without private state the browser is
\* redirected at once.
CreateLoginState(x) ==
    /\ starts[x].pc = "create"
    /\ states' = [states EXCEPT ![x] = [status |-> "open", session |-> starts[x].session,
                                        private |-> FALSE, expires |-> clock + StateTtl]]
    /\ starts' = [starts EXCEPT ![x] = IF Pkce THEN [@ EXCEPT !.pc = "private"] ELSE IdleStart]
    /\ sent' = IF Pkce THEN sent ELSE sent \cup {x}
    /\ StartUnchanged

\* set_login_state_private_state; the redirect is answered only if it took effect
SetPrivateState(x) ==
    LET ok == states[x].status = "open" /\ clock < states[x].expires IN
    /\ starts[x].pc = "private"
    /\ starts' = [starts EXCEPT ![x] = IdleStart]
    /\ states' = IF ok THEN [states EXCEPT ![x].private = TRUE] ELSE states
    /\ sent' = IF ok THEN sent \cup {x} ELSE sent
    /\ StartUnchanged

\* The provider authenticates whoever uses the browser and redirects back.  A
\* second answer for a login state, for whichever user, would do no more than
\* the first one delivered again: the callback finds the state used.
ProviderAnswers(x, u) ==
    /\ x \in sent
    /\ \A m \in redirects : m.state # x
    /\ redirects' = redirects \cup {[state |-> x, user |-> u]}
    /\ UNCHANGED <<clock, accounts, sessions, states, starts, sent, browsers, callbacks,
                   polls, logVars, events>>

-----------------------------------------------------------------------------
(* GET /auth/:provider/callback: handle_auth_callback, complete_auth *)

CallbackStep(k, from, ok, next) ==
    /\ callbacks[k].pc = from
    /\ callbacks' = [callbacks EXCEPT ![k] = IF ok THEN next ELSE IdleCallback]

CallbackUnchanged ==
    UNCHANGED <<clock, starts, sent, redirects, polls, logVars, events>>

\* Faulty variant: consumed_at is not looked at.
Usable_Again(x) == states[x].status # "absent" /\ clock < states[x].expires

\* consume_login_state: one transaction over SELECT and UPDATE
Usable(x) == states[x].status = "open" /\ clock < states[x].expires

\* A login state is used up also when the path names another provider.
CallbackConsume(k, m, samePath) ==
    LET x == m.state IN
    /\ m \in redirects
    /\ CallbackStep(k, "idle", Usable(x) /\ samePath,
                    [pc |-> "exchange", state |-> x, session |-> states[x].session,
                     private |-> states[x].private, user |-> m.user])
    /\ states' = IF Usable(x) THEN [states EXCEPT ![x].status = "used"] ELSE states
    /\ UNCHANGED <<accounts, sessions, browsers>> /\ CallbackUnchanged

\* provider.complete_auth: the provider wants the verifier that belongs to the
\* challenge of the redirect; without it the login fails.
CallbackExchange(k) ==
    /\ CallbackStep(k, "exchange", Pkce => callbacks[k].private,
                    [callbacks[k] EXCEPT !.pc = "resolve"])
    /\ UNCHANGED <<accounts, sessions, states, browsers>> /\ CallbackUnchanged

\* Faulty variant: a login that names no session completes one all the same.
CallbackResolve_AnySession(k) ==
    LET u == callbacks[k].user IN
    /\ \E s \in Sessions :
          CallbackStep(k, "resolve", u \in active \cup invited,
                       [callbacks[k] EXCEPT !.pc = "find", !.session = s])
    /\ active' = IF u \in invited THEN active \cup {u} ELSE active
    /\ invited' = invited \ {u}
    /\ UNCHANGED <<sessions, states, browsers>> /\ CallbackUnchanged

\* resolve_login: the first login of an invited user binds the identity and
\* activates the account, whatever its status; later ones need it active.
CallbackResolve(k) ==
    LET u == callbacks[k].user IN
    /\ CallbackStep(k, "resolve", u \in active \cup invited,
                    [callbacks[k] EXCEPT
                       !.pc = IF callbacks[k].session = NoSession THEN "browser" ELSE "find"])
    /\ active' = IF u \in invited THEN active \cup {u} ELSE active
    /\ invited' = invited \ {u}
    /\ UNCHANGED <<sessions, states, browsers>> /\ CallbackUnchanged

\* get_auth_session_by_nonce; a session that is over makes it a browser login
CallbackFind(k) ==
    /\ CallbackStep(k, "find", TRUE,
                    [callbacks[k] EXCEPT
                       !.pc = IF Findable(callbacks[k].session) THEN "complete" ELSE "browser"])
    /\ UNCHANGED <<accounts, sessions, states, browsers>> /\ CallbackUnchanged

\* Faulty variant: the last browser wins.
Completable_Again(s) == sessions[s].status # "absent" /\ clock < sessions[s].expires

\* complete_auth_session: UPDATE ... WHERE status = 'pending' AND expires_at > now
Completable(s) == sessions[s].status = "pending" /\ clock < sessions[s].expires

CallbackComplete(k) ==
    LET s == callbacks[k].session IN
    /\ CallbackStep(k, "complete", TRUE, IdleCallback)
    /\ sessions' = IF Completable(s)
                   THEN [sessions EXCEPT ![s].status = "completed",
                                         ![s].user = callbacks[k].user]
                   ELSE sessions
    /\ UNCHANGED <<accounts, states, browsers>> /\ CallbackUnchanged

\* create_browser_session
CallbackBrowser(k) ==
    /\ CallbackStep(k, "browser", TRUE, IdleCallback)
    /\ browsers' = browsers \cup {[state |-> callbacks[k].state, user |-> callbacks[k].user]}
    /\ UNCHANGED <<accounts, sessions, states>> /\ CallbackUnchanged

CallbackNext(k) ==
    \/ CallbackExchange(k) \/ CallbackResolve(k) \/ CallbackFind(k)
    \/ CallbackComplete(k) \/ CallbackBrowser(k)

-----------------------------------------------------------------------------
(* GetAuthSession: get_auth_session, which mints through mint_authn *)

PollStep(p, from, ok, next) ==
    /\ polls[p].pc = from
    /\ polls' = [polls EXCEPT ![p] = IF ok THEN next ELSE IdlePoll]

PollUnchanged == UNCHANGED <<clock, accounts, webVars, callbacks, events>>

\* Faulty variant: the session is claimed before the token is minted.
PollRead_Claims(p, s) ==
    /\ Findable(s) /\ sessions[s].status = "completed"
    /\ PollStep(p, "idle", TRUE,
                [pc |-> "principal", session |-> s, user |-> sessions[s].user,
                 jti |-> 0, seen |-> sessions[s].user \in active])
    /\ sessions' = [sessions EXCEPT ![s].status = "consumed"]
    /\ UNCHANGED logVars /\ PollUnchanged

\* An unknown or expired code is an error, a session that is not completed
\* answers "not ready" (a consumed one too).
PollRead(p, s) ==
    /\ Findable(s) /\ sessions[s].status = "completed"
    /\ PollStep(p, "idle", TRUE,
                [pc |-> "principal", session |-> s, user |-> sessions[s].user,
                 jti |-> 0, seen |-> sessions[s].user \in active])
    /\ UNCHANGED <<sessions, logVars>> /\ PollUnchanged

\* Faulty variant: the account is not looked up again.
PollPrincipal_Trusts(p) ==
    /\ PollStep(p, "principal", TRUE, [polls[p] EXCEPT !.pc = "record"])
    /\ UNCHANGED <<sessions, logVars>> /\ PollUnchanged

\* principal_by_user_id, then sign_authn
PollPrincipal(p) ==
    /\ PollStep(p, "principal", polls[p].user \in active,
                [polls[p] EXCEPT !.pc = "record"])
    /\ UNCHANGED <<sessions, logVars>> /\ PollUnchanged

PollRecord(p) ==
    /\ lastJti < MaxTokens
    /\ PollStep(p, "record", TRUE,
                [polls[p] EXCEPT !.pc = "consume", !.jti = lastJti + 1])
    /\ lastJti' = lastJti + 1
    /\ issued' = issued \cup {[jti |-> lastJti + 1, user |-> polls[p].user]}
    /\ UNCHANGED <<sessions, released>> /\ PollUnchanged

\* Faulty variant: the number of rows the UPDATE changed is ignored.
Consumable_Always(s) == clock < sessions[s].expires

\* Faulty variant: an expired session is consumed all the same.
Consumable_Late(s) == sessions[s].status = "completed"

\* consume_auth_session: UPDATE ... WHERE status = 'completed' AND expires_at > now
Consumable(s) == sessions[s].status = "completed" /\ clock < sessions[s].expires

PollConsume(p) ==
    LET s == polls[p].session IN
    /\ PollStep(p, "consume", TRUE, IdlePoll)
    /\ IF Consumable(s)
       THEN /\ sessions' = [sessions EXCEPT ![s].status = "consumed"]
            /\ released' = released \cup
                  {[session |-> s, jti |-> polls[p].jti, user |-> polls[p].user,
                    at |-> clock]}
       ELSE UNCHANGED <<sessions, released>>
    /\ UNCHANGED <<issued, lastJti>> /\ PollUnchanged

PollNext(p) == PollPrincipal(p) \/ PollRecord(p) \/ PollConsume(p)

-----------------------------------------------------------------------------
(* The environment *)

Tick ==
    /\ clock < MaxClock
    /\ clock' = clock + 1
    /\ UNCHANGED <<accounts, sessions, webVars, callbacks, polls, logVars, events>>

CountEvent == events < MaxEvents /\ events' = events + 1

SetStatus(users) ==
    /\ CountEvent
    /\ active' = users /\ UNCHANGED invited
    /\ polls' = [p \in Polls |->
                    IF polls[p].pc = "idle" THEN polls[p]
                    ELSE [polls[p] EXCEPT !.seen = @ \/ polls[p].user \in users]]
    /\ UNCHANGED <<clock, sessions, webVars, callbacks, logVars>>

EnableUser(u)  == u \notin active /\ SetStatus(active \cup {u})
DisableUser(u) == u \in active /\ SetStatus(active \ {u})

\* The client is gone, the database or the provider fails, the identity is not
\* known, or the server stops.
AbortStart(x) ==
    /\ CountEvent
    /\ starts[x].pc # "idle"
    /\ starts' = [starts EXCEPT ![x] = IdleStart]
    /\ UNCHANGED <<clock, accounts, sessions, states, sent, redirects, browsers,
                   callbacks, polls, logVars>>

AbortCallback(k) ==
    /\ CountEvent
    /\ callbacks[k].pc # "idle"
    /\ callbacks' = [callbacks EXCEPT ![k] = IdleCallback]
    /\ UNCHANGED <<clock, accounts, sessions, webVars, polls, logVars>>

AbortPoll(p) ==
    /\ CountEvent
    /\ polls[p].pc # "idle"
    /\ polls' = [polls EXCEPT ![p] = IdlePoll]
    /\ UNCHANGED <<clock, accounts, sessions, webVars, callbacks, logVars>>

Next ==
    \/ \E s \in Sessions : CreateAuthSession(s)
    \/ \E x \in States, s \in Sessions \cup {NoSession} : AuthStart(x, s)
    \/ \E x \in States : CreateLoginState(x) \/ SetPrivateState(x) \/ AbortStart(x)
    \/ \E x \in States, u \in Users : ProviderAnswers(x, u)
    \/ \E k \in Callbacks, m \in redirects, samePath \in BOOLEAN :
          CallbackConsume(k, m, samePath)
    \/ \E k \in Callbacks : CallbackNext(k) \/ AbortCallback(k)
    \/ \E p \in Polls, s \in Sessions : PollRead(p, s)
    \/ \E p \in Polls : PollNext(p) \/ AbortPoll(p)
    \/ \E u \in Users : EnableUser(u) \/ DisableUser(u)
    \/ Tick

Spec == Init /\ [][Next]_vars

\* The runtime runs every accepted request to its end, and the CLI polls the
\* session it has opened.
Fairness ==
    /\ \A k \in Callbacks : WF_vars(CallbackNext(k))
    /\ \A p \in Polls : WF_vars(PollNext(p))
    /\ \A s \in Sessions : WF_vars(\E p \in Polls : PollRead(p, s))

FairSpec == Spec /\ Fairness

-----------------------------------------------------------------------------
(* Properties *)

\* The token that get_auth_session answers with is recorded and belongs to the
\* user whose browser completed the session, although other browsers may have
\* tried to complete it while the poll ran.
TokenForCompleter ==
    \A t \in released :
        /\ sessions[t.session].status = "consumed"
        /\ sessions[t.session].user = t.user
        /\ [jti |-> t.jti, user |-> t.user] \in issued

\* No token is released on a session whose lifetime is over, however late the
\* poll was and whatever it minted before: unlike the device flow, the last
\* UPDATE looks at expires_at again.
ReleasedInTime ==
    \A t \in released : t.at < sessions[t.session].expires

\* A session is completed by a user who logged in at the provider through a
\* login state made for this very session, and that login state is used up:
\* a login made for one terminal never completes another one.
CompletedByItsLogin ==
    \A s \in Sessions :
        sessions[s].user # NoUser =>
            \E m \in redirects : /\ m.user = sessions[s].user
                                 /\ states[m.state].session = s
                                 /\ states[m.state].status = "used"

\* The provider's redirect may be delivered again and again, also to two
\* callbacks at once: at most one callback at a time works on a login state,
\* and none once a browser session came out of it.
OneCallbackPerState ==
    \A k \in Callbacks :
        callbacks[k].pc # "idle" =>
            /\ \A j \in Callbacks \ {k} : callbacks[j].state # callbacks[k].state
            /\ \A b \in browsers : b.state # callbacks[k].state

\* A browser is never sent to the provider with a login state whose private
\* part is not kept yet: no callback fails for want of its verifier, even when
\* the start request dies half-way or the provider answers at once.
VerifierKept ==
    \A k \in Callbacks : callbacks[k].pc # "idle" /\ Pkce => callbacks[k].private

\* A poll records a token only if the account was active at some moment of
\* that very poll: a login completed before the account was disabled is not
\* enough.
FreshAccount ==
    \A p \in Polls : polls[p].pc \in {"record", "consume"} => polls[p].seen

\* The login of the CLI is a one-time grant like the device flow.
grantBar ==
    [s \in Sessions |->
        [state |-> CASE sessions[s].status = "absent" -> "none"
                     [] sessions[s].status = "completed" -> "approved"
                     [] OTHER -> sessions[s].status,
         user  |-> sessions[s].user]]

handedBar == {[dev |-> t.session, user |-> t.user, token |-> t.jti] : t \in released}

AbstractGrant ==
    INSTANCE DeviceGrant WITH
        Devices <- Sessions, Tokens <- 1 .. MaxTokens,
        grant <- grantBar, handed <- handedBar

\* Racing browsers and polls never skip, repeat or undo a decision: a session is
\* opened, completed by one user, and redeemed once.  However many polls of
\* GetAuthSession race, crash or are retried, one of them at most answers with a
\* token: consume_auth_session decides.
ImplementsGrant == AbstractGrant!GrantSpec

\* A completed session that the CLI polls yields its token, unless it expires or
\* the account is disabled: a poll that dies after recording a token does not
\* burn the session.
CompletedIsRedeemed ==
    \A s \in Sessions :
        (sessions[s].status = "completed") ~>
            \/ \E t \in released : t.session = s
            \/ ~Findable(s)
            \/ sessions[s].user \notin active

=============================================================================
