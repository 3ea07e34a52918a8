---------------------------- MODULE AdminConsole ----------------------------
(***************************************************************************)
(* Browser sessions, CSRF tokens and the requests that need both: logout,  *)
(* the /tokens page and the admin UI: its pages, its writes, the simulator *)
(* and disabling an account, with the rule that the last active            *)
(* administrator stays.  What the other writes do to the tables is in      *)
(* AccessControl and AccountDirectory.                                     *)
(*                                                                         *)
(* One action is one database call with the code up to the next one.  Each *)
(* request carries the user that its session resolved to at the start, and *)
(* goes on with it whatever happens to the session or the account.         *)
(*                                                                         *)
(* A definition X_Fault is X with a plausible bug, kept beside it to show  *)
(* that a property notices; no specification uses it.                      *)
(***************************************************************************)
EXTENDS Integers

CONSTANTS
    Users,      \* accounts
    Admins,     \* accounts whose email is in admin_emails
    Cookies,    \* browser sessions
    CsrfTokens, \* rows of csrf_tokens
    Requests,   \* concurrent requests
    SessionTtl, CsrfTtl,
    NoUser, NoCookie, NoToken,
    MaxClock,   \* bound: the last instant of the clock
    MaxEvents   \* bound: status changes by lore-authctl and aborted requests

ASSUME AdminConsoleAssumption ==
    /\ Admins \subseteq Users
    /\ SessionTtl \in Nat \ {0} /\ CsrfTtl \in Nat \ {0}
    /\ MaxClock \in Nat /\ MaxEvents \in Nat
    /\ NoUser \notin Users /\ NoCookie \notin Cookies /\ NoToken \notin CsrfTokens

VARIABLES
    clock,
    active,    \* users whose status is 'active'
    cookies,   \* Cookies -> row of `sessions'
    csrf,      \* CsrfTokens -> row of csrf_tokens
    requests,  \* Requests -> request
    events

vars == <<clock, active, cookies, csrf, requests, events>>

-----------------------------------------------------------------------------
CookieRow == [status  : {"absent", "live", "revoked"},
              user    : Users \cup {NoUser},
              expires : Nat]

CsrfRow == [status  : {"absent", "fresh", "used"},
            cookie  : Cookies \cup {NoCookie},
            expires : Nat]

\* The forms of the admin UI, and all requests
AdminForms == {"disable", "write", "simulate"}
Kinds == {"page", "logout", "mint"} \cup AdminForms

\* `stale' is a history field: has an account changed since the request
\* counted the administrators?
Request == [pc     : {"idle", "page", "admin", "csrf", "revoke", "mint",
                      "write", "target", "count", "commit", "simulate"},
            cookie : Cookies \cup {NoCookie},
            user   : Users \cup {NoUser},
            token  : CsrfTokens \cup {NoToken},
            kind   : Kinds,
            target : Users \cup {NoUser},
            stale  : BOOLEAN]

IdleRequest == [pc |-> "idle", cookie |-> NoCookie, user |-> NoUser, token |-> NoToken,
                kind |-> "page", target |-> NoUser, stale |-> FALSE]

TypeOK ==
    /\ clock \in Nat
    /\ active \subseteq Users
    /\ cookies \in [Cookies -> CookieRow]
    /\ csrf \in [CsrfTokens -> CsrfRow]
    /\ requests \in [Requests -> Request]
    /\ events \in Nat

Init ==
    /\ clock = 0
    /\ active = Users
    /\ cookies = [c \in Cookies |-> [status |-> "absent", user |-> NoUser, expires |-> 0]]
    /\ csrf = [t \in CsrfTokens |-> [status |-> "absent", cookie |-> NoCookie, expires |-> 0]]
    /\ requests = [q \in Requests |-> IdleRequest]
    /\ events = 0

-----------------------------------------------------------------------------
(* Sessions and forms *)

\* Faulty variant: revoked_at is not looked at.
Resolves_Revoked(c) ==
    /\ cookies[c].status # "absent" /\ clock < cookies[c].expires
    /\ cookies[c].user \in active

\* user_by_browser_session: not revoked, not expired, of an active account
Resolves(c) ==
    /\ cookies[c].status = "live" /\ clock < cookies[c].expires
    /\ cookies[c].user \in active

\* require_admin
IsAdmin(c) == Resolves(c) /\ cookies[c].user \in Admins

\* Request q goes on to `next', or is answered with `else'.
RequestStep(q, from, ok, next, else) ==
    /\ requests[q].pc = from
    /\ requests' = [requests EXCEPT ![q] = IF ok THEN next ELSE else]

To(q, pc) == [requests[q] EXCEPT !.pc = pc]

\* A page with a form is rendered for session c: it needs a CSRF token.  The
\* pages of the admin UI come back after every write, done or refused.
RenderPage(c) == [IdleRequest EXCEPT !.pc = "page", !.cookie = c, !.user = cookies[c].user]

\* Faulty variant: the lifetime is taken off instead of added.
CreateBrowserSession_Backwards(c, u) ==
    /\ cookies[c].status = "absent"
    /\ u \in active
    /\ cookies' = [cookies EXCEPT ![c] = [status |-> "live", user |-> u,
                                          expires |-> clock - SessionTtl]]
    /\ UNCHANGED <<clock, active, csrf, requests, events>>

\* create_browser_session, at the end of a login
CreateBrowserSession(c, u) ==
    /\ cookies[c].status = "absent"
    /\ u \in active
    /\ cookies' = [cookies EXCEPT ![c] = [status |-> "live", user |-> u,
                                          expires |-> clock + SessionTtl]]
    /\ UNCHANGED <<clock, active, csrf, requests, events>>

\* GET of a page with a form, or of the CSRF endpoint: the session, then a
\* token bound to it.
OpenPage(q, c) ==
    /\ requests[q].pc = "idle" /\ Resolves(c)
    /\ requests' = [requests EXCEPT ![q] = RenderPage(c)]
    /\ UNCHANGED <<clock, active, cookies, csrf, events>>

\* The pages of the admin UI: guard_middleware, and require_admin again
OpenAdminPage(q, c) ==
    /\ requests[q].pc = "idle" /\ IsAdmin(c)
    /\ requests' = [requests EXCEPT ![q] = [RenderPage(c) EXCEPT !.pc = "admin"]]
    /\ UNCHANGED <<clock, active, cookies, csrf, events>>

\* create_csrf_token; the rows of the page are read afterwards
CreateCsrfToken(q, t) ==
    /\ csrf[t].status = "absent"
    /\ RequestStep(q, "page", requests[q].kind = "simulate", To(q, "simulate"), IdleRequest)
    /\ csrf' = [csrf EXCEPT ![t] = [status |-> "fresh", cookie |-> requests[q].cookie,
                                    expires |-> clock + CsrfTtl]]
    /\ UNCHANGED <<clock, active, cookies, events>>

\* A form is posted with some session and some token.  In the admin UI this
\* is guard_middleware, and the handler asks require_admin again.
Post(q, kind, c, t, target) ==
    /\ requests[q].pc = "idle"
    /\ csrf[t].status # "absent"
    /\ IF kind \in AdminForms THEN IsAdmin(c) ELSE Resolves(c)
    /\ (kind = "disable") <=> (target # NoUser)
    /\ requests' = [requests EXCEPT ![q] =
                       [pc |-> IF kind \in AdminForms THEN "admin" ELSE "csrf",
                        cookie |-> c, user |-> cookies[c].user, token |-> t,
                        kind |-> kind, target |-> target, stale |-> FALSE]]
    /\ UNCHANGED <<clock, active, cookies, csrf, events>>

RequireAdmin(q) ==
    /\ RequestStep(q, "admin", IsAdmin(requests[q].cookie),
                   To(q, IF requests[q].kind = "page" THEN "page" ELSE "csrf"), IdleRequest)
    /\ UNCHANGED <<clock, active, cookies, csrf, events>>

\* Faulty variant: consumed_at is not looked at.
Spendable_Again(t, c) ==
    csrf[t].status # "absent" /\ csrf[t].cookie = c /\ clock < csrf[t].expires

\* consume_csrf_token: UPDATE ... WHERE session_id = c AND consumed_at IS NULL
\* AND expires_at > now
Spendable(t, c) ==
    csrf[t].status = "fresh" /\ csrf[t].cookie = c /\ clock < csrf[t].expires

ConsumeCsrfToken(q) ==
    LET t  == requests[q].token
        ok == Spendable(t, requests[q].cookie)
    IN  /\ RequestStep(q, "csrf", ok,
                       CASE requests[q].kind = "logout"   -> To(q, "revoke")
                         [] requests[q].kind = "mint"     -> To(q, "mint")
                         [] requests[q].kind = "write"    -> To(q, "write")
                         [] requests[q].kind = "disable"  -> To(q, "target")
                         [] requests[q].kind = "simulate" ->
                              [RenderPage(requests[q].cookie) EXCEPT !.kind = "simulate"],
                       IdleRequest)
        /\ csrf' = IF ok THEN [csrf EXCEPT ![t].status = "used"] ELSE csrf
        /\ UNCHANGED <<clock, active, cookies, events>>

-----------------------------------------------------------------------------
(* What the requests do *)

\* handle_logout: revoke_browser_session
Revoke(q) ==
    /\ RequestStep(q, "revoke", TRUE, IdleRequest, IdleRequest)
    /\ cookies' = [cookies EXCEPT ![requests[q].cookie].status = "revoked"]
    /\ UNCHANGED <<clock, active, csrf, events>>

\* handle_token_mint: the mint is the one of DeviceFlow
Mint(q) ==
    /\ RequestStep(q, "mint", TRUE, IdleRequest, IdleRequest)
    /\ UNCHANGED <<clock, active, cookies, csrf, events>>

\* The other forms of the admin UI: one audited write, which may be refused,
\* then the page again
Write(q) ==
    /\ RequestStep(q, "write", TRUE, RenderPage(requests[q].cookie), IdleRequest)
    /\ UNCHANGED <<clock, active, cookies, csrf, events>>

\* handle_simulator_check makes its new CSRF token before it asks for the
\* verdict and the evidence; both are reads, of AccessControl.
Simulate(q) ==
    /\ RequestStep(q, "simulate", TRUE, IdleRequest, IdleRequest)
    /\ UNCHANGED <<clock, active, cookies, csrf, events>>

\* handle_user_disable: user_by_id, then the first rule of
\* validate_admin_disable_target; only administrators are counted
FindTarget(q) ==
    LET u == requests[q].target IN
    /\ RequestStep(q, "target", u # requests[q].user,
                   To(q, IF u \in Admins THEN "count" ELSE "commit"),
                   RenderPage(requests[q].cookie))
    /\ UNCHANGED <<clock, active, cookies, csrf, events>>

\* Faulty variant: the account to be disabled is counted as well.
Remaining_WithTarget(u) == active \cap Admins

\* list_users: the active administrators besides the target
Remaining(u) == (active \cap Admins) \ {u}

CountAdmins(q) ==
    /\ RequestStep(q, "count", Remaining(requests[q].target) # {}, To(q, "commit"),
                   RenderPage(requests[q].cookie))
    /\ UNCHANGED <<clock, active, cookies, csrf, events>>

\* A status change makes every count in flight out of date.
StatusChange(users, rest) ==
    /\ active' = users
    /\ requests' = [q \in Requests |->
                       IF rest[q].pc = "commit" THEN [rest[q] EXCEPT !.stale = TRUE]
                       ELSE rest[q]]

\* AuditedStore::disable_user
DisableTarget(q) ==
    /\ requests[q].pc = "commit"
    /\ StatusChange(active \ {requests[q].target},
                    [requests EXCEPT ![q] = RenderPage(requests[q].cookie)])
    /\ UNCHANGED <<clock, cookies, csrf, events>>

RequestNext(q) ==
    \/ RequireAdmin(q) \/ ConsumeCsrfToken(q) \/ Revoke(q) \/ Mint(q) \/ Write(q) \/ Simulate(q)
    \/ FindTarget(q) \/ CountAdmins(q) \/ DisableTarget(q)

-----------------------------------------------------------------------------
(* The environment *)

Tick ==
    /\ clock < MaxClock
    /\ clock' = clock + 1
    /\ UNCHANGED <<active, cookies, csrf, requests, events>>

CountEvent == events < MaxEvents /\ events' = events + 1

\* lore-authctl user enable / user disable: no rule about administrators
AuthctlEnable(u) ==
    /\ CountEvent
    /\ u \notin active
    /\ StatusChange(active \cup {u}, requests)
    /\ UNCHANGED <<clock, cookies, csrf>>

AuthctlDisable(u) ==
    /\ CountEvent
    /\ u \in active
    /\ StatusChange(active \ {u}, requests)
    /\ UNCHANGED <<clock, cookies, csrf>>

\* The client is gone, a database call failed, or the server stopped.
Abort(q) ==
    /\ CountEvent
    /\ requests[q].pc # "idle"
    /\ requests' = [requests EXCEPT ![q] = IdleRequest]
    /\ UNCHANGED <<clock, active, cookies, csrf>>

Next ==
    \/ \E c \in Cookies, u \in Users : CreateBrowserSession(c, u)
    \/ \E q \in Requests, c \in Cookies : OpenPage(q, c) \/ OpenAdminPage(q, c)
    \/ \E q \in Requests, t \in CsrfTokens : CreateCsrfToken(q, t)
    \/ \E q \in Requests, c \in Cookies, t \in CsrfTokens :
          \/ \E kind \in {"logout", "mint", "write", "simulate"} : Post(q, kind, c, t, NoUser)
          \/ \E u \in Users : Post(q, "disable", c, t, u)
    \/ \E q \in Requests : RequestNext(q) \/ Abort(q)
    \/ \E u \in Users : AuthctlEnable(u) \/ AuthctlDisable(u)
    \/ Tick

Spec == Init /\ [][Next]_vars

-----------------------------------------------------------------------------
(* Properties *)

\* A CSRF token lets one request through, and only one of the session that it
\* was made for: of two requests that post the same form at the same time, or
\* from two sessions, at most one gets behind consume_csrf_token.
TokenSpentOnce ==
    \A q \in Requests :
        requests[q].pc \in {"revoke", "mint", "write", "target", "count", "commit"} =>
            /\ csrf[requests[q].token].status = "used"
            /\ csrf[requests[q].token].cookie = requests[q].cookie
            /\ \A p \in Requests \ {q} :
                  requests[p].token = requests[q].token => requests[p].pc \in {"admin", "csrf"}

\* A logout is final: whatever requests of the session were in flight, it is
\* never live again, and no request that current_browser_session has not
\* resolved by then goes on in its name.
LogoutIsFinal ==
    [][\A c \in Cookies :
         cookies[c].status = "revoked" =>
            /\ cookies'[c] = cookies[c]
            /\ \A q \in Requests :
                  requests'[q].cookie = c => requests[q].cookie = c]_vars

\* The rule of validate_admin_disable_target works as long as no account
\* changes between its count and the write: such a disable of the admin UI
\* never takes the last active administrator away, not even after others have
\* raced or lore-authctl has disabled somebody.
AdminLostOnlyByRace ==
    [][\A q \in Requests :
         /\ requests[q].pc = "commit" /\ requests'[q].pc = "page" /\ ~requests[q].stale
         /\ active \cap Admins # {}
         => active' \cap Admins # {}]_vars

\* users.rs: "cannot disable the last active admin user": a disable of the
\* admin UI leaves an active administrator.
LastAdminStays ==
    [][\A q \in Requests :
         requests[q].pc = "commit" /\ requests'[q].pc = "page" =>
            active' \cap Admins # {}]_vars

=============================================================================
