------------------------- MODULE AdminConsoleProofs -------------------------
(***************************************************************************)
(* Proofs about browser sessions, CSRF tokens and the admin UI, for any    *)
(* number of accounts, sessions, tokens and requests.                      *)
(***************************************************************************)
EXTENDS AdminConsole, TLAPS

Behind == {"revoke", "mint", "write", "target", "count", "commit"}

\* A request at work has its session; one that has shown a token still has it,
\* and one that renders a page has none.
HasToken(x) ==
    /\ x.pc # "idle" => x.cookie \in Cookies
    /\ x.pc \in {"idle", "page", "simulate"} => x.token = NoToken
    /\ x.pc = "admin" => IF x.kind = "page" THEN x.token = NoToken ELSE x.token \in CsrfTokens
    /\ x.pc = "csrf" => x.kind # "page" /\ x.token \in CsrfTokens
    /\ x.pc \in Behind => x.token \in CsrfTokens
    /\ x.pc \in {"admin", "csrf"} /\ x.kind = "disable" => x.target \in Users
    /\ x.pc \in {"target", "count", "commit"} => x.target \in Users

\* A count that is not out of date is right.
CountRight(x) ==
    x.pc = "commit" /\ ~x.stale => x.target \notin Admins \/ Remaining(x.target) # {}

IInv ==
    /\ TypeOK
    /\ \A q \in Requests : HasToken(requests[q])
    /\ TokenSpentOnce
    /\ \A q \in Requests : CountRight(requests[q])

\* Init establishes the invariant.
LEMMA InitInv == Init => IInv
<1> SUFFICES ASSUME Init PROVE IInv
  OBVIOUS
<1> USE AdminConsoleAssumption
<1>1. TypeOK
  BY DEF Init, TypeOK, CookieRow, CsrfRow, Request, IdleRequest, Kinds, AdminForms
<1>2. \A q \in Requests : requests[q] = IdleRequest
  BY DEF Init
<1>3. \A q \in Requests : HasToken(requests[q]) /\ CountRight(requests[q])
  BY <1>2 DEF HasToken, CountRight, IdleRequest, Behind
<1>4. TokenSpentOnce
  BY <1>2 DEF TokenSpentOnce, IdleRequest
<1> QED BY <1>1, <1>3, <1>4 DEF IInv

\* A page that is rendered for a session is a request.
LEMMA RenderPageType ==
  ASSUME TypeOK, NEW c \in Cookies
  PROVE  /\ RenderPage(c) \in Request
         /\ RenderPage(c).pc = "page" /\ RenderPage(c).cookie = c
         /\ RenderPage(c).token = NoToken /\ RenderPage(c).kind = "page"
  BY DEF TypeOK, CookieRow, RenderPage, IdleRequest, Request, Kinds, AdminForms

\* A request that goes on keeps everything but its pc.
LEMMA ToType ==
  ASSUME TypeOK, NEW q \in Requests,
         NEW pc \in {"idle", "page", "admin", "csrf", "revoke", "mint", "write", "target",
                     "count", "commit", "simulate"}
  PROVE  /\ To(q, pc) \in Request
         /\ To(q, pc).pc = pc /\ To(q, pc).cookie = requests[q].cookie
         /\ To(q, pc).token = requests[q].token /\ To(q, pc).kind = requests[q].kind
         /\ To(q, pc).target = requests[q].target /\ To(q, pc).stale = requests[q].stale
<1>1. requests[q] \in Request
  BY DEF TypeOK
<1> QED BY <1>1 DEF To, Request

\* IdleRequest is a request that holds nothing.
LEMMA IdleType ==
  /\ IdleRequest \in Request /\ HasToken(IdleRequest) /\ CountRight(IdleRequest)
  /\ IdleRequest.pc = "idle" /\ IdleRequest.token = NoToken /\ IdleRequest.cookie = NoCookie
  BY DEF IdleRequest, Request, Kinds, AdminForms, HasToken, CountRight, Behind

\* Rows of csrf_tokens: a used token stays what it is.
UsedStays == \A t \in CsrfTokens : csrf[t].status = "used" => csrf'[t] = csrf[t]

\* A request may become x if it shares its token with none that is behind the
\* consume.
LEMMA MayBecome ==
  ASSUME IInv, NEW q \in Requests, NEW x \in Request, HasToken(x), CountRight(x),
         requests' = [requests EXCEPT ![q] = x],
         UsedStays, csrf' \in [CsrfTokens -> CsrfRow],
         active' = active, clock' \in Nat, events' \in Nat,
         cookies' \in [Cookies -> CookieRow],
         x.pc \in Behind =>
            /\ csrf'[x.token].status = "used" /\ csrf'[x.token].cookie = x.cookie
            /\ \A p \in Requests \ {q} : requests[p].token = x.token =>
                                            requests[p].pc \in {"admin", "csrf"},
         x.token = NoToken \/ x.pc \in {"admin", "csrf"} \/ x.token = requests[q].token,
         x.pc \notin {"admin", "csrf"} /\ x.token # NoToken => requests[q].pc \in Behind \cup {"csrf"},
         requests[q].pc \in {"csrf"} /\ x.pc \in Behind => csrf[x.token].status # "used"
  PROVE  IInv'
<1> USE AdminConsoleAssumption
<1> USE DEF IInv
<1>1. /\ requests' \in [Requests -> Request] /\ requests'[q] = x
      /\ \A p \in Requests \ {q} : requests'[p] = requests[p]
  BY DEF TypeOK
<1>2. TypeOK'
  BY <1>1 DEF TypeOK
<1>3. \A p \in Requests : HasToken(requests'[p])
  BY <1>1
<1>4. \A p \in Requests : CountRight(requests[p])'
  BY <1>1 DEF CountRight, Remaining
<1>5. ASSUME NEW p \in Requests, requests'[p].pc \in Behind
      PROVE  /\ csrf'[requests'[p].token].status = "used"
             /\ csrf'[requests'[p].token].cookie = requests'[p].cookie
             /\ \A r \in Requests \ {p} :
                  requests'[r].token = requests'[p].token => requests'[r].pc \in {"admin", "csrf"}
  <2>1. CASE p = q
    BY <1>1, <1>5, <2>1
  <2>2. CASE p # q
    <3>1. requests'[p] = requests[p] /\ requests[p].pc \in Behind /\ requests[p].token \in CsrfTokens
      BY <1>1, <1>3, <1>5, <2>2 DEF HasToken
    <3>2. /\ csrf[requests[p].token].status = "used"
          /\ csrf[requests[p].token].cookie = requests[p].cookie
          /\ \A r \in Requests \ {p} :
               requests[r].token = requests[p].token => requests[r].pc \in {"admin", "csrf"}
      BY <3>1 DEF TokenSpentOnce, Behind
    <3>3. x.token = requests[p].token => x.pc \in {"admin", "csrf"}
      <4> SUFFICES ASSUME x.token = requests[p].token, x.pc \notin {"admin", "csrf"} PROVE FALSE
        OBVIOUS
      <4>1. x.token # NoToken /\ x.token = requests[q].token
        BY <3>1
      <4>2. requests[q].pc = "csrf"
        BY <2>2, <3>2, <4>1 DEF Behind
      <4>3. x.pc \in Behind
        BY <4>1 DEF Request, HasToken, Behind
      <4> QED BY <3>2, <4>2, <4>3
    <3> QED BY <1>1, <3>1, <3>2, <3>3 DEF UsedStays
  <2> QED BY <2>1, <2>2
<1>6. TokenSpentOnce'
  BY <1>5 DEF TokenSpentOnce, Behind
<1>8. \A p \in Requests : HasToken(requests[p])'
  BY <1>3 DEF HasToken
<1> QED BY <1>2, <1>4, <1>6, <1>8

\* When an account changes, requests keep their tokens, and no count in flight
\* is called up to date.
LEMMA StatusChanged ==
  ASSUME IInv, NEW users \in SUBSET Users, NEW rest \in [Requests -> Request],
         \A p \in Requests :
            \/ rest[p] = requests[p]
            \/ rest[p].pc = "page" /\ rest[p].token = NoToken /\ rest[p].cookie \in Cookies,
         StatusChange(users, rest), csrf' = csrf, cookies' = cookies, clock' = clock,
         events' \in Nat
  PROVE  /\ TypeOK' /\ TokenSpentOnce'
         /\ \A p \in Requests : HasToken(requests[p])' /\ CountRight(requests[p])'
<1> USE AdminConsoleAssumption
<1> USE DEF IInv
<1> DEFINE s(p) == [rest[p] EXCEPT !.stale = TRUE]
<1>1. ASSUME NEW p \in Requests
      PROVE  /\ s(p) \in Request /\ s(p).pc = rest[p].pc /\ s(p).stale = TRUE
             /\ s(p).token = rest[p].token /\ s(p).cookie = rest[p].cookie
             /\ s(p).kind = rest[p].kind /\ s(p).target = rest[p].target
  <2>1. rest[p] \in Request
    OBVIOUS
  <2> QED BY <2>1 DEF Request
<1>2. active' = users /\ requests' = [p \in Requests |-> IF rest[p].pc = "commit" THEN s(p) ELSE rest[p]]
  BY DEF StatusChange
<1> HIDE DEF s
<1>3. requests' \in [Requests -> Request]
  BY <1>1, <1>2
<1>4. \A p \in Requests :
         /\ requests'[p].pc = rest[p].pc
         /\ requests'[p].token = rest[p].token /\ requests'[p].cookie = rest[p].cookie
         /\ requests'[p].kind = rest[p].kind /\ requests'[p].target = rest[p].target
         /\ requests'[p].pc = "commit" => requests'[p].stale = TRUE
  BY <1>1, <1>2
<1>5. TypeOK'
  BY <1>2, <1>3 DEF TypeOK
<1>6. \A p \in Requests : HasToken(requests[p])'
  BY <1>4 DEF HasToken, Behind
<1>7. \A p \in Requests : CountRight(requests[p])'
  BY <1>4 DEF CountRight
<1>8. ASSUME NEW p \in Requests, requests'[p].pc \in Behind
      PROVE  /\ csrf'[requests'[p].token].status = "used"
             /\ csrf'[requests'[p].token].cookie = requests'[p].cookie
             /\ \A r \in Requests \ {p} :
                  requests'[r].token = requests'[p].token => requests'[r].pc \in {"admin", "csrf"}
  <2>1. rest[p] = requests[p] /\ requests[p].pc \in Behind
    BY <1>4, <1>8 DEF Behind
  <2>2. requests[p].token \in CsrfTokens
    BY <2>1 DEF HasToken
  <2>3. /\ csrf[requests[p].token].status = "used"
        /\ csrf[requests[p].token].cookie = requests[p].cookie
        /\ \A r \in Requests \ {p} :
             requests[r].token = requests[p].token => requests[r].pc \in {"admin", "csrf"}
    BY <2>1 DEF TokenSpentOnce, Behind
  <2> QED BY <1>4, <2>1, <2>2, <2>3
<1>9. TokenSpentOnce'
  BY <1>8 DEF TokenSpentOnce, Behind
<1> QED BY <1>5, <1>6, <1>7, <1>9

\* Every action keeps the invariant.
LEMMA NextInv == IInv /\ [Next]_vars => IInv'
<1> SUFFICES ASSUME IInv, [Next]_vars PROVE IInv'
  OBVIOUS
<1> USE AdminConsoleAssumption
<1>t. TypeOK
  BY DEF IInv
<1>h. \A q \in Requests : requests[q] \in Request /\ HasToken(requests[q])
  BY <1>t DEF IInv, TypeOK
<1>1. ASSUME UNCHANGED <<active, csrf, requests>>, clock' \in Nat, events' \in Nat,
             cookies' \in [Cookies -> CookieRow]
      PROVE IInv'
  <2>1. TypeOK' /\ TokenSpentOnce'
    BY <1>1 DEF IInv, TypeOK, TokenSpentOnce
  <2>2. \A q \in Requests : HasToken(requests[q])' /\ CountRight(requests[q])'
    BY <1>1 DEF IInv, HasToken, CountRight, Remaining
  <2> QED BY <2>1, <2>2 DEF IInv
\* A request becomes one without a token, or one that has not consumed its token.
<1>2. ASSUME NEW q \in Requests, NEW x \in Request, HasToken(x),
             x.pc \in {"idle", "page", "admin", "csrf", "simulate"},
             requests' = [requests EXCEPT ![q] = x], UNCHANGED <<active>>,
             UsedStays, csrf' \in [CsrfTokens -> CsrfRow], clock' \in Nat, events' \in Nat,
             cookies' \in [Cookies -> CookieRow]
      PROVE IInv'
  <2>1. CountRight(x) /\ x.pc \notin Behind
    BY <1>2 DEF CountRight, Behind
  <2>2. x.token = NoToken \/ x.pc \in {"admin", "csrf"}
    BY <1>2 DEF HasToken
  <2> QED BY <1>2, <2>1, <2>2, MayBecome
<1>3. ASSUME csrf' = csrf PROVE UsedStays /\ csrf' \in [CsrfTokens -> CsrfRow]
  BY <1>3, <1>t DEF UsedStays, TypeOK
<1>4. ASSUME NEW c \in Cookies, NEW u \in Users, CreateBrowserSession(c, u) PROVE IInv'
  BY <1>1, <1>4, <1>t DEF CreateBrowserSession, TypeOK, CookieRow
<1>5. ASSUME NEW c \in Cookies
      PROVE RenderPage(c) \in Request /\ HasToken(RenderPage(c)) /\ RenderPage(c).pc = "page"
  BY <1>t, RenderPageType DEF HasToken, Behind
<1>6. ASSUME NEW q \in Requests, NEW c \in Cookies, OpenPage(q, c) PROVE IInv'
  BY <1>2, <1>3, <1>5, <1>6, <1>t DEF OpenPage, TypeOK
<1>7. ASSUME NEW q \in Requests, NEW c \in Cookies, OpenAdminPage(q, c) PROVE IInv'
  <2> DEFINE x == [RenderPage(c) EXCEPT !.pc = "admin"]
  <2>1. x \in Request /\ x.pc = "admin" /\ x.kind = "page" /\ x.token = NoToken /\ x.cookie = c
    BY <1>t, RenderPageType DEF Request
  <2>2. requests' = [requests EXCEPT ![q] = x] /\ UNCHANGED <<clock, active, cookies, csrf, events>>
    BY <1>7 DEF OpenAdminPage
  <2> HIDE DEF x
  <2>3. HasToken(x)
    BY <2>1 DEF HasToken, Behind
  <2> QED BY <1>2, <1>3, <1>t, <2>1, <2>2, <2>3 DEF TypeOK
<1>8. ASSUME NEW q \in Requests, NEW t \in CsrfTokens, CreateCsrfToken(q, t) PROVE IInv'
  <2> DEFINE x == IF requests[q].kind = "simulate" THEN To(q, "simulate") ELSE IdleRequest
             row == [status |-> "fresh", cookie |-> requests[q].cookie, expires |-> clock + CsrfTtl]
  <2>1. /\ csrf[t].status = "absent" /\ requests[q].pc = "page"
        /\ requests' = [requests EXCEPT ![q] = x]
        /\ csrf' = [csrf EXCEPT ![t] = row]
        /\ UNCHANGED <<clock, active, cookies, events>>
    BY <1>8 DEF CreateCsrfToken, RequestStep
  <2>2. requests[q].cookie \in Cookies /\ requests[q].token = NoToken
    BY <1>h, <2>1 DEF HasToken
  <2>3. row \in CsrfRow
    BY <1>t, <2>2 DEF TypeOK, CsrfRow
  <2>4. UsedStays /\ csrf' \in [CsrfTokens -> CsrfRow]
    BY <1>t, <2>1, <2>3 DEF TypeOK, UsedStays
  <2>5. To(q, "simulate") \in Request /\ HasToken(To(q, "simulate")) /\ To(q, "simulate").pc = "simulate"
    BY <1>t, <2>2, ToType DEF HasToken, Behind
  <2>6. x \in Request /\ HasToken(x) /\ x.pc \in {"idle", "simulate"}
    BY <2>5, IdleType
  <2> HIDE DEF x
  <2> QED BY <1>2, <1>t, <2>1, <2>4, <2>6 DEF TypeOK
<1>9. ASSUME NEW q \in Requests, NEW kind \in {"logout", "mint", "write", "simulate", "disable"},
             NEW c \in Cookies, NEW t \in CsrfTokens, NEW u \in Users \cup {NoUser},
             Post(q, kind, c, t, u)
      PROVE IInv'
  <2> DEFINE x == [pc |-> IF kind \in AdminForms THEN "admin" ELSE "csrf",
                   cookie |-> c, user |-> cookies[c].user, token |-> t,
                   kind |-> kind, target |-> u, stale |-> FALSE]
  <2>1. x \in Request
    BY <1>t DEF TypeOK, CookieRow, Request, Kinds, AdminForms
  <2>2. HasToken(x) /\ x.pc \in {"admin", "csrf"}
    BY <1>9 DEF Post, HasToken, Behind
  <2>3. requests' = [requests EXCEPT ![q] = x] /\ UNCHANGED <<clock, active, cookies, csrf, events>>
    BY <1>9 DEF Post
  <2> HIDE DEF x
  <2> QED BY <1>2, <1>3, <1>t, <2>1, <2>2, <2>3 DEF TypeOK
<1>10. ASSUME NEW q \in Requests, RequireAdmin(q) PROVE IInv'
  <2> DEFINE pc == IF requests[q].kind = "page" THEN "page" ELSE "csrf"
             x == IF IsAdmin(requests[q].cookie) THEN To(q, pc) ELSE IdleRequest
  <2>1. /\ requests[q].pc = "admin" /\ requests' = [requests EXCEPT ![q] = x]
        /\ UNCHANGED <<clock, active, cookies, csrf, events>>
    BY <1>10 DEF RequireAdmin, RequestStep
  <2>2. To(q, pc) \in Request /\ HasToken(To(q, pc)) /\ To(q, pc).pc = pc
    BY <1>h, <1>t, <2>1, ToType DEF HasToken, Behind
  <2>3. x \in Request /\ HasToken(x) /\ x.pc \in {"idle", "page", "csrf"}
    BY <2>2, IdleType
  <2> HIDE DEF x
  <2> QED BY <1>2, <1>3, <1>t, <2>1, <2>3 DEF TypeOK
<1>11. ASSUME NEW q \in Requests, NEW x, x = IdleRequest \/ x = RenderPage(requests[q].cookie),
              requests[q].pc # "idle", requests' = [requests EXCEPT ![q] = x],
              cookies' \in [Cookies -> CookieRow], UNCHANGED <<clock, active, csrf>>,
              events' \in Nat
       PROVE IInv'
  <2>1. requests[q].cookie \in Cookies
    BY <1>h, <1>11 DEF HasToken
  <2>2. x \in Request /\ HasToken(x) /\ x.pc \in {"idle", "page"}
    BY <1>5, <1>11, <2>1, IdleType
  <2> QED BY <1>2, <1>3, <1>11, <1>t, <2>2 DEF TypeOK
<1>12. ASSUME NEW q \in Requests, Revoke(q) PROVE IInv'
  <2>1. requests[q].cookie \in Cookies
    BY <1>h, <1>12 DEF HasToken, Revoke, RequestStep
  <2>2. cookies' \in [Cookies -> CookieRow]
    BY <1>t, <1>12, <2>1 DEF Revoke, TypeOK, CookieRow
  <2> QED BY <1>11, <1>12, <1>t, <2>2 DEF Revoke, RequestStep, TypeOK
<1>13. ASSUME NEW q \in Requests, Mint(q) \/ Write(q) \/ Simulate(q) \/ Abort(q) PROVE IInv'
  BY <1>11, <1>13, <1>t DEF Mint, Write, Simulate, Abort, CountEvent, RequestStep, TypeOK
<1>14. ASSUME NEW q \in Requests, ConsumeCsrfToken(q) PROVE IInv'
  <2> DEFINE t == requests[q].token
             c == requests[q].cookie
             ok == Spendable(t, c)
             y == CASE requests[q].kind = "logout"   -> To(q, "revoke")
                    [] requests[q].kind = "mint"     -> To(q, "mint")
                    [] requests[q].kind = "write"    -> To(q, "write")
                    [] requests[q].kind = "disable"  -> To(q, "target")
                    [] requests[q].kind = "simulate" -> [RenderPage(c) EXCEPT !.kind = "simulate"]
  <2>1. /\ requests[q].pc = "csrf" /\ requests' = [requests EXCEPT ![q] = IF ok THEN y ELSE IdleRequest]
        /\ csrf' = IF ok THEN [csrf EXCEPT ![t].status = "used"] ELSE csrf
        /\ UNCHANGED <<clock, active, cookies, events>>
    BY <1>14 DEF ConsumeCsrfToken, RequestStep
  <2>2. CASE ~ok
    <3> HIDE DEF ok, y
    <3> QED BY <1>11, <1>t, <2>1, <2>2 DEF TypeOK
  <2>3. CASE ok
    <3>1. t \in CsrfTokens /\ c \in Cookies /\ requests[q].kind # "page"
      BY <1>h, <2>1 DEF HasToken
    <3>2. /\ csrf[t] \in CsrfRow /\ csrf[t].status = "fresh" /\ csrf[t].cookie = c
      BY <1>t, <2>3, <3>1 DEF Spendable, TypeOK
    <3>3. /\ csrf' \in [CsrfTokens -> CsrfRow] /\ csrf'[t].status = "used" /\ csrf'[t].cookie = c
          /\ UsedStays
      BY <1>t, <2>1, <2>3, <3>1, <3>2 DEF TypeOK, CsrfRow, UsedStays
    <3>4. requests' = [requests EXCEPT ![q] = y]
      BY <2>1, <2>3
    <3>5. clock' \in Nat /\ events' \in Nat /\ cookies' \in [Cookies -> CookieRow]
          /\ active' = active
      BY <1>t, <2>1 DEF TypeOK
    <3>6. requests[q].kind \in {"logout", "mint", "write", "disable", "simulate"}
      BY <1>h, <3>1 DEF Request, Kinds, AdminForms
    <3>7. CASE requests[q].kind = "simulate"
      <4>1. y = [RenderPage(c) EXCEPT !.kind = "simulate"]
        BY <3>7
      <4> HIDE DEF y
      <4>0. /\ RenderPage(c) \in Request /\ RenderPage(c).pc = "page"
            /\ RenderPage(c).cookie = c /\ RenderPage(c).token = NoToken
        BY <1>t, <3>1, RenderPageType
      <4> HIDE DEF c
      <4>2. y \in Request /\ y.pc = "page" /\ y.cookie = c /\ y.token = NoToken
        BY <4>0, <4>1 DEF Request, Kinds, AdminForms
      <4>3. HasToken(y)
        BY <3>1, <4>2 DEF HasToken, Behind
      <4> QED BY <1>2, <3>3, <3>4, <3>5, <4>2, <4>3
    <3>8. CASE requests[q].kind # "simulate"
      <4>1. PICK pc \in {"revoke", "mint", "write", "target"} :
               y = To(q, pc) /\ (pc = "target" => requests[q].kind = "disable")
        BY <3>6, <3>8
      <4> HIDE DEF y
      <4>2. /\ y \in Request /\ y.pc = pc /\ y.cookie = c /\ y.token = t
            /\ y.target = requests[q].target
        BY <1>t, <4>1, ToType
      <4>a. pc = "target" => requests[q].target \in Users
        BY <1>h, <2>1, <4>1 DEF HasToken
      <4>3. HasToken(y) /\ CountRight(y) /\ y.pc \in Behind
        BY <3>1, <4>2, <4>a DEF HasToken, CountRight, Behind
      <4>4. ASSUME NEW p \in Requests \ {q}, requests[p].token = t
            PROVE  requests[p].pc \in {"admin", "csrf"}
        <5>1. requests[p].pc \notin Behind
          BY <3>2, <4>4 DEF IInv, TokenSpentOnce, Behind
        <5>2. requests[p].pc \notin {"idle", "page", "simulate"}
          BY <1>h, <3>1, <4>4 DEF HasToken
        <5> QED BY <1>h, <5>1, <5>2 DEF Request, Behind
      <4>5. y.token = requests[q].token /\ requests[q].pc = "csrf" /\ csrf[y.token].status # "used"
        BY <2>1, <3>2, <4>2
      <4>6. csrf'[y.token].status = "used" /\ csrf'[y.token].cookie = y.cookie
        BY <3>3, <4>2
      <4>7. \A p \in Requests \ {q} : requests[p].token = y.token =>
                                          requests[p].pc \in {"admin", "csrf"}
        BY <4>2, <4>4
      <4> QED BY <3>3, <3>4, <3>5, <4>2, <4>3, <4>5, <4>6, <4>7, MayBecome
    <3> QED BY <3>7, <3>8
  <2> QED BY <2>2, <2>3
<1>15. ASSUME NEW q \in Requests, NEW pc \in {"count", "commit"}, requests[q].pc \in {"target", "count"},
              pc = "commit" => requests[q].target \notin Admins \/ Remaining(requests[q].target) # {},
              requests' = [requests EXCEPT ![q] = To(q, pc)],
              UNCHANGED <<clock, active, cookies, csrf, events>>
       PROVE IInv'
  <2> DEFINE y == To(q, pc)
  <2>1. /\ y \in Request /\ y.pc = pc /\ y.cookie = requests[q].cookie
        /\ y.token = requests[q].token /\ y.target = requests[q].target
    BY <1>t, ToType
  <2> HIDE DEF y
  <2>a. /\ requests[q].cookie \in Cookies /\ requests[q].token \in CsrfTokens
        /\ requests[q].target \in Users
    BY <1>h, <1>15 DEF HasToken, Behind
  <2>2. HasToken(y) /\ y.pc \in Behind /\ requests[q].pc \in Behind
    BY <1>15, <2>1, <2>a DEF HasToken, Behind
  <2>3. CountRight(y)
    BY <1>15, <2>1 DEF CountRight
  <2>4. /\ csrf[y.token].status = "used" /\ csrf[y.token].cookie = y.cookie
        /\ \A p \in Requests \ {q} : requests[p].token = y.token =>
                                        requests[p].pc \in {"admin", "csrf"}
    BY <2>1, <2>2 DEF IInv, TokenSpentOnce, Behind
  <2>5. /\ csrf' = csrf /\ clock' \in Nat /\ events' \in Nat /\ cookies' \in [Cookies -> CookieRow]
        /\ active' = active /\ requests' = [requests EXCEPT ![q] = y]
    BY <1>15, <1>t DEF TypeOK, y
  <2>6. requests[q].pc # "csrf"
    BY <1>15
  <2> QED BY <1>3, <2>1, <2>2, <2>3, <2>4, <2>5, <2>6, MayBecome
<1>16. ASSUME NEW q \in Requests, FindTarget(q) PROVE IInv'
  <2> DEFINE u == requests[q].target
  <2>1. CASE u # requests[q].user
    BY <1>15, <1>16, <2>1 DEF FindTarget, RequestStep
  <2>2. CASE u = requests[q].user
    BY <1>11, <1>16, <1>t, <2>2 DEF FindTarget, RequestStep, TypeOK
  <2> QED BY <2>1, <2>2
<1>17. ASSUME NEW q \in Requests, CountAdmins(q) PROVE IInv'
  <2>1. CASE Remaining(requests[q].target) # {}
    BY <1>15, <1>17, <2>1 DEF CountAdmins, RequestStep
  <2>2. CASE Remaining(requests[q].target) = {}
    BY <1>11, <1>17, <1>t, <2>2 DEF CountAdmins, RequestStep, TypeOK
  <2> QED BY <2>1, <2>2
<1>18. ASSUME NEW q \in Requests, DisableTarget(q) PROVE IInv'
  <2> DEFINE u == requests[q].target
             rest == [requests EXCEPT ![q] = RenderPage(requests[q].cookie)]
  <2>1. /\ requests[q].pc = "commit" /\ StatusChange(active \ {u}, rest)
        /\ UNCHANGED <<clock, cookies, csrf, events>>
    BY <1>18 DEF DisableTarget
  <2>2. requests[q].cookie \in Cookies
    BY <1>h, <2>1 DEF HasToken
  <2>r. /\ RenderPage(requests[q].cookie) \in Request
        /\ RenderPage(requests[q].cookie).pc = "page"
        /\ RenderPage(requests[q].cookie).token = NoToken
        /\ RenderPage(requests[q].cookie).cookie \in Cookies
    BY <1>t, <2>2, RenderPageType
  <2>3. rest \in [Requests -> Request] /\ \A p \in Requests :
            \/ rest[p] = requests[p]
            \/ rest[p].pc = "page" /\ rest[p].token = NoToken /\ rest[p].cookie \in Cookies
    BY <1>t, <2>r DEF TypeOK
  <2>4. events' \in Nat /\ active \ {u} \in SUBSET Users
    BY <1>t, <2>1 DEF TypeOK
  <2> HIDE DEF rest
  <2>5. /\ TypeOK' /\ TokenSpentOnce'
        /\ \A p \in Requests : HasToken(requests[p])' /\ CountRight(requests[p])'
    BY <2>1, <2>3, <2>4, StatusChanged
  <2> QED BY <2>5 DEF IInv
<1>19. ASSUME NEW users \in SUBSET Users, StatusChange(users, requests),
              UNCHANGED <<clock, cookies, csrf>>, events' \in Nat
       PROVE IInv'
  <2>1. requests \in [Requests -> Request]
    BY <1>t DEF TypeOK
  <2>2. /\ TypeOK' /\ TokenSpentOnce'
        /\ \A p \in Requests : HasToken(requests[p])' /\ CountRight(requests[p])'
    BY <1>19, <2>1, StatusChanged
  <2> QED BY <1>19, <2>2 DEF IInv
<1>20. ASSUME NEW u \in Users, AuthctlEnable(u) PROVE IInv'
  <2>1. active \cup {u} \in SUBSET Users /\ events' \in Nat
    BY <1>20, <1>t DEF AuthctlEnable, CountEvent, TypeOK
  <2> QED BY <1>19, <1>20, <2>1 DEF AuthctlEnable
<1>21. ASSUME NEW u \in Users, AuthctlDisable(u) PROVE IInv'
  <2>1. active \ {u} \in SUBSET Users /\ events' \in Nat
    BY <1>21, <1>t DEF AuthctlDisable, CountEvent, TypeOK
  <2> QED BY <1>19, <1>21, <2>1 DEF AuthctlDisable
<1>22. ASSUME Tick \/ UNCHANGED vars PROVE IInv'
  BY <1>1, <1>22, <1>t DEF Tick, vars, TypeOK
<1>23. ASSUME NEW q \in Requests, RequestNext(q) PROVE IInv'
  BY <1>10, <1>12, <1>13, <1>14, <1>16, <1>17, <1>18, <1>23 DEF RequestNext
<1>24. ASSUME NEW q \in Requests, NEW c \in Cookies, NEW t \in CsrfTokens,
              \/ \E kind \in {"logout", "mint", "write", "simulate"} : Post(q, kind, c, t, NoUser)
              \/ \E u \in Users : Post(q, "disable", c, t, u)
       PROVE IInv'
  BY <1>9, <1>24
<1> QED
  BY <1>4, <1>6, <1>7, <1>8, <1>13, <1>20, <1>21, <1>22, <1>23, <1>24 DEF Next

\* The invariant holds throughout.
LEMMA Inductive == Spec => []IInv
  BY InitInv, NextInv, PTL DEF Spec

\* The type invariant holds.
THEOREM TypeCorrect == Spec => []TypeOK
<1>1. IInv => TypeOK
  BY DEF IInv
<1> QED BY <1>1, Inductive, PTL

\* A CSRF token lets one request of its own session through (consume_csrf_token),
\* however many requests post it at the same time.
THEOREM CsrfSpentOnce == Spec => []TokenSpentOnce
<1>1. IInv => TokenSpentOnce
  BY DEF IInv
<1> QED BY <1>1, Inductive, PTL

\* A disable whose count is not out of date leaves an administrator active.
LEMMA DisableStep ==
  ASSUME IInv, [Next]_vars, NEW q \in Requests, requests[q].pc = "commit",
         requests'[q].pc = "page", ~requests[q].stale, active \cap Admins # {}
  PROVE  active' \cap Admins # {}
<1>t. requests \in [Requests -> Request]
  BY DEF IInv, TypeOK
<1>1. ASSUME active' = active PROVE active' \cap Admins # {}
  BY <1>1
<1>2. ASSUME NEW users, NEW rest \in [Requests -> Request], StatusChange(users, rest)
      PROVE requests'[q].pc = rest[q].pc
  <2>1. rest[q] \in Request
    OBVIOUS
  <2>2. requests'[q] = rest[q] \/ requests'[q] = [rest[q] EXCEPT !.stale = TRUE]
    BY <1>2 DEF StatusChange
  <2> QED BY <2>1, <2>2 DEF Request
<1>3. ASSUME NEW r \in Requests, DisableTarget(r) PROVE active' \cap Admins # {}
  <2> DEFINE rest == [requests EXCEPT ![r] = RenderPage(requests[r].cookie)]
  <2>1. StatusChange(active \ {requests[r].target}, rest)
    BY <1>3 DEF DisableTarget
  <2>2. active' = active \ {requests[r].target}
    BY <2>1 DEF StatusChange
  <2>3. r = q
    <3> SUFFICES ASSUME r # q PROVE FALSE
      OBVIOUS
    <3>1. requests[r].cookie \in Cookies
      BY <1>3 DEF DisableTarget, IInv, HasToken
    <3>2. rest \in [Requests -> Request] /\ rest[q] = requests[q]
      BY <1>t, <3>1, RenderPageType DEF IInv
    <3> HIDE DEF rest
    <3>3. requests'[q].pc = "commit"
      BY <1>2, <2>1, <3>2
    <3> QED BY <3>3
  <2>4. requests[q].target \notin Admins \/ (active \cap Admins) \ {requests[q].target} # {}
    BY DEF IInv, CountRight, Remaining
  <2> QED BY <2>2, <2>3, <2>4
<1>4. ASSUME NEW u \in Users, AuthctlEnable(u) \/ AuthctlDisable(u) PROVE FALSE
  <2>1. \E users : StatusChange(users, requests)
    BY <1>4 DEF AuthctlEnable, AuthctlDisable
  <2>2. requests'[q].pc = "commit"
    BY <1>2, <1>t, <2>1
  <2> QED BY <2>2
<1>5. ASSUME NEW r \in Requests, RequestNext(r) \/ Abort(r), ~DisableTarget(r)
      PROVE active' = active
  BY <1>5
  DEF RequestNext, RequireAdmin, ConsumeCsrfToken, Revoke, Mint, Write, Simulate, FindTarget,
      CountAdmins, Abort
<1>6. ASSUME NEW r, NEW kind, NEW d, NEW t, NEW u, Post(r, kind, d, t, u) PROVE active' = active
  BY <1>6 DEF Post
<1>7. ASSUME NEW r, NEW d, NEW t, NEW u,
             \/ OpenPage(r, d) \/ OpenAdminPage(r, d) \/ CreateCsrfToken(r, t)
             \/ CreateBrowserSession(d, u) \/ Tick \/ UNCHANGED vars
      PROVE active' = active
  BY <1>7 DEF OpenPage, OpenAdminPage, CreateCsrfToken, CreateBrowserSession, Tick, vars
<1> QED
  BY <1>1, <1>3, <1>4, <1>5, <1>6, <1>7 DEF Next

\* A disable of the admin UI takes the last active administrator away only on a
\* count that was out of date at the commit (validate_admin_disable_target).
THEOREM AdminsLostOnlyByRace == Spec => AdminLostOnlyByRace
<1>1. IInv /\ [Next]_vars =>
        [\A q \in Requests :
           /\ requests[q].pc = "commit" /\ requests'[q].pc = "page" /\ ~requests[q].stale
           /\ active \cap Admins # {}
           => active' \cap Admins # {}]_vars
  BY DisableStep
<1> QED BY <1>1, Inductive, PTL DEF Spec, AdminLostOnlyByRace

\* A revoked session stays revoked, and nothing new goes on in its name.
LEMMA LogoutStep ==
  ASSUME IInv, [Next]_vars, NEW c \in Cookies, cookies[c].status = "revoked"
  PROVE  /\ cookies'[c] = cookies[c]
         /\ \A q \in Requests : requests'[q].cookie = c => requests[q].cookie = c
<1> USE AdminConsoleAssumption
<1>t. TypeOK
  BY DEF IInv
<1>1. cookies'[c] = cookies[c]
  <2>1. cookies[c] \in CookieRow
    BY <1>t DEF TypeOK
  <2>2. ASSUME NEW d \in Cookies, NEW u \in Users, CreateBrowserSession(d, u)
        PROVE cookies'[c] = cookies[c]
    BY <1>t, <2>2 DEF CreateBrowserSession, TypeOK
  <2>3. ASSUME NEW q \in Requests, Revoke(q) PROVE cookies'[c] = cookies[c]
    <3>1. CASE requests[q].cookie # c
      BY <1>t, <2>3, <3>1 DEF Revoke, TypeOK
    <3>2. CASE requests[q].cookie = c
      <4>1. cookies'[c] = [cookies[c] EXCEPT !.status = "revoked"]
        BY <1>t, <2>3, <3>2 DEF Revoke, TypeOK
      <4> QED BY <2>1, <4>1 DEF CookieRow
    <3> QED BY <3>1, <3>2
  <2>4. ASSUME NEW q \in Requests, RequestNext(q) \/ Abort(q), ~Revoke(q) PROVE cookies' = cookies
    BY <2>4
    DEF RequestNext, RequireAdmin, ConsumeCsrfToken, Mint, Write, Simulate, FindTarget,
        CountAdmins, DisableTarget, Abort
  <2>5. ASSUME NEW q \in Requests, NEW d \in Cookies, OpenPage(q, d) \/ OpenAdminPage(q, d)
        PROVE cookies' = cookies
    BY <2>5 DEF OpenPage, OpenAdminPage
  <2>6. ASSUME NEW q \in Requests, NEW t \in CsrfTokens, CreateCsrfToken(q, t)
        PROVE cookies' = cookies
    BY <2>6 DEF CreateCsrfToken
  <2>7. ASSUME NEW q, NEW kind, NEW d, NEW t, NEW u, Post(q, kind, d, t, u)
        PROVE cookies' = cookies
    BY <2>7 DEF Post
  <2>8. ASSUME Tick \/ UNCHANGED vars \/ \E u \in Users : AuthctlEnable(u) \/ AuthctlDisable(u)
        PROVE cookies' = cookies
    BY <2>8 DEF Tick, vars, AuthctlEnable, AuthctlDisable
  <2> QED BY <2>2, <2>3, <2>4, <2>5, <2>6, <2>7, <2>8 DEF Next
<1>2. ASSUME NEW q \in Requests, requests'[q].cookie = c PROVE requests[q].cookie = c
  <2>1. ~Resolves(c)
    BY DEF Resolves
  <2>2. ASSUME NEW r \in Requests, NEW x, requests' = [requests EXCEPT ![r] = x],
               x.cookie = requests[r].cookie \/ x.cookie # c
        PROVE requests[q].cookie = c
    BY <1>2, <1>t, <2>2 DEF TypeOK
  <2>3. IdleRequest.cookie # c
    BY DEF IdleRequest
  <2>4. \A d : RenderPage(d).cookie = d
    BY DEF RenderPage, IdleRequest
  <2>5. ASSUME NEW r \in Requests, NEW pc PROVE To(r, pc).cookie = requests[r].cookie
    <3>1. requests[r] \in Request
      BY <1>t DEF TypeOK
    <3> QED BY <3>1 DEF To, Request
  <2>6. ASSUME NEW r \in Requests, NEW from, NEW ok, NEW x, NEW y, RequestStep(r, from, ok, x, y),
               ok => x.cookie = requests[r].cookie \/ x.cookie # c,
               y.cookie = requests[r].cookie \/ y.cookie # c
        PROVE requests[q].cookie = c
    BY <2>2, <2>6 DEF RequestStep
  <2>7. ASSUME NEW users, NEW rest \in [Requests -> Request], StatusChange(users, rest),
               \A r \in Requests : rest[r].cookie = requests[r].cookie
        PROVE requests[q].cookie = c
    <3>1. rest[q] \in Request
      OBVIOUS
    <3>2. requests'[q] = rest[q] \/ requests'[q] = [rest[q] EXCEPT !.stale = TRUE]
      BY <2>7 DEF StatusChange
    <3>3. requests'[q].cookie = rest[q].cookie
      BY <3>1, <3>2 DEF Request
    <3> QED BY <1>2, <2>7, <3>3
  <2>8. \A r \in Requests : requests[r] \in Request
    BY <1>t DEF TypeOK
  <2>9. ASSUME NEW r \in Requests, NEW d \in Cookies, OpenPage(r, d) \/ OpenAdminPage(r, d)
        PROVE requests[q].cookie = c
    <3>1. d # c
      BY <2>1, <2>9 DEF OpenPage, OpenAdminPage, IsAdmin
    <3>2. [RenderPage(d) EXCEPT !.pc = "admin"].cookie = d
      BY DEF RenderPage, IdleRequest
    <3>3. CASE OpenPage(r, d)
      <4>1. requests' = [requests EXCEPT ![r] = RenderPage(d)]
        BY <3>3 DEF OpenPage
      <4> QED BY <2>2, <2>4, <3>1, <4>1
    <3>4. CASE OpenAdminPage(r, d)
      <4>1. requests' = [requests EXCEPT ![r] = [RenderPage(d) EXCEPT !.pc = "admin"]]
        BY <3>4 DEF OpenAdminPage
      <4> QED BY <2>2, <3>1, <3>2, <4>1
    <3> QED BY <2>9, <3>3, <3>4
  <2>10. ASSUME NEW r \in Requests, NEW kind, NEW d \in Cookies, NEW t, NEW u, Post(r, kind, d, t, u)
         PROVE requests[q].cookie = c
    <3> DEFINE x == [pc |-> IF kind \in AdminForms THEN "admin" ELSE "csrf",
                     cookie |-> d, user |-> cookies[d].user, token |-> t,
                     kind |-> kind, target |-> u, stale |-> FALSE]
    <3>1. d # c
      BY <2>1, <2>10 DEF Post, IsAdmin
    <3>2. requests' = [requests EXCEPT ![r] = x]
      BY <2>10 DEF Post
    <3>3. x.cookie # c
      BY <3>1
    <3> HIDE DEF x
    <3> QED BY <2>2, <3>2, <3>3
  <2>11. ASSUME NEW r \in Requests, NEW t \in CsrfTokens, CreateCsrfToken(r, t)
         PROVE requests[q].cookie = c
    BY <2>3, <2>5, <2>6, <2>11 DEF CreateCsrfToken
  <2>12. ASSUME NEW r \in Requests, RequireAdmin(r) PROVE requests[q].cookie = c
    BY <2>3, <2>5, <2>6, <2>12 DEF RequireAdmin
  <2>13. ASSUME NEW r \in Requests, ConsumeCsrfToken(r) PROVE requests[q].cookie = c
    <3> DEFINE d == requests[r].cookie
               page == [RenderPage(d) EXCEPT !.kind = "simulate"]
               next == CASE requests[r].kind = "logout"   -> To(r, "revoke")
                         [] requests[r].kind = "mint"     -> To(r, "mint")
                         [] requests[r].kind = "write"    -> To(r, "write")
                         [] requests[r].kind = "disable"  -> To(r, "target")
                         [] requests[r].kind = "simulate" -> page
    <3>1. requests[r].kind \in {"logout", "mint", "write", "disable", "simulate"}
      <4>1. requests[r].pc = "csrf"
        BY <2>13 DEF ConsumeCsrfToken, RequestStep
      <4> QED BY <2>8, <4>1 DEF IInv, HasToken, Request, Kinds, AdminForms
    <3>2. page.cookie = d
      BY DEF RenderPage, IdleRequest
    <3>3. RequestStep(r, "csrf", Spendable(requests[r].token, d), next, IdleRequest)
      BY <2>13 DEF ConsumeCsrfToken
    <3>4. next \in {To(r, "revoke"), To(r, "mint"), To(r, "write"), To(r, "target"), page}
      <4> HIDE DEF page
      <4> QED BY <3>1
    <3>5. next.cookie = d
      <4> HIDE DEF page, next
      <4> QED BY <2>5, <3>2, <3>4
    <3> HIDE DEF page, next
    <3> QED BY <2>3, <2>6, <3>3, <3>5
  <2>14. ASSUME NEW r \in Requests, Revoke(r) \/ Mint(r) \/ Simulate(r) PROVE requests[q].cookie = c
    <3>1. \E from : RequestStep(r, from, TRUE, IdleRequest, IdleRequest)
      BY <2>14 DEF Revoke, Mint, Simulate
    <3> QED BY <2>3, <2>6, <3>1
  <2>15. ASSUME NEW r \in Requests, Write(r) PROVE requests[q].cookie = c
    BY <2>3, <2>4, <2>6, <2>15 DEF Write
  <2>16. ASSUME NEW r \in Requests, FindTarget(r) PROVE requests[q].cookie = c
    BY <2>4, <2>5, <2>6, <2>16 DEF FindTarget
  <2>17. ASSUME NEW r \in Requests, CountAdmins(r) PROVE requests[q].cookie = c
    BY <2>4, <2>5, <2>6, <2>17 DEF CountAdmins
  <2>18. ASSUME NEW r \in Requests, DisableTarget(r) PROVE requests[q].cookie = c
    <3> DEFINE rest == [requests EXCEPT ![r] = RenderPage(requests[r].cookie)]
    <3>1. requests[r].cookie \in Cookies
      BY <2>18 DEF DisableTarget, IInv, HasToken
    <3>2. rest \in [Requests -> Request]
      BY <1>t, <3>1, RenderPageType DEF TypeOK
    <3>3. \A s \in Requests : rest[s].cookie = requests[s].cookie
      BY <1>t, <2>4 DEF TypeOK
    <3>4. StatusChange(active \ {requests[r].target}, rest)
      BY <2>18 DEF DisableTarget
    <3> HIDE DEF rest
    <3> QED BY <2>7, <3>2, <3>3, <3>4
  <2>19. ASSUME NEW r \in Requests, Abort(r) PROVE requests[q].cookie = c
    <3>1. requests' = [requests EXCEPT ![r] = IdleRequest]
      BY <2>19 DEF Abort
    <3> QED BY <2>2, <2>3, <3>1
  <2>20. ASSUME NEW u \in Users, AuthctlEnable(u) \/ AuthctlDisable(u) PROVE requests[q].cookie = c
    <3>1. \E users : StatusChange(users, requests)
      BY <2>20 DEF AuthctlEnable, AuthctlDisable
    <3>2. requests \in [Requests -> Request]
      BY <1>t DEF TypeOK
    <3> QED BY <2>7, <3>1, <3>2
  <2>21. ASSUME Tick \/ UNCHANGED vars \/ \E d \in Cookies, u \in Users : CreateBrowserSession(d, u)
         PROVE requests[q].cookie = c
    BY <1>2, <2>21 DEF Tick, vars, CreateBrowserSession
  <2>22. ASSUME NEW r \in Requests, RequestNext(r) PROVE requests[q].cookie = c
    BY <2>12, <2>13, <2>14, <2>15, <2>16, <2>17, <2>18, <2>22 DEF RequestNext
  <2> QED
    BY <2>9, <2>10, <2>11, <2>19, <2>20, <2>21, <2>22 DEF Next
<1> QED BY <1>1, <1>2

\* A logout is final: the session is never live again, and no request that was
\* not resolved by then goes on in its name (revoke_browser_session).
THEOREM LogoutsFinal == Spec => LogoutIsFinal
<1>1. IInv /\ [Next]_vars =>
        [\A c \in Cookies :
           cookies[c].status = "revoked" =>
              /\ cookies'[c] = cookies[c]
              /\ \A q \in Requests :
                    requests'[q].cookie = c => requests[q].cookie = c]_vars
  BY LogoutStep
<1> QED BY <1>1, Inductive, PTL DEF Spec, LogoutIsFinal

=============================================================================
