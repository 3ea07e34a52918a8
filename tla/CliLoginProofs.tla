--------------------------- MODULE CliLoginProofs ---------------------------
(***************************************************************************)
(* Proofs about CliLogin for every set of users, auth sessions, login      *)
(* states, callbacks and polls, with and without PKCE, and every value of  *)
(* the bounds.                                                             *)
(***************************************************************************)
EXTENDS CliLogin, TLAPS

-----------------------------------------------------------------------------
(* The inductive invariant *)

\* A login state is created once, and a browser has it only when its private
\* part is kept.
StateInv ==
    \A x \in States :
        /\ starts[x].pc = "create" => states[x].status = "absent"
        /\ starts[x].pc = "private" => states[x].status = "open" /\ x \notin sent
        /\ x \in sent => states[x].status # "absent" /\ (Pkce => states[x].private)

\* The provider answers what it was asked; a browser session used up its state.
RedirectInv ==
    /\ \A m \in redirects : m.state \in sent
    /\ \A b \in browsers : states[b.state].status = "used"

\* A callback at work has used up its login state, of which it holds a copy,
\* and, once it has resolved its user, no invitation waits for that user.
CallbackOK(c, waiting) ==
    /\ c.pc = "idle" => c.state = NoState
    /\ c.pc # "idle" =>
          /\ c.state \in States
          /\ states[c.state].status = "used"
          /\ c.session = states[c.state].session
          /\ Pkce => c.private
          /\ [state |-> c.state, user |-> c.user] \in redirects
    /\ c.pc \in {"find", "complete"} => c.session \in Sessions
    /\ c.pc \in {"find", "complete", "browser"} => c.user \notin waiting

CallbackInv == \A k \in Callbacks : CallbackOK(callbacks[k], invited)

WebInv == StateInv /\ RedirectInv /\ CallbackInv /\ OneCallbackPerState

\* A session that was completed has a user, who is no longer merely invited.
SessionInv ==
    /\ \A s \in Sessions :
          IF sessions[s].status \in {"completed", "consumed"}
          THEN sessions[s].user \in Users \ invited
          ELSE sessions[s].user = NoUser
    /\ CompletedByItsLogin

\* A poll at work holds the user of a session that is completed, or that
\* another poll has consumed, and what it has checked stays witnessed.
PollOK(x) ==
    /\ x.pc # "idle" =>
          /\ x.session \in Sessions
          /\ sessions[x.session].status \in {"completed", "consumed"}
          /\ x.user = sessions[x.session].user
          /\ x.user \in active => x.seen
    /\ x.pc \in {"record", "consume"} => x.seen
    /\ x.pc = "consume" =>
          x.jti \in 1 .. lastJti /\ [jti |-> x.jti, user |-> x.user] \in issued

PollInv == \A p \in Polls : PollOK(polls[p])

\* A token id is in the hands of one poll or one release.
JtiInv ==
    /\ lastJti <= MaxTokens
    /\ \A t \in released : t.jti \in 1 .. lastJti
    /\ \A p \in Polls : polls[p].pc = "consume" =>
          /\ \A q \in Polls \ {p} : polls[q].pc = "consume" => polls[q].jti # polls[p].jti
          /\ \A t \in released : t.jti # polls[p].jti

TokenInv == PollInv /\ JtiInv /\ TokenForCompleter /\ ReleasedInTime

IInv == TypeOK /\ WebInv /\ SessionInv /\ TokenInv

\* Init establishes the invariant.
LEMMA InitInv == Init => IInv
  <1> SUFFICES ASSUME Init PROVE IInv
    OBVIOUS
  <1> USE CliLoginAssumption DEF Init
  <1>1. TypeOK
    BY DEF TypeOK, SessionRow, StateRow, Start, IdleStart, Callback, IdleCallback, Poll,
           IdlePoll
  <1>2. WebInv
    BY DEF WebInv, StateInv, RedirectInv, CallbackInv, CallbackOK, OneCallbackPerState,
           IdleStart, IdleCallback
  <1>3. SessionInv
    BY DEF SessionInv, CompletedByItsLogin
  <1>4. TokenInv
    BY DEF TokenInv, PollInv, PollOK, IdlePoll, JtiInv, TokenForCompleter, ReleasedInTime
  <1> QED
    BY <1>1, <1>2, <1>3, <1>4 DEF IInv

-----------------------------------------------------------------------------
(* What a step leaves alone *)

\* Nothing about logins and callbacks changes.
LEMMA WebKept ==
    ASSUME WebInv, UNCHANGED <<states, starts, sent, redirects, browsers, callbacks, invited>>
    PROVE  WebInv'
  BY DEF WebInv, StateInv, RedirectInv, CallbackInv, CallbackOK, OneCallbackPerState

\* Used login states stay as they are.
StatesStay ==
    \A x \in States : states[x].status = "used" => states'[x] = states[x]

\* The sessions stay; logins go on.
LEMMA SessionKept ==
    ASSUME TypeOK, SessionInv, StatesStay, UNCHANGED sessions,
           redirects \subseteq redirects', invited' \subseteq invited
    PROVE  SessionInv'
  <1>1. \A m \in redirects : m.state \in States
    BY DEF TypeOK, Login
  <1>2. CompletedByItsLogin'
    BY <1>1 DEF SessionInv, CompletedByItsLogin, StatesStay
  <1> QED
    BY <1>2 DEF SessionInv

\* What no step undoes: a completed session keeps its user, a consumed one does
\* not change at all.
Advances(s) ==
    /\ sessions[s].status \in {"completed", "consumed"} =>
          /\ sessions'[s].status \in {"completed", "consumed"}
          /\ sessions'[s].user = sessions[s].user
    /\ sessions[s].status = "consumed" => sessions'[s] = sessions[s]

\* Sessions advance, and only invited users are activated.
LEMMA TokenKept ==
    ASSUME TypeOK, SessionInv, TokenInv, \A s \in Sessions : Advances(s),
           UNCHANGED <<polls, logVars>>, active' \subseteq active \cup invited
    PROVE  TokenInv'
  <1>1. UNCHANGED <<polls, issued, lastJti, released>>
    BY DEF logVars
  <1>2. PollInv'
    <2> SUFFICES ASSUME NEW p \in Polls PROVE PollOK(polls[p])'
      BY DEF PollInv
    <2>1. PollOK(polls[p])
      BY DEF TokenInv, PollInv
    <2>2. polls[p].pc # "idle" => Advances(polls[p].session) /\ polls[p].user \notin invited
      BY <2>1 DEF PollOK, SessionInv
    <2> QED
      BY <1>1, <2>1, <2>2 DEF PollOK, Advances
  <1>3. JtiInv'
    BY <1>1 DEF TokenInv, JtiInv
  <1>4. \A t \in released : sessions'[t.session] = sessions[t.session]
    BY DEF TypeOK, Release, TokenInv, TokenForCompleter, Advances
  <1>5. TokenForCompleter' /\ ReleasedInTime'
    BY <1>1, <1>4 DEF TokenInv, TokenForCompleter, ReleasedInTime
  <1> QED
    BY <1>2, <1>3, <1>5 DEF TokenInv

-----------------------------------------------------------------------------
(* StartAuthSession and the start of a login *)

LEMMA CreateAuthSessionInv ==
    ASSUME IInv, NEW s \in Sessions, CreateAuthSession(s)
    PROVE  IInv'
  <1> USE DEF IInv
  <1>1. UNCHANGED <<clock, accounts, webVars, callbacks, polls, logVars, events>>
    BY DEF CreateAuthSession
  <1>2. sessions[s].status = "absent" /\ sessions[s].user = NoUser
    BY DEF CreateAuthSession, SessionInv
  <1>3. /\ sessions'[s] = [status |-> "pending", user |-> NoUser, expires |-> clock + SessionTtl]
        /\ \A r \in Sessions \ {s} : sessions'[r] = sessions[r]
    BY DEF CreateAuthSession, TypeOK
  <1>4. TypeOK'
    <2>1. sessions' \in [Sessions -> SessionRow]
      BY CliLoginAssumption DEF CreateAuthSession, TypeOK, SessionRow
    <2> QED
      BY <1>1, <2>1 DEF TypeOK, accounts, webVars, logVars
  <1>5. WebInv'
    BY <1>1, WebKept DEF accounts, webVars
  <1>6. SessionInv'
    BY <1>1, <1>2, <1>3 DEF SessionInv, CompletedByItsLogin, accounts, webVars
  <1>7. \A r \in Sessions : Advances(r)
    BY <1>2, <1>3 DEF Advances
  <1>8. TokenInv'
    BY <1>1, <1>7, TokenKept DEF accounts
  <1> QED
    BY <1>4, <1>5, <1>6, <1>8

\* The steps of a start request, and its end.
LEMMA StartInv ==
    ASSUME IInv, NEW x \in States,
           \/ \E s \in Sessions \cup {NoSession} : AuthStart(x, s)
           \/ CreateLoginState(x) \/ SetPrivateState(x) \/ AbortStart(x)
    PROVE  IInv'
  <1> USE CliLoginAssumption DEF IInv
  <1>1. /\ UNCHANGED <<clock, accounts, sessions, redirects, browsers, callbacks, polls, logVars>>
        /\ events' \in Nat
    BY DEF AuthStart, CreateLoginState, SetPrivateState, AbortStart, StartUnchanged, CountEvent,
           TypeOK
  <1>2. /\ states' \in [States -> StateRow] /\ starts' \in [States -> Start]
        /\ sent' \in SUBSET States
    <2>0. starts[x] \in Start /\ states[x] \in StateRow
      BY DEF TypeOK
    <2>1. CASE \E s \in Sessions \cup {NoSession} : AuthStart(x, s)
      BY <2>1 DEF AuthStart, TypeOK, Start
    <2>2. CASE CreateLoginState(x)
      BY <2>0, <2>2 DEF CreateLoginState, TypeOK, Start, StateRow, IdleStart
    <2>3. CASE SetPrivateState(x)
      BY <2>0, <2>3 DEF SetPrivateState, TypeOK, Start, StateRow, IdleStart
    <2>4. CASE AbortStart(x)
      BY <2>4 DEF AbortStart, TypeOK, Start, IdleStart
    <2> QED
      BY <2>1, <2>2, <2>3, <2>4
  <1>3. TypeOK'
    BY <1>1, <1>2 DEF TypeOK, accounts, logVars
  <1>4. StatesStay
    BY DEF AuthStart, CreateLoginState, SetPrivateState, AbortStart, StatesStay, TypeOK,
           WebInv, StateInv
  <1>5. sent \subseteq sent'
    BY DEF AuthStart, CreateLoginState, SetPrivateState, AbortStart
  <1>6. StateInv'
    <2>0. states[x] \in StateRow /\ starts[x] \in Start
      BY DEF TypeOK
    <2>1. CASE \E s \in Sessions \cup {NoSession} : AuthStart(x, s)
      BY <2>1 DEF AuthStart, TypeOK, WebInv, StateInv
    <2>2. CASE CreateLoginState(x)
      BY <2>0, <2>2 DEF CreateLoginState, TypeOK, WebInv, StateInv, IdleStart, Start
    <2>3. CASE SetPrivateState(x)
      BY <2>0, <2>3 DEF SetPrivateState, TypeOK, WebInv, StateInv, IdleStart, StateRow
    <2>4. CASE AbortStart(x)
      BY <2>4 DEF AbortStart, TypeOK, WebInv, StateInv, IdleStart
    <2> QED
      BY <2>1, <2>2, <2>3, <2>4
  <1>7. RedirectInv'
    BY <1>1, <1>4, <1>5 DEF WebInv, RedirectInv, StatesStay, TypeOK, Login
  <1>8. CallbackInv' /\ OneCallbackPerState'
    BY <1>1, <1>4
    DEF WebInv, CallbackInv, CallbackOK, OneCallbackPerState, StatesStay, accounts
  <1>9. SessionInv'
    BY <1>1, <1>4, SessionKept DEF accounts
  <1>10. TokenInv'
    BY <1>1, TokenKept DEF accounts, Advances
  <1> QED
    BY <1>3, <1>6, <1>7, <1>8, <1>9, <1>10 DEF WebInv

LEMMA ProviderAnswersInv ==
    ASSUME IInv, NEW x \in States, NEW u \in Users, ProviderAnswers(x, u)
    PROVE  IInv'
  <1> USE DEF IInv
  <1>1. /\ UNCHANGED <<clock, accounts, sessions, states, starts, sent, browsers, callbacks,
                       polls, logVars, events>>
        /\ redirects' = redirects \cup {[state |-> x, user |-> u]}
        /\ x \in sent
    BY DEF ProviderAnswers
  <1>2. TypeOK'
    BY <1>1 DEF TypeOK, Login, accounts, logVars
  <1>3. WebInv'
    BY <1>1 DEF WebInv, StateInv, RedirectInv, CallbackInv, CallbackOK, OneCallbackPerState,
                accounts
  <1>4. SessionInv'
    BY <1>1, SessionKept DEF accounts, StatesStay
  <1>5. TokenInv'
    BY <1>1, TokenKept DEF accounts, Advances
  <1> QED
    BY <1>2, <1>3, <1>4, <1>5

-----------------------------------------------------------------------------
(* The callback *)

LEMMA IdleTypes == IdleCallback \in Callback /\ IdlePoll \in Poll
  BY DEF IdleCallback, Callback, IdlePoll, Poll

\* An idle callback is fine whoever waits.
LEMMA IdleCallbackOK ==
    ASSUME NEW waiting PROVE CallbackOK(IdleCallback, waiting)
  BY DEF CallbackOK, IdleCallback

\* A callback that goes on with its login state, or ends.
LEMMA CallbackMoves ==
    ASSUME TypeOK, WebInv, NEW k \in Callbacks, NEW x \in Callback, CallbackOK(x, invited'),
           x # IdleCallback => callbacks[k].pc # "idle" /\ x.state = callbacks[k].state,
           callbacks' = [callbacks EXCEPT ![k] = x],
           UNCHANGED <<states, starts, sent, redirects, browsers>>,
           invited' \subseteq invited
    PROVE  WebInv' /\ callbacks' \in [Callbacks -> Callback]
  <1> USE DEF WebInv
  <1>1. callbacks' \in [Callbacks -> Callback]
    BY DEF TypeOK
  <1>2. callbacks'[k] = x /\ \A j \in Callbacks \ {k} : callbacks'[j] = callbacks[j]
    BY DEF TypeOK
  <1>3. StateInv' /\ RedirectInv'
    BY DEF StateInv, RedirectInv
  <1>4. CallbackInv'
    BY <1>2 DEF CallbackInv, CallbackOK
  <1>5. OneCallbackPerState'
    <2>1. CASE x = IdleCallback
      <3>1. \A j \in Callbacks : callbacks[j].pc # "idle" => callbacks[j].state # NoState
        BY CliLoginAssumption DEF CallbackInv, CallbackOK
      <3> QED
        BY <1>2, <2>1, <3>1 DEF OneCallbackPerState, IdleCallback
    <2>2. CASE x # IdleCallback
      BY <1>2, <2>2 DEF OneCallbackPerState
    <2> QED
      BY <2>1, <2>2
  <1> QED
    BY <1>1, <1>3, <1>4, <1>5

LEMMA CallbackConsumeInv ==
    ASSUME IInv, NEW k \in Callbacks, NEW m \in redirects, NEW samePath \in BOOLEAN,
           CallbackConsume(k, m, samePath)
    PROVE  IInv'
  <1> USE DEF IInv
  <1> DEFINE x == m.state
             c == [pc |-> "exchange", state |-> x, session |-> states[x].session,
                   private |-> states[x].private, user |-> m.user]
  <1>1. x \in States /\ m.user \in Users /\ m = [state |-> x, user |-> m.user] /\ x \in sent
    BY DEF TypeOK, Login, WebInv, RedirectInv
  <1>2. states[x] \in StateRow
    BY <1>1 DEF TypeOK
  <1>3. /\ callbacks[k].pc = "idle"
        /\ callbacks' = [callbacks EXCEPT ![k] = IF Usable(x) /\ samePath THEN c ELSE IdleCallback]
        /\ states' = IF Usable(x) THEN [states EXCEPT ![x].status = "used"] ELSE states
        /\ UNCHANGED <<clock, accounts, sessions, browsers, starts, sent, redirects, polls,
                       logVars, events>>
    BY DEF CallbackConsume, CallbackStep, CallbackUnchanged
  <1>4. c \in Callback
    BY <1>1, <1>2 DEF Callback, StateRow
  <1>5. /\ \A y \in States : /\ states'[y].session = states[y].session
                             /\ states'[y].private = states[y].private
                             /\ states[y].status = "absent" <=> states'[y].status = "absent"
        /\ \A y \in States \ {x} : states'[y] = states[y]
        /\ Usable(x) => states[x].status = "open" /\ states'[x].status = "used"
        /\ ~Usable(x) => states' = states
    BY <1>1, <1>2, <1>3 DEF TypeOK, StateRow, Usable
  <1>6. TypeOK'
    <2>1. callbacks' \in [Callbacks -> Callback]
      BY <1>3, <1>4, IdleTypes DEF TypeOK
    <2>2. states' \in [States -> StateRow]
      BY <1>1, <1>2, <1>3 DEF TypeOK, StateRow
    <2> QED
      BY <1>3, <2>1, <2>2 DEF TypeOK, accounts, logVars
  <1>7. StatesStay
    BY <1>1, <1>5 DEF StatesStay
  <1>8. StateInv'
    <2>1. starts[x].pc # "private"
      BY <1>1 DEF WebInv, StateInv
    <2> QED
      BY <1>1, <1>3, <1>5, <2>1 DEF WebInv, StateInv
  <1>9. RedirectInv'
    BY <1>3, <1>7 DEF WebInv, RedirectInv, StatesStay, TypeOK, Login
  <1>10. /\ callbacks'[k] = IF Usable(x) /\ samePath THEN c ELSE IdleCallback
         /\ \A j \in Callbacks \ {k} : callbacks'[j] = callbacks[j]
    BY <1>3 DEF TypeOK
  <1>11. \A j \in Callbacks : callbacks[j].pc # "idle" =>
            callbacks[j].state \in States /\ states[callbacks[j].state].status = "used"
    BY DEF WebInv, CallbackInv, CallbackOK
  <1>12. Usable(x) /\ Pkce => c.private
    BY <1>1 DEF WebInv, StateInv
  <1>13. CallbackInv'
    <2>1. \A j \in Callbacks \ {k} : CallbackOK(callbacks[j], invited)'
      BY <1>3, <1>7, <1>10 DEF WebInv, CallbackInv, CallbackOK, StatesStay, accounts
    <2>2. CASE Usable(x) /\ samePath
      BY <1>1, <1>3, <1>5, <1>10, <1>12, <2>1, <2>2 DEF CallbackInv, CallbackOK
    <2>3. CASE ~(Usable(x) /\ samePath)
      <3>1. CallbackOK(callbacks[k], invited)'
        BY <1>10, <2>3 DEF CallbackOK, IdleCallback
      <3> QED
        BY <2>1, <3>1 DEF CallbackInv
    <2> QED
      BY <2>2, <2>3
  <1>14. OneCallbackPerState'
    <2>1. CASE Usable(x) /\ samePath
      <3>1. callbacks'[k].state = x /\ states[x].status # "used"
        BY <1>5, <1>10, <2>1
      <3>2. \A b \in browsers : b.state # x
        BY <3>1 DEF WebInv, RedirectInv
      <3>3. \A j \in Callbacks : callbacks[j].state # x
        BY <1>1, <1>11, <3>1, CliLoginAssumption DEF WebInv, CallbackInv, CallbackOK
      <3> QED
        BY <1>3, <1>10, <3>1, <3>2, <3>3 DEF WebInv, OneCallbackPerState
    <2>2. CASE ~(Usable(x) /\ samePath)
      <3>1. callbacks'[k] = IdleCallback
        BY <1>10, <2>2
      <3> QED
        BY <1>3, <1>10, <1>11, <3>1, CliLoginAssumption
        DEF WebInv, OneCallbackPerState, IdleCallback
    <2> QED
      BY <2>1, <2>2
  <1>15. SessionInv'
    BY <1>3, <1>7, SessionKept DEF accounts
  <1>16. TokenInv'
    BY <1>3, TokenKept DEF accounts, Advances
  <1> QED
    BY <1>6, <1>8, <1>9, <1>13, <1>14, <1>15, <1>16 DEF WebInv

\* The steps of a callback that touch neither sessions nor browsers: those that
\* only read, and resolve_login.
LEMMA CallbackQuietInv ==
    ASSUME IInv, NEW k \in Callbacks, NEW x \in Callback, CallbackOK(x, invited'),
           x # IdleCallback => callbacks[k].pc # "idle" /\ x.state = callbacks[k].state,
           callbacks' = [callbacks EXCEPT ![k] = x],
           UNCHANGED <<clock, sessions, webVars, polls, logVars>>,
           events' \in Nat, invited' \subseteq invited, active' \subseteq active \cup invited
    PROVE  IInv'
  <1> USE DEF IInv
  <1>1. WebInv' /\ callbacks' \in [Callbacks -> Callback]
    BY CallbackMoves DEF webVars
  <1>2. TypeOK'
    BY <1>1 DEF TypeOK, webVars, logVars
  <1>3. SessionInv'
    BY SessionKept DEF webVars, StatesStay
  <1>4. TokenInv'
    BY TokenKept DEF Advances
  <1> QED
    BY <1>1, <1>2, <1>3, <1>4

LEMMA CallbackReadsInv ==
    ASSUME IInv, NEW k \in Callbacks,
           CallbackExchange(k) \/ CallbackFind(k) \/ AbortCallback(k)
    PROVE  IInv'
  <1> USE DEF IInv
  <1>1. callbacks[k] \in Callback /\ CallbackOK(callbacks[k], invited)
    BY DEF TypeOK, WebInv, CallbackInv
  <1>2. CallbackOK(IdleCallback, invited) /\ IdleCallback \in Callback
    BY IdleCallbackOK, IdleTypes
  <1>3. /\ UNCHANGED <<clock, active, invited, sessions, webVars, polls, logVars>>
        /\ events' \in Nat
    <2>1. CASE CallbackExchange(k) \/ CallbackFind(k)
      BY <2>1 DEF CallbackExchange, CallbackFind, CallbackUnchanged, TypeOK, accounts, webVars
    <2>2. CASE AbortCallback(k)
      BY <2>2 DEF AbortCallback, CountEvent, TypeOK, accounts
    <2> QED
      BY <2>1, <2>2
  <1>4. \E x \in Callback :
          /\ CallbackOK(x, invited)
          /\ x # IdleCallback => callbacks[k].pc # "idle" /\ x.state = callbacks[k].state
          /\ callbacks' = [callbacks EXCEPT ![k] = x]
    <2>1. CASE AbortCallback(k)
      BY <1>2, <2>1 DEF AbortCallback
    <2>2. CASE CallbackExchange(k)
      <3> DEFINE x == [callbacks[k] EXCEPT !.pc = "resolve"]
      <3>1. x \in Callback /\ CallbackOK(x, invited) /\ x.state = callbacks[k].state
        BY <1>1, <2>2 DEF CallbackExchange, CallbackStep, Callback, CallbackOK
      <3>2. \/ callbacks' = [callbacks EXCEPT ![k] = x] /\ callbacks[k].pc # "idle"
            \/ callbacks' = [callbacks EXCEPT ![k] = IdleCallback]
        BY <2>2 DEF CallbackExchange, CallbackStep
      <3> HIDE DEF x
      <3> QED
        BY <1>2, <3>1, <3>2
    <2>3. CASE CallbackFind(k)
      <3> DEFINE x == [callbacks[k] EXCEPT !.pc = IF Findable(callbacks[k].session) THEN "complete"
                                                  ELSE "browser"]
      <3>1. x \in Callback /\ CallbackOK(x, invited) /\ x.state = callbacks[k].state
        BY <1>1, <2>3 DEF CallbackFind, CallbackStep, Callback, CallbackOK
      <3>2. callbacks' = [callbacks EXCEPT ![k] = x] /\ callbacks[k].pc # "idle"
        BY <2>3 DEF CallbackFind, CallbackStep
      <3> HIDE DEF x
      <3> QED
        BY <3>1, <3>2
    <2> QED
      BY <2>1, <2>2, <2>3
  <1> QED
    BY <1>3, <1>4, CallbackQuietInv

LEMMA CallbackResolveInv ==
    ASSUME IInv, NEW k \in Callbacks, CallbackResolve(k)
    PROVE  IInv'
  <1> USE DEF IInv
  <1> DEFINE u == callbacks[k].user
             x == [callbacks[k] EXCEPT
                     !.pc = IF callbacks[k].session = NoSession THEN "browser" ELSE "find"]
  <1>1. callbacks[k] \in Callback /\ CallbackOK(callbacks[k], invited) /\ callbacks[k].pc = "resolve"
    BY DEF TypeOK, WebInv, CallbackInv, CallbackResolve, CallbackStep
  <1>2. /\ UNCHANGED <<clock, sessions, webVars, polls, logVars, events>>
        /\ active' \subseteq active \cup invited /\ invited' = invited \ {u}
    BY DEF CallbackResolve, CallbackUnchanged, webVars
  <1>3. x \in Callback /\ CallbackOK(x, invited') /\ x.state = callbacks[k].state
    BY <1>1, <1>2 DEF Callback, CallbackOK
  <1>4. \/ callbacks' = [callbacks EXCEPT ![k] = x]
        \/ callbacks' = [callbacks EXCEPT ![k] = IdleCallback]
    BY DEF CallbackResolve, CallbackStep
  <1>5. CallbackOK(IdleCallback, invited') /\ IdleCallback \in Callback
    BY IdleCallbackOK, IdleTypes
  <1>6. events' \in Nat /\ invited' \subseteq invited
    BY <1>2 DEF TypeOK
  <1> HIDE DEF x, u
  <1> QED
    BY <1>1, <1>2, <1>3, <1>4, <1>5, <1>6, CallbackQuietInv

LEMMA CallbackBrowserInv ==
    ASSUME IInv, NEW k \in Callbacks, CallbackBrowser(k)
    PROVE  IInv'
  <1> USE DEF IInv
  <1> DEFINE b == [state |-> callbacks[k].state, user |-> callbacks[k].user]
  <1>1. /\ callbacks[k].pc = "browser" /\ CallbackOK(callbacks[k], invited)
        /\ callbacks[k] \in Callback
    BY DEF CallbackBrowser, CallbackStep, TypeOK, WebInv, CallbackInv
  <1>2. /\ callbacks' = [callbacks EXCEPT ![k] = IdleCallback]
        /\ browsers' = browsers \cup {b}
        /\ UNCHANGED <<clock, active, invited, sessions, states, starts, sent, redirects, polls,
                       logVars, events>>
    BY DEF CallbackBrowser, CallbackStep, CallbackUnchanged, accounts
  <1>3. b \in redirects /\ b \in Login
    BY <1>1 DEF CallbackOK, TypeOK
  <1>4. callbacks'[k] = IdleCallback /\ \A j \in Callbacks \ {k} : callbacks'[j] = callbacks[j]
    BY <1>2 DEF TypeOK
  <1>5. TypeOK'
    BY <1>2, <1>3, IdleTypes DEF TypeOK, logVars
  <1>6. StateInv' /\ RedirectInv'
    BY <1>1, <1>2 DEF WebInv, StateInv, RedirectInv, CallbackOK
  <1>7. CallbackInv'
    BY <1>2, <1>4 DEF WebInv, CallbackInv, CallbackOK, IdleCallback
  <1>8. OneCallbackPerState'
    <2>1. \A j \in Callbacks \ {k} : callbacks[j].pc # "idle" =>
             callbacks[j].state # callbacks[k].state /\ callbacks[j].state # NoState
      BY <1>1, CliLoginAssumption DEF WebInv, OneCallbackPerState, CallbackInv, CallbackOK
    <2> QED
      BY <1>2, <1>4, <2>1 DEF WebInv, OneCallbackPerState, IdleCallback
  <1>9. SessionInv'
    BY <1>2, SessionKept DEF StatesStay
  <1>10. TokenInv'
    BY <1>2, TokenKept DEF Advances
  <1> QED
    BY <1>5, <1>6, <1>7, <1>8, <1>9, <1>10 DEF WebInv

\* The UPDATE that decides between racing browsers.
LEMMA CallbackCompleteInv ==
    ASSUME IInv, NEW k \in Callbacks, CallbackComplete(k)
    PROVE  IInv'
  <1> USE DEF IInv
  <1> DEFINE s == callbacks[k].session
             u == callbacks[k].user
             m == [state |-> callbacks[k].state, user |-> u]
  <1>1. /\ callbacks[k].pc = "complete" /\ CallbackOK(callbacks[k], invited)
        /\ callbacks[k] \in Callback
    BY DEF CallbackComplete, CallbackStep, TypeOK, WebInv, CallbackInv
  <1>2. /\ callbacks' = [callbacks EXCEPT ![k] = IdleCallback]
        /\ sessions' = IF Completable(s)
                       THEN [sessions EXCEPT ![s].status = "completed", ![s].user = u]
                       ELSE sessions
        /\ UNCHANGED <<clock, active, invited, states, starts, sent, redirects, browsers, polls,
                       logVars, events>>
    BY DEF CallbackComplete, CallbackStep, CallbackUnchanged, accounts
  <1>3. s \in Sessions /\ sessions[s] \in SessionRow
    BY <1>1 DEF CallbackOK, TypeOK
  <1>4. m \in redirects /\ m.user = u /\ states[m.state].session = s
           /\ states[m.state].status = "used" /\ u \in Users \ invited
    <2>1. m \in redirects /\ u \notin invited
      BY <1>1 DEF CallbackOK
    <2>2. m \in Login
      BY <2>1 DEF TypeOK
    <2> QED
      BY <1>1, <2>1, <2>2 DEF CallbackOK, Login
  <1>5. WebInv' /\ callbacks' \in [Callbacks -> Callback]
    BY <1>2, CallbackMoves, IdleCallbackOK, IdleTypes
  <1>6. sessions' \in [Sessions -> SessionRow]
    BY <1>2, <1>3, <1>4 DEF TypeOK, SessionRow
  <1>7. TypeOK'
    BY <1>2, <1>5, <1>6 DEF TypeOK, logVars
  <1>8. /\ \A r \in Sessions \ {s} : sessions'[r] = sessions[r]
        /\ Completable(s) => sessions'[s].status = "completed" /\ sessions'[s].user = u
        /\ ~Completable(s) => sessions' = sessions
    BY <1>2, <1>3 DEF TypeOK, SessionRow
  <1>9. SessionInv'
    <2> HIDE DEF m, u, s
    <2>1. CASE Completable(s)
      <3>1. CompletedByItsLogin'
        <4> SUFFICES ASSUME NEW r \in Sessions, sessions'[r].user # NoUser
                     PROVE  \E n \in redirects : /\ n.user = sessions'[r].user
                                                 /\ states[n.state].session = r
                                                 /\ states[n.state].status = "used"
          BY <1>2 DEF CompletedByItsLogin
        <4>1. CASE r = s
          BY <1>4, <1>8, <2>1, <4>1
        <4>2. CASE r # s
          BY <1>8, <4>2 DEF SessionInv, CompletedByItsLogin
        <4> QED
          BY <4>1, <4>2
      <3> QED
        BY <1>2, <1>4, <1>8, <2>1, <3>1 DEF SessionInv
    <2>2. CASE ~Completable(s)
      BY <1>2, <1>8, <2>2, SessionKept DEF StatesStay
    <2> QED
      BY <2>1, <2>2
  <1>10. \A r \in Sessions : Advances(r)
    BY <1>8 DEF Advances, Completable
  <1>11. TokenInv'
    BY <1>2, <1>10, TokenKept
  <1> QED
    BY <1>5, <1>7, <1>9, <1>11

LEMMA CallbackNextInv ==
    ASSUME IInv, NEW k \in Callbacks, CallbackNext(k)
    PROVE  IInv'
  BY CallbackReadsInv, CallbackResolveInv, CallbackCompleteInv, CallbackBrowserInv
  DEF CallbackNext

-----------------------------------------------------------------------------
(* GetAuthSession *)

\* Everything but the polls and the token log.
PollRest == <<clock, active, invited, sessions, webVars, callbacks>>

\* A poll that goes on, or ends, and records nothing.
LEMMA PollMoves ==
    ASSUME IInv, NEW p \in Polls, NEW x \in Poll, PollOK(x), x.pc # "consume",
           polls' = [polls EXCEPT ![p] = x],
           UNCHANGED <<PollRest, logVars>>, events' \in Nat
    PROVE  IInv'
  <1> USE DEF IInv, PollRest
  <1>1. polls'[p] = x /\ \A q \in Polls \ {p} : polls'[q] = polls[q]
    BY DEF TypeOK
  <1>2. TypeOK'
    BY DEF TypeOK, webVars, logVars
  <1>3. WebInv'
    BY WebKept DEF webVars
  <1>4. SessionInv'
    BY SessionKept DEF webVars, StatesStay
  <1>5. PollInv'
    BY <1>1 DEF TokenInv, PollInv, PollOK, logVars
  <1>6. JtiInv'
    BY <1>1 DEF TokenInv, JtiInv, logVars
  <1>7. TokenForCompleter' /\ ReleasedInTime'
    BY DEF TokenInv, TokenForCompleter, ReleasedInTime, logVars
  <1> QED
    BY <1>2, <1>3, <1>4, <1>5, <1>6, <1>7 DEF TokenInv

LEMMA PollReadInv ==
    ASSUME IInv, NEW p \in Polls, NEW s \in Sessions, PollRead(p, s)
    PROVE  IInv'
  <1> DEFINE x == [pc |-> "principal", session |-> s, user |-> sessions[s].user,
                   jti |-> 0, seen |-> sessions[s].user \in active]
  <1>1. sessions[s] \in SessionRow /\ sessions[s].status = "completed"
    BY DEF IInv, TypeOK, PollRead
  <1>2. x \in Poll /\ PollOK(x) /\ x.pc # "consume"
    <2>1. sessions[s].user \in Users \cup {NoUser} /\ (sessions[s].user \in active) \in BOOLEAN
      BY <1>1 DEF SessionRow
    <2>2. x \in Poll
      BY <2>1 DEF Poll
    <2>3. /\ x.pc = "principal" /\ x.session = s /\ x.user = sessions[s].user
          /\ x.user \in active => x.seen
      OBVIOUS
    <2> HIDE DEF x
    <2> QED
      BY <1>1, <2>2, <2>3 DEF PollOK
  <1>3. polls' = [polls EXCEPT ![p] = x] /\ UNCHANGED <<PollRest, logVars, events>>
    BY DEF PollRead, PollStep, PollUnchanged, PollRest, accounts
  <1>4. events' \in Nat
    BY <1>3 DEF IInv, TypeOK
  <1> HIDE DEF x
  <1> QED
    BY <1>2, <1>3, <1>4, PollMoves

LEMMA PollEndsInv ==
    ASSUME IInv, NEW p \in Polls, polls' = [polls EXCEPT ![p] = IdlePoll],
           UNCHANGED <<PollRest, logVars>>, events' \in Nat
    PROVE  IInv'
  <1>1. PollOK(IdlePoll) /\ IdlePoll.pc # "consume"
    BY DEF PollOK, IdlePoll
  <1> QED
    BY <1>1, IdleTypes, PollMoves

LEMMA PollPrincipalInv ==
    ASSUME IInv, NEW p \in Polls, PollPrincipal(p)
    PROVE  IInv'
  <1> DEFINE x == [polls[p] EXCEPT !.pc = "record"]
  <1>1. polls[p] \in Poll /\ PollOK(polls[p]) /\ polls[p].pc = "principal"
    BY DEF IInv, TypeOK, TokenInv, PollInv, PollPrincipal, PollStep
  <1>2. UNCHANGED <<PollRest, logVars, events>> /\ events' \in Nat
    BY DEF PollPrincipal, PollUnchanged, PollRest, accounts, IInv, TypeOK
  <1>3. CASE polls[p].user \in active
    <2>1. x \in Poll /\ PollOK(x) /\ x.pc # "consume"
      BY <1>1, <1>3 DEF Poll, PollOK
    <2>2. polls' = [polls EXCEPT ![p] = x]
      BY <1>3 DEF PollPrincipal, PollStep
    <2> HIDE DEF x
    <2> QED
      BY <1>2, <2>1, <2>2, PollMoves
  <1>4. CASE polls[p].user \notin active
    BY <1>2, <1>4, PollEndsInv DEF PollPrincipal, PollStep
  <1> QED
    BY <1>3, <1>4

LEMMA PollRecordInv ==
    ASSUME IInv, NEW p \in Polls, PollRecord(p)
    PROVE  IInv'
  <1> USE DEF IInv
  <1> DEFINE x == [polls[p] EXCEPT !.pc = "consume", !.jti = lastJti + 1]
             t == [jti |-> lastJti + 1, user |-> polls[p].user]
  <1>1. polls[p] \in Poll /\ PollOK(polls[p]) /\ polls[p].pc = "record"
    BY DEF TypeOK, TokenInv, PollInv, PollRecord, PollStep
  <1>2. /\ polls' = [polls EXCEPT ![p] = x]
        /\ lastJti < MaxTokens /\ lastJti' = lastJti + 1 /\ issued' = issued \cup {t}
        /\ UNCHANGED <<PollRest, released, events>>
    BY DEF PollRecord, PollStep, PollUnchanged, PollRest, accounts
  <1>3. lastJti \in Nat /\ lastJti + 1 \in Nat /\ lastJti + 1 <= MaxTokens
    BY <1>2, CliLoginAssumption DEF TypeOK
  <1>4. x \in Poll /\ x.pc = "consume" /\ x.jti = lastJti + 1 /\ x.user = polls[p].user
          /\ x.session = polls[p].session /\ x.seen = polls[p].seen
    BY <1>1, <1>3 DEF Poll
  <1>5. polls[p].user \in Users
    BY <1>1 DEF PollOK, SessionInv
  <1>6. t \in Token
    BY <1>3, <1>5 DEF Token
  <1>7. polls'[p] = x /\ \A q \in Polls \ {p} : polls'[q] = polls[q]
    BY <1>2 DEF TypeOK
  <1>8. TypeOK'
    <2> HIDE DEF x, t
    <2> QED
      BY <1>2, <1>3, <1>4, <1>6 DEF TypeOK, PollRest, webVars
  <1>9. WebInv' /\ SessionInv'
    BY <1>2, WebKept, SessionKept DEF PollRest, webVars, StatesStay
  <1>10. PollInv'
    <2> SUFFICES ASSUME NEW q \in Polls PROVE PollOK(polls[q])'
      BY DEF PollInv
    <2>1. CASE q = p
      <3>1. t \in issued' /\ t = [jti |-> x.jti, user |-> x.user]
        BY <1>2, <1>4
      <3>2. x.jti \in 1 .. lastJti'
        BY <1>2, <1>3, <1>4
      <3> HIDE DEF x, t
      <3> QED
        BY <1>1, <1>2, <1>4, <1>7, <2>1, <3>1, <3>2 DEF PollOK, PollRest
    <2>2. CASE q # p
      <3>1. PollOK(polls[q])
        BY DEF TokenInv, PollInv
      <3>2. 1 .. lastJti \subseteq 1 .. lastJti' /\ issued \subseteq issued'
        BY <1>2, <1>3
      <3> QED
        BY <1>2, <1>7, <2>2, <3>1, <3>2 DEF PollOK, PollRest
    <2> QED
      BY <2>1, <2>2
  <1>11. JtiInv'
    <2>1. \A q \in Polls : polls[q].pc = "consume" => polls[q].jti \in 1 .. lastJti
      BY DEF TokenInv, PollInv, PollOK
    <2>2. \A r \in released : r.jti \in 1 .. lastJti
      BY DEF TokenInv, JtiInv
    <2>3. \A i \in 1 .. lastJti : i # lastJti + 1 /\ i \in 1 .. (lastJti + 1)
      BY <1>3
    <2>4. \A q \in Polls : polls'[q].pc = "consume" =>
             /\ \A r \in Polls \ {q} : polls'[r].pc = "consume" => polls'[r].jti # polls'[q].jti
             /\ \A r \in released : r.jti # polls'[q].jti
      <3> HIDE DEF x
      <3> QED
        BY <1>4, <1>7, <2>1, <2>2, <2>3 DEF TokenInv, JtiInv
    <2> QED
      BY <1>2, <1>3, <2>2, <2>3, <2>4 DEF JtiInv
  <1>12. TokenForCompleter' /\ ReleasedInTime'
    BY <1>2 DEF TokenInv, TokenForCompleter, ReleasedInTime, PollRest
  <1> QED
    BY <1>8, <1>9, <1>10, <1>11, <1>12 DEF TokenInv

\* The UPDATE that decides between racing polls.
LEMMA PollConsumeInv ==
    ASSUME IInv, NEW p \in Polls, PollConsume(p)
    PROVE  IInv'
  <1> USE DEF IInv
  <1> DEFINE s == polls[p].session
             t == [session |-> s, jti |-> polls[p].jti, user |-> polls[p].user, at |-> clock]
  <1>1. polls[p] \in Poll /\ PollOK(polls[p]) /\ polls[p].pc = "consume"
    BY DEF TypeOK, TokenInv, PollInv, PollConsume, PollStep
  <1>2. /\ polls' = [polls EXCEPT ![p] = IdlePoll]
        /\ UNCHANGED <<clock, accounts, webVars, callbacks, events, issued, lastJti>>
    BY DEF PollConsume, PollStep, PollUnchanged
  <1>3. CASE ~Consumable(s)
    <2>1. UNCHANGED <<sessions, released>>
      BY <1>3 DEF PollConsume
    <2> QED
      BY <1>2, <2>1, PollEndsInv DEF PollRest, accounts, logVars, TypeOK
  <1>4. CASE Consumable(s)
    <2>1. /\ sessions' = [sessions EXCEPT ![s].status = "consumed"]
          /\ released' = released \cup {t}
      BY <1>4 DEF PollConsume
    <2>2. /\ s \in Sessions /\ sessions[s] \in SessionRow /\ sessions[s].status = "completed"
          /\ polls[p].user = sessions[s].user /\ sessions[s].user \in Users
          /\ clock < sessions[s].expires
      BY <1>1, <1>4 DEF PollOK, TypeOK, Consumable, SessionInv
    <2>3. /\ sessions'[s].status = "consumed" /\ sessions'[s].user = sessions[s].user
          /\ sessions'[s].expires = sessions[s].expires
          /\ \A r \in Sessions \ {s} : sessions'[r] = sessions[r]
          /\ sessions' \in [Sessions -> SessionRow]
      BY <2>1, <2>2 DEF TypeOK, SessionRow
    <2>4. polls'[p] = IdlePoll /\ \A q \in Polls \ {p} : polls'[q] = polls[q]
      BY <1>2 DEF TypeOK
    <2>5. t \in Release /\ t.session = s /\ t.jti = polls[p].jti /\ t.user = polls[p].user
             /\ t.at = clock
      BY <1>1, <2>2 DEF Release, Poll, TypeOK
    <2> HIDE DEF t, s
    <2>6. TypeOK'
      BY <1>2, <2>1, <2>3, <2>5, IdleTypes DEF TypeOK, accounts, webVars
    <2>7. WebInv'
      BY <1>2, WebKept DEF accounts, webVars
    <2>8. SessionInv'
      <3>1. UNCHANGED <<states, redirects, invited>>
        BY <1>2 DEF accounts, webVars
      <3>2. \A r \in Sessions : sessions'[r].user = sessions[r].user
        BY <2>3
      <3>3. CompletedByItsLogin'
        BY <3>1, <3>2 DEF SessionInv, CompletedByItsLogin
      <3> QED
        BY <2>2, <2>3, <3>1, <3>3 DEF SessionInv
    <2>9. \A r \in Sessions : Advances(r)
      BY <2>2, <2>3 DEF Advances
    <2>10. PollInv'
      <3> SUFFICES ASSUME NEW q \in Polls PROVE PollOK(polls[q])'
        BY DEF PollInv
      <3>1. CASE q = p
        BY <2>4, <3>1 DEF PollOK, IdlePoll
      <3>2. CASE q # p
        <4>1. PollOK(polls[q]) /\ (polls[q].pc # "idle" => Advances(polls[q].session))
          BY <2>9 DEF TokenInv, PollInv, PollOK
        <4> QED
          BY <1>2, <2>4, <3>2, <4>1 DEF PollOK, Advances, accounts
      <3> QED
        BY <3>1, <3>2
    <2>11. JtiInv'
      <3>1. polls[p].jti \in 1 .. lastJti
        BY <1>1 DEF PollOK
      <3>2. \A q \in Polls : polls'[q].pc = "consume" => q # p /\ polls'[q] = polls[q]
        BY <2>4 DEF IdlePoll
      <3>3. \A q \in Polls \ {p} : polls[q].pc = "consume" => polls[q].jti # t.jti
        BY <1>1, <2>5 DEF TokenInv, JtiInv
      <3> QED
        BY <1>2, <2>1, <2>5, <3>1, <3>2, <3>3 DEF TokenInv, JtiInv
    <2>12. TokenForCompleter' /\ ReleasedInTime'
      <3>1. \A r \in released : r.session # s /\ sessions'[r.session] = sessions[r.session]
        BY <2>2, <2>3 DEF TokenInv, TokenForCompleter, TypeOK, Release
      <3>2. [jti |-> t.jti, user |-> t.user] \in issued
        BY <1>1, <2>5 DEF PollOK
      <3>3. TokenForCompleter'
        <4> SUFFICES ASSUME NEW r \in released'
                     PROVE  /\ sessions'[r.session].status = "consumed"
                            /\ sessions'[r.session].user = r.user
                            /\ [jti |-> r.jti, user |-> r.user] \in issued
          BY <1>2 DEF TokenForCompleter
        <4>1. CASE r = t
          BY <2>2, <2>3, <2>5, <3>2, <4>1
        <4>2. CASE r \in released
          BY <3>1, <4>2 DEF TokenInv, TokenForCompleter
        <4> QED
          BY <2>1, <4>1, <4>2
      <3>4. ReleasedInTime'
        BY <2>1, <2>2, <2>3, <2>5, <3>1 DEF TokenInv, ReleasedInTime
      <3> QED
        BY <3>3, <3>4
    <2> QED
      BY <2>6, <2>7, <2>8, <2>10, <2>11, <2>12 DEF TokenInv
  <1> QED
    BY <1>3, <1>4

-----------------------------------------------------------------------------
(* The environment *)

LEMMA TickInv == ASSUME IInv, Tick PROVE IInv'
  <1> USE DEF IInv
  <1>1. UNCHANGED <<accounts, sessions, webVars, callbacks, polls, logVars, events>>
          /\ clock' = clock + 1
    BY DEF Tick
  <1>2. TypeOK'
    BY <1>1 DEF TypeOK, accounts, webVars, logVars
  <1>3. WebInv' /\ SessionInv'
    BY <1>1, WebKept, SessionKept DEF accounts, webVars, StatesStay
  <1>4. TokenInv'
    BY <1>1, TokenKept DEF accounts, Advances
  <1> QED
    BY <1>2, <1>3, <1>4

\* An account is enabled or disabled; the polls in flight take note.
LEMMA SetStatusInv ==
    ASSUME IInv, NEW users \in SUBSET Users, SetStatus(users)
    PROVE  IInv'
  <1> USE DEF IInv
  <1>1. /\ UNCHANGED <<clock, invited, sessions, webVars, callbacks, logVars>>
        /\ active' = users /\ events' \in Nat
    BY DEF SetStatus, CountEvent, TypeOK
  <1>2. ASSUME NEW p \in Polls
        PROVE  /\ polls'[p] \in Poll
               /\ polls'[p].pc = polls[p].pc /\ polls'[p].session = polls[p].session
               /\ polls'[p].user = polls[p].user /\ polls'[p].jti = polls[p].jti
               /\ polls[p].seen => polls'[p].seen
               /\ polls[p].pc # "idle" /\ polls[p].user \in users => polls'[p].seen
    <2>1. polls[p] \in Poll
      BY DEF TypeOK
    <2>2. polls'[p] = IF polls[p].pc = "idle" THEN polls[p]
                      ELSE [polls[p] EXCEPT !.seen = @ \/ polls[p].user \in users]
      BY DEF SetStatus
    <2>3. CASE polls[p].pc = "idle"
      BY <2>1, <2>2, <2>3
    <2>4. CASE polls[p].pc # "idle"
      <3> DEFINE b == polls[p].seen \/ polls[p].user \in users
      <3>1. polls[p].seen \in BOOLEAN
        BY <2>1 DEF Poll
      <3>2. b \in BOOLEAN /\ polls'[p] = [polls[p] EXCEPT !.seen = b]
        BY <2>2, <2>4, <3>1
      <3>3. (polls[p].seen => b) /\ (polls[p].user \in users => b)
        OBVIOUS
      <3> HIDE DEF b
      <3> QED
        BY <2>1, <3>2, <3>3 DEF Poll
    <2> QED
      BY <2>3, <2>4
  <1>3. polls' \in [Polls -> Poll]
    BY <1>2 DEF SetStatus
  <1>4. TypeOK'
    BY <1>1, <1>3 DEF TypeOK, webVars, logVars
  <1>5. WebInv' /\ SessionInv'
    BY <1>1, WebKept, SessionKept DEF webVars, StatesStay
  <1>6. PollInv'
    <2> SUFFICES ASSUME NEW p \in Polls PROVE PollOK(polls[p])'
      BY DEF PollInv
    <2>1. PollOK(polls[p])
      BY DEF TokenInv, PollInv
    <2> QED
      BY <1>1, <1>2, <2>1 DEF PollOK, logVars
  <1>7. JtiInv'
    BY <1>1, <1>2 DEF TokenInv, JtiInv, logVars
  <1>8. TokenForCompleter' /\ ReleasedInTime'
    BY <1>1 DEF TokenInv, TokenForCompleter, ReleasedInTime, logVars
  <1> QED
    BY <1>4, <1>5, <1>6, <1>7, <1>8 DEF TokenInv

\* Every step preserves the invariant.
LEMMA NextInv == IInv /\ [Next]_vars => IInv'
  <1> SUFFICES ASSUME IInv, [Next]_vars PROVE IInv'
    OBVIOUS
  <1>1. ASSUME NEW p \in Polls, AbortPoll(p) PROVE IInv'
    <2>1. events' \in Nat
      BY <1>1 DEF AbortPoll, CountEvent, IInv, TypeOK
    <2>2. polls' = [polls EXCEPT ![p] = IdlePoll] /\ UNCHANGED <<PollRest, logVars>>
      BY <1>1 DEF AbortPoll, PollRest, accounts
    <2> QED
      BY <2>1, <2>2, PollEndsInv
  <1>2. ASSUME NEW p \in Polls, PollNext(p) PROVE IInv'
    BY <1>2, PollPrincipalInv, PollRecordInv, PollConsumeInv DEF PollNext
  <1>3. ASSUME NEW u \in Users, EnableUser(u) \/ DisableUser(u) PROVE IInv'
    <2>1. active \cup {u} \in SUBSET Users /\ active \ {u} \in SUBSET Users
      BY DEF IInv, TypeOK
    <2> QED
      BY <1>3, <2>1, SetStatusInv DEF EnableUser, DisableUser
  <1>4. CASE UNCHANGED vars
    <2>1. UNCHANGED <<clock, accounts, sessions, webVars, callbacks, polls, logVars, events>>
      BY <1>4 DEF vars
    <2>2. TypeOK'
      BY <2>1 DEF IInv, TypeOK, accounts, webVars, logVars
    <2> QED
      BY <2>1, <2>2, WebKept, SessionKept, TokenKept
      DEF IInv, accounts, webVars, StatesStay, Advances
  <1> QED
    BY <1>1, <1>2, <1>3, <1>4, CreateAuthSessionInv, StartInv, ProviderAnswersInv,
       CallbackConsumeInv, CallbackNextInv, CallbackReadsInv, PollReadInv, TickInv
    DEF Next

\* The invariant holds throughout.
LEMMA Inductive == Spec => []IInv
  BY InitInv, NextInv, PTL DEF Spec

-----------------------------------------------------------------------------
(* Invariants *)

\* The type invariant holds.
THEOREM TypeCorrect == Spec => []TypeOK
  <1>1. IInv => TypeOK
    BY DEF IInv
  <1> QED
    BY <1>1, Inductive, PTL

\* The token that get_auth_session answers with is recorded and belongs to the user
\* whose browser completed the session, whatever browsers and polls race.
THEOREM TokensForCompleter == Spec => []TokenForCompleter
  <1>1. IInv => TokenForCompleter
    BY DEF IInv, TokenInv
  <1> QED
    BY <1>1, Inductive, PTL

\* consume_auth_session releases no token on a session that is over.
THEOREM ReleasesInTime == Spec => []ReleasedInTime
  <1>1. IInv => ReleasedInTime
    BY DEF IInv, TokenInv
  <1> QED
    BY <1>1, Inductive, PTL

\* A poll records a token only for an account that was active during that poll.
THEOREM AccountsFresh == Spec => []FreshAccount
  <1>1. IInv => FreshAccount
    BY DEF IInv, TokenInv, PollInv, PollOK, FreshAccount
  <1> QED
    BY <1>1, Inductive, PTL

\* A session is completed by a login that was started for it and is used up.
THEOREM CompletionsByTheirLogin == Spec => []CompletedByItsLogin
  <1>1. IInv => CompletedByItsLogin
    BY DEF IInv, SessionInv
  <1> QED
    BY <1>1, Inductive, PTL

\* However often a redirect is delivered, one callback works on its login state,
\* and none once a browser session came out of it.
THEOREM CallbacksOncePerState == Spec => []OneCallbackPerState
  <1>1. IInv => OneCallbackPerState
    BY DEF IInv, WebInv
  <1> QED
    BY <1>1, Inductive, PTL

\* No callback fails for want of the PKCE verifier of its login state.
THEOREM VerifiersKept == Spec => []VerifierKept
  <1>1. IInv => VerifierKept
    BY DEF IInv, WebInv, CallbackInv, CallbackOK, VerifierKept
  <1> QED
    BY <1>1, Inductive, PTL

-----------------------------------------------------------------------------
(* The login implements DeviceGrant *)

\* The only steps that write sessions or release tokens are these.
LEMMA SessionWrites ==
    ASSUME [Next]_vars
    PROVE  \/ UNCHANGED <<sessions, released>>
           \/ \E s \in Sessions : CreateAuthSession(s)
           \/ \E k \in Callbacks : CallbackComplete(k)
           \/ \E p \in Polls : PollConsume(p)
  <1> USE DEF logVars
  <1>1. CASE \/ \E x \in States, s \in Sessions \cup {NoSession} : AuthStart(x, s)
             \/ \E x \in States : CreateLoginState(x) \/ SetPrivateState(x) \/ AbortStart(x)
             \/ \E x \in States, u \in Users : ProviderAnswers(x, u)
    BY <1>1 DEF AuthStart, CreateLoginState, SetPrivateState, AbortStart, StartUnchanged,
                ProviderAnswers
  <1>2. CASE \E k \in Callbacks, m \in redirects, samePath \in BOOLEAN :
                CallbackConsume(k, m, samePath)
    BY <1>2 DEF CallbackConsume, CallbackUnchanged
  <1>3. ASSUME NEW k \in Callbacks, CallbackNext(k) \/ AbortCallback(k), ~CallbackComplete(k)
        PROVE  UNCHANGED <<sessions, released>>
    BY <1>3 DEF CallbackNext, CallbackExchange, CallbackResolve, CallbackFind, CallbackBrowser,
                CallbackUnchanged, AbortCallback
  <1>4. ASSUME NEW p \in Polls, PollNext(p) \/ AbortPoll(p), ~PollConsume(p)
        PROVE  UNCHANGED <<sessions, released>>
    BY <1>4 DEF PollNext, PollPrincipal, PollRecord, AbortPoll
  <1>5. CASE \E p \in Polls, s \in Sessions : PollRead(p, s)
    BY <1>5 DEF PollRead
  <1>6. CASE Tick \/ UNCHANGED vars \/ \E u \in Users : EnableUser(u) \/ DisableUser(u)
    BY <1>6 DEF Tick, vars, EnableUser, DisableUser, SetStatus
  <1> QED
    BY <1>1, <1>2, <1>3, <1>4, <1>5, <1>6 DEF Next

LEMMA GrantInitMaps == Init => AbstractGrant!GrantInit
  BY DEF Init, AbstractGrant!GrantInit, grantBar, handedBar

\* Every step is a step of DeviceGrant or leaves its variables alone.
LEMMA GrantStepMaps ==
    ASSUME IInv, [Next]_vars
    PROVE  [AbstractGrant!GrantNext]_AbstractGrant!grantVars
  <1> USE DEF IInv, TypeOK, SessionRow
  <1>1. CASE UNCHANGED <<sessions, released>>
    BY <1>1 DEF AbstractGrant!grantVars, grantBar, handedBar
  <1>2. ASSUME NEW s \in Sessions, CreateAuthSession(s)
        PROVE  AbstractGrant!Open(s)
    <2>1. UNCHANGED released
      BY <1>2 DEF CreateAuthSession, logVars
    <2>2. sessions[s].status = "absent" /\ sessions[s].user = NoUser
      BY <1>2 DEF CreateAuthSession, SessionInv
    <2>3. grantBar' = [grantBar EXCEPT ![s].state = "pending"]
      BY <1>2, <2>2 DEF CreateAuthSession, grantBar
    <2> QED
      BY <2>1, <2>2, <2>3 DEF AbstractGrant!Open, grantBar, handedBar
  <1>3. ASSUME NEW k \in Callbacks, CallbackComplete(k)
        PROVE  \/ \E s \in Sessions, u \in Users : AbstractGrant!Approve(s, u)
               \/ UNCHANGED <<sessions, released>>
    <2> DEFINE s == callbacks[k].session
               u == callbacks[k].user
    <2>1. UNCHANGED released
      BY <1>3 DEF CallbackComplete, CallbackUnchanged, logVars
    <2>2. CallbackOK(callbacks[k], invited) /\ callbacks[k].pc = "complete"
      BY <1>3 DEF CallbackComplete, CallbackStep, WebInv, CallbackInv
    <2>3. s \in Sessions
      BY <2>2 DEF CallbackOK
    <2>4. u \in Users
      <3>1. [state |-> callbacks[k].state, user |-> u] \in Login
        BY <2>2 DEF CallbackOK
      <3> QED
        BY <3>1 DEF Login
    <2>5. CASE Completable(s)
      <3>1. sessions' = [sessions EXCEPT ![s].status = "completed", ![s].user = u]
        BY <1>3, <2>5 DEF CallbackComplete
      <3> HIDE DEF s, u
      <3>2. grantBar' = [grantBar EXCEPT ![s] = [state |-> "approved", user |-> u]]
        BY <2>3, <3>1 DEF grantBar
      <3> QED
        BY <2>1, <2>3, <2>4, <2>5, <3>2
        DEF AbstractGrant!Approve, Completable, grantBar, handedBar
    <2> QED
      BY <1>3, <2>1, <2>5 DEF CallbackComplete
  <1>4. ASSUME NEW p \in Polls, PollConsume(p)
        PROVE  \/ \E s \in Sessions, t \in 1 .. MaxTokens : AbstractGrant!Redeem(s, t)
               \/ UNCHANGED <<sessions, released>>
    <2> DEFINE s == polls[p].session
               t == polls[p].jti
               r == [session |-> s, jti |-> t, user |-> polls[p].user, at |-> clock]
    <2>1. PollOK(polls[p]) /\ polls[p].pc = "consume"
      BY <1>4 DEF PollConsume, PollStep, TokenInv, PollInv
    <2>2. s \in Sessions /\ sessions[s].user = polls[p].user
      BY <2>1 DEF PollOK
    <2>3. t \in 1 .. MaxTokens /\ \A o \in released : o.jti # t
      <3>1. t \in 1 .. lastJti /\ lastJti \in Nat /\ lastJti <= MaxTokens
        BY <2>1 DEF PollOK, TokenInv, JtiInv
      <3>2. \A o \in released : o.jti # t
        BY <2>1 DEF TokenInv, JtiInv
      <3> HIDE DEF t
      <3> QED
        BY <3>1, <3>2, CliLoginAssumption
    <2>4. CASE Consumable(s)
      <3>1. /\ sessions' = [sessions EXCEPT ![s].status = "consumed"]
            /\ released' = released \cup {r}
        BY <1>4, <2>4 DEF PollConsume
      <3>2. r.session = s /\ r.jti = t /\ r.user = sessions[s].user
        BY <2>2
      <3> HIDE DEF r, t, s
      <3>3. grantBar' = [grantBar EXCEPT ![s].state = "consumed"]
        <4>1. /\ sessions'[s].status = "consumed" /\ sessions'[s].user = sessions[s].user
              /\ \A q \in Sessions \ {s} : sessions'[q] = sessions[q]
          BY <2>2, <3>1
        <4> QED
          BY <2>2, <4>1 DEF grantBar
      <3>4. handedBar' = handedBar \cup {[dev |-> s, user |-> grantBar[s].user, token |-> t]}
        BY <2>2, <3>1, <3>2 DEF handedBar, grantBar
      <3>5. grantBar[s].state = "approved" /\ \A h \in handedBar : h.token # t
        BY <2>2, <2>3, <2>4 DEF Consumable, grantBar, handedBar
      <3> QED
        BY <2>2, <2>3, <3>3, <3>4, <3>5 DEF AbstractGrant!Redeem
    <2> QED
      BY <1>4, <2>4 DEF PollConsume
  <1> QED
    BY <1>1, <1>2, <1>3, <1>4, SessionWrites
    DEF AbstractGrant!GrantNext, AbstractGrant!grantVars

\* The login of the CLI is a one-time grant, for every number of sessions, users,
\* browsers and polls: opened, completed by one user, redeemed once.
THEOREM Refinement == Spec => ImplementsGrant
  <1>1. IInv /\ [Next]_vars => [AbstractGrant!GrantNext]_AbstractGrant!grantVars
    BY GrantStepMaps
  <1> QED
    BY <1>1, GrantInitMaps, Inductive, PTL DEF ImplementsGrant, AbstractGrant!GrantSpec, Spec

=============================================================================
