-------------------------- MODULE DeviceFlowProofs --------------------------
(***************************************************************************)
(* Proofs about DeviceFlow for every set of users, repositories, devices   *)
(* and requests and every value of the bounds.                             *)
(***************************************************************************)
EXTENDS DeviceFlow, TLAPS

-----------------------------------------------------------------------------
(* The inductive invariant *)

\* What the columns of a row say of each other; the row's repository was live
\* when it was looked up, so its own row exists for ever.
RowInv ==
    \A d \in Devices :
        /\ devices[d].status # "absent" =>
              devices[d].repo \in Repos /\ repos[devices[d].repo].source # "none"
        /\ devices[d].status \in {"absent", "pending", "expired"} =>
              devices[d].user = NoUser
        /\ devices[d].status \in {"approved", "consumed"} =>
              devices[d].user \in Users
        /\ starts[d] # NoRepo =>
              devices[d].status = "absent" /\ repos[starts[d]].source # "none"

\* An approval in flight is about a row that exists, and what it has checked
\* stays witnessed.
ApprovalOK(x) ==
    /\ x.pc # "idle" =>
          /\ x.dev \in Devices
          /\ devices[x.dev].status # "absent"
          /\ x.user \in Users
          /\ devices[x.dev].repo \in Writable(repos, writers, x.user) => x.seen
    /\ x.pc = "checking" /\ x.check.ever # {} => x.seen
    /\ x.pc \in {"principal", "commit"} => x.seen \/ x.torn

ApprovalInv == \A a \in Approvals : ApprovalOK(approvals[a])

\* The states of a poll after the name was resolved, and those in between.
Resolved == {"check", "checking", "resource", "recheck", "rechecking", "record", "consume"}
Naming   == {"principal", "name"}

\* A poll past its first read holds the approver of a row that is approved or
\* that another poll has consumed meanwhile; what it has checked stays
\* witnessed; and for a repository that cannot be renamed the detour through
\* the name leads back to it.
PollOK(x) ==
    /\ x.pc # "idle" =>
          /\ x.dev \in Devices /\ devices[x.dev].status # "absent"
          /\ x.user \in activeUsers => x.userSeen
          /\ Writable(repos, writers, x.user) \subseteq x.repoSeen
    /\ x.pc \notin {"idle", "expire"} =>
          /\ devices[x.dev].status \in {"approved", "consumed"}
          /\ x.user = devices[x.dev].user
    /\ x.pc \in Resolved => x.target \in Repos
    /\ x.pc \in Resolved \cup {"name"} => x.userSeen
    /\ x.pc \in {"checking", "rechecking"} => x.check.ever \subseteq x.repoSeen
    /\ x.pc \in Resolved \ {"check", "checking"} => x.target \in x.repoSeen \/ x.torn
    /\ x.pc \in Naming /\ repos[devices[x.dev].repo].source = "rebac" =>
          x.name = repos[devices[x.dev].repo].name
    /\ x.pc \in Resolved /\ repos[devices[x.dev].repo].source = "rebac" =>
          x.target = devices[x.dev].repo

PollInv == \A p \in Polls : PollOK(polls[p])

\* A recorded token is in the log; no two requests and no release share a jti.
JtiInv ==
    /\ \A p \in Polls : polls[p].pc = "consume" =>
          /\ [jti |-> polls[p].jti, user |-> polls[p].user,
              repo |-> polls[p].target] \in issued
          /\ polls[p].jti \in 1 .. lastJti
          /\ \A t \in released : t.jti # polls[p].jti
          /\ \A q \in Polls \ {p} :
                polls[q].pc = "consume" => polls[q].jti # polls[p].jti
    /\ \A t \in released : t.jti \in 1 .. lastJti
    /\ lastJti <= MaxTokens

ReleaseInv ==
    /\ AtMostOneRelease
    /\ ReleasedToApprover
    /\ ReleasedIsRecorded
    /\ RebacTokenForRequested

IInv ==
    /\ TypeOK
    /\ DirWellFormed
    /\ RowInv
    /\ ApprovalInv
    /\ PollInv
    /\ JtiInv
    /\ ReleaseInv

-----------------------------------------------------------------------------
(* Initial states *)

LEMMA CheckTypes ==
    ASSUME NEW S
    PROVE  /\ NoCheck \in CheckRecord(S)
           /\ \A now \in SUBSET S : Begun(now) \in CheckRecord(S)
           /\ \A now \in SUBSET S, check \in CheckRecord(S) :
                 Noted(check, now) \in CheckRecord(S)
  <1>1. NoCheck \in CheckRecord(S)
    BY DEF NoCheck, CheckRecord
  <1>2. ASSUME NEW now \in SUBSET S PROVE Begun(now) \in CheckRecord(S)
    BY DEF Begun, CheckRecord
  <1>3. ASSUME NEW now \in SUBSET S, NEW check \in CheckRecord(S)
        PROVE  Noted(check, now) \in CheckRecord(S)
    <2>1. /\ check.ever \in SUBSET S /\ check.always \in SUBSET S
          /\ check.commits \in Nat
      BY DEF CheckRecord
    <2>2. /\ check.ever \cup now \in SUBSET S /\ check.always \cap now \in SUBSET S
          /\ check.commits + 1 \in Nat
      BY <2>1
    <2> QED
      BY <2>2 DEF Noted, CheckRecord
  <1> QED
    BY <1>1, <1>2, <1>3

LEMMA IdleTypes == IdlePoll \in Poll /\ IdleApproval \in Approval
  BY CheckTypes DEF IdlePoll, Poll, IdleApproval, Approval

\* A check that two commits did not tear allows only what held at some moment.
LEMMA OutcomeSeen ==
    ASSUME NEW check, NEW r, NEW got \in Outcomes(check, {r}), got # {}
    PROVE  /\ Torn(check) \in BOOLEAN
           /\ r \in check.ever \/ Torn(check)
  BY DEF Outcomes, Torn

LEMMA InitInv == Init => IInv
  <1> SUFFICES ASSUME Init PROVE IInv
    OBVIOUS
  <1> USE DeviceFlowAssumption, DirectoryAssumption DEF Init, DirInit
  <1>1. TypeOK
    BY IdleTypes DEF TypeOK, DirTypeOK, DeviceRow, NoRow
  <1>2. DirWellFormed
    BY DEF DirWellFormed
  <1>3. RowInv
    BY DEF RowInv, NoRow
  <1>4. ApprovalInv
    BY DEF ApprovalInv, ApprovalOK, IdleApproval
  <1>5. PollInv
    BY DEF PollInv, PollOK, IdlePoll, Resolved, Naming
  <1>6. JtiInv
    BY DEF JtiInv, IdlePoll
  <1>7. ReleaseInv
    BY DEF ReleaseInv, AtMostOneRelease, ReleasedToApprover, ReleasedIsRecorded,
           RebacTokenForRequested
  <1> QED
    BY <1>1, <1>2, <1>3, <1>4, <1>5, <1>6, <1>7 DEF IInv

-----------------------------------------------------------------------------
(* Steps of a request that change nothing but the request *)

\* Everything but the polls.
Rest == <<dirVars, clock, devices, starts, approvals, logVars>>

\* A poll that moves to a record that is again fine, without touching the
\* tables and without entering "consume", preserves the invariant.
LEMMA PollMoves ==
    ASSUME IInv, NEW p \in Polls, NEW x \in Poll, PollOK(x), x.pc # "consume",
           polls' = [polls EXCEPT ![p] = x], UNCHANGED Rest, events' \in Nat
    PROVE  IInv'
  <1> USE DEF IInv, Rest, dirVars, logVars
  <1>1. TypeOK'
    BY DEF TypeOK, DirTypeOK
  <1>2. DirWellFormed' /\ RowInv' /\ ApprovalInv'
    BY DEF DirWellFormed, WellFormed, RowInv, ApprovalInv, ApprovalOK
  <1>3. PollInv'
    BY DEF PollInv, PollOK, TypeOK
  <1>4. JtiInv'
    BY DEF JtiInv, TypeOK
  <1>5. ReleaseInv'
    BY DEF ReleaseInv, AtMostOneRelease, ReleasedToApprover, ReleasedIsRecorded,
           RebacTokenForRequested
  <1> QED
    BY <1>1, <1>2, <1>3, <1>4, <1>5

\* The same for an approval.
LEMMA ApprovalMoves ==
    ASSUME IInv, NEW a \in Approvals, NEW x \in Approval, ApprovalOK(x),
           approvals' = [approvals EXCEPT ![a] = x], events' \in Nat,
           UNCHANGED <<dirVars, clock, devices, starts, polls, logVars>>
    PROVE  IInv'
  <1> USE DEF IInv, dirVars, logVars
  <1>1. TypeOK'
    BY DEF TypeOK, DirTypeOK
  <1>2. DirWellFormed' /\ RowInv'
    BY DEF DirWellFormed, WellFormed, RowInv
  <1>3. ApprovalInv'
    BY DEF ApprovalInv, ApprovalOK, TypeOK
  <1>4. PollInv'
    BY DEF PollInv, PollOK
  <1>5. JtiInv' /\ ReleaseInv'
    BY DEF JtiInv, ReleaseInv, AtMostOneRelease, ReleasedToApprover,
           ReleasedIsRecorded, RebacTokenForRequested
  <1> QED
    BY <1>1, <1>2, <1>3, <1>4, <1>5

\* The reads of a poll.
LEMMA PollReadInv ==
    ASSUME IInv, NEW p \in Polls, NEW d \in Devices, PollRead(p, d)
    PROVE  IInv'
  <1> DEFINE seen == devices[d].user \in activeUsers
             able == Writable(repos, writers, devices[d].user)
             ok == \/ devices[d].status = "approved"
                   \/ devices[d].status = "pending" /\ Expired(d)
             next == [IdlePoll EXCEPT
                        !.pc = IF devices[d].status = "approved" THEN "repo"
                               ELSE "expire",
                        !.dev = d,
                        !.user = devices[d].user,
                        !.userSeen = seen,
                        !.repoSeen = able]
             x == IF ok THEN next ELSE IdlePoll
  <1>1. devices[d].status # "absent" /\ polls' = [polls EXCEPT ![p] = x]
    BY DEF PollRead, PollStep
  <1>2. UNCHANGED Rest /\ events' \in Nat
    BY DEF PollRead, PollUnchanged, Rest, IInv, TypeOK
  <1>3. next \in Poll
    <2>1. seen \in BOOLEAN /\ able \in SUBSET Repos
      BY DEF Writable
    <2>2. devices[d].user \in Users \cup {NoUser}
      BY DEF IInv, TypeOK, DeviceRow
    <2> DEFINE pc == IF devices[d].status = "approved" THEN "repo" ELSE "expire"
    <2>3. pc \in {"repo", "expire"}
      OBVIOUS
    <2> HIDE DEF seen, able, pc
    <2>4. [IdlePoll EXCEPT !.pc = pc, !.dev = d] \in Poll
      BY <2>3, IdleTypes DEF Poll
    <2>5. [IdlePoll EXCEPT !.pc = pc, !.dev = d, !.user = devices[d].user] \in Poll
      BY <2>2, <2>4 DEF Poll
    <2>6. [IdlePoll EXCEPT !.pc = pc, !.dev = d, !.user = devices[d].user,
                           !.userSeen = seen] \in Poll
      BY <2>1, <2>5 DEF Poll
    <2>7. [IdlePoll EXCEPT !.pc = pc, !.dev = d, !.user = devices[d].user,
                           !.userSeen = seen, !.repoSeen = able] \in Poll
      BY <2>1, <2>6 DEF Poll
    <2> QED
      BY <2>7 DEF pc
  <1>4. x \in Poll
    BY <1>3, IdleTypes
  <1>5. PollOK(x)
    <2>1. PollOK(IdlePoll)
      BY DEF PollOK, IdlePoll, Resolved, Naming
    <2>2. /\ next.pc = IF devices[d].status = "approved" THEN "repo" ELSE "expire"
          /\ next.dev = d /\ next.user = devices[d].user
          /\ next.userSeen = seen /\ next.repoSeen = able
      BY DEF IdlePoll
    <2> HIDE DEF next
    <2>3. PollOK(next)
      BY <1>1, <2>2 DEF PollOK, Resolved, Naming
    <2> QED
      BY <2>1, <2>3
  <1>6. x.pc # "consume"
    BY DEF IdlePoll
  <1> HIDE DEF x
  <1> QED
    BY <1>1, <1>2, <1>4, <1>5, <1>6, PollMoves

\* A step from `from' to `next' or to idle, where `next' is fine if the record
\* it replaces is.
LEMMA PollStepInv ==
    ASSUME IInv, NEW p \in Polls, NEW from, NEW ok \in BOOLEAN,
           NEW next \in Poll, PollStep(p, from, ok, next),
           ok => PollOK(next), next.pc # "consume",
           UNCHANGED <<devices, logVars>>, PollUnchanged
    PROVE  IInv'
  <1> DEFINE x == IF ok THEN next ELSE IdlePoll
  <1>1. x \in Poll /\ x.pc # "consume" /\ PollOK(x)
    BY IdleTypes DEF IdlePoll, PollOK, Resolved, Naming
  <1>2. polls' = [polls EXCEPT ![p] = x]
    BY DEF PollStep
  <1>3. UNCHANGED Rest /\ events' \in Nat
    BY DEF PollUnchanged, Rest, IInv, TypeOK
  <1> HIDE DEF x
  <1> QED
    BY <1>1, <1>2, <1>3, PollMoves

LEMMA PollRepositoryInv ==
    ASSUME IInv, NEW p \in Polls, PollRepository(p)
    PROVE  IInv'
  <1> DEFINE r == devices[polls[p].dev].repo
             next == [polls[p] EXCEPT !.pc = "principal", !.name = repos[r].name]
  <1>1. PollStep(p, "repo", Live(r), next)
    BY DEF PollRepository
  <1>2. polls[p].pc = "repo" /\ polls[p] \in Poll /\ PollOK(polls[p])
    BY <1>1 DEF PollStep, IInv, TypeOK, PollInv
  <1>3. r \in Repos
    BY <1>2 DEF IInv, RowInv, PollOK
  <1>4. repos[r].name \in Names \cup {NoName}
    BY <1>3 DEF IInv, TypeOK, DirTypeOK, RepoRow
  <1>5. next \in Poll
    BY <1>2, <1>4 DEF Poll
  <1>6. PollOK(next)
    BY <1>2 DEF PollOK, Resolved, Naming, Poll
  <1>7. next.pc # "consume"
    BY <1>2 DEF Poll
  <1>8. UNCHANGED <<devices, logVars>> /\ PollUnchanged
    BY DEF PollRepository
  <1>9. Live(r) \in BOOLEAN
    BY DEF Live
  <1> HIDE DEF next, r
  <1> QED
    BY <1>1, <1>5, <1>6, <1>7, <1>8, <1>9, PollStepInv


LEMMA PollPrincipalInv ==
    ASSUME IInv, NEW p \in Polls, PollPrincipal(p)
    PROVE  IInv'
  <1> DEFINE ok == polls[p].user \in activeUsers
             next == [polls[p] EXCEPT !.pc = "name"]
  <1>1. PollStep(p, "principal", ok, next)
    BY DEF PollPrincipal
  <1>2. polls[p].pc = "principal" /\ polls[p] \in Poll /\ PollOK(polls[p])
    BY <1>1 DEF PollStep, IInv, TypeOK, PollInv
  <1>3. next \in Poll /\ next.pc # "consume"
    BY <1>2 DEF Poll
  <1>4. ok => PollOK(next)
    BY <1>2 DEF PollOK, Resolved, Naming, Poll
  <1>5. UNCHANGED <<devices, logVars>> /\ PollUnchanged
    BY DEF PollPrincipal
  <1>6. ok \in BOOLEAN
    OBVIOUS
  <1> HIDE DEF next, ok
  <1> QED
    BY <1>1, <1>3, <1>4, <1>5, <1>6, PollStepInv

\* get_by_name returns the repository the name was read from, if that one
\* cannot be renamed: names are unique.
LEMMA PollResolveNameInv ==
    ASSUME IInv, NEW p \in Polls, PollResolveName(p)
    PROVE  IInv'
  <1>1. UNCHANGED <<devices, logVars>> /\ PollUnchanged
    BY DEF PollResolveName
  <1>2. polls[p].pc = "name" /\ polls[p] \in Poll /\ PollOK(polls[p])
    BY DEF PollResolveName, PollStep, IInv, TypeOK, PollInv
  <1>3. CASE PollStep(p, "name", FALSE, IdlePoll)
    BY <1>1, <1>3, IdleTypes, PollStepInv DEF IdlePoll
  <1>4. ASSUME NEW r \in LiveNamed(polls[p].name),
               PollStep(p, "name", TRUE, [polls[p] EXCEPT !.pc = "check", !.target = r])
        PROVE  IInv'
    <2> DEFINE next == [polls[p] EXCEPT !.pc = "check", !.target = r]
    <2>1. r \in Repos /\ Live(r) /\ repos[r].name = polls[p].name
      BY DEF LiveNamed
    <2>2. next \in Poll /\ next.pc # "consume"
      BY <1>2, <2>1 DEF Poll
    <2>3. repos[devices[polls[p].dev].repo].source = "rebac" =>
             r = devices[polls[p].dev].repo
      BY <1>2, <2>1 DEF PollOK, Naming, IInv, RowInv, DirWellFormed, WellFormed, Live
    <2>4. PollOK(next)
      BY <1>2, <2>1, <2>3 DEF PollOK, Resolved, Naming, Poll
    <2>5. PollStep(p, "name", TRUE, next) /\ TRUE \in BOOLEAN
      BY <1>4
    <2> HIDE DEF next
    <2> QED
      BY <1>1, <2>2, <2>4, <2>5, PollStepInv
  <1> QED
    BY <1>3, <1>4 DEF PollResolveName

\* The first SELECT of a check, and the lookup between the checks.
LEMMA PollCheckInv ==
    ASSUME IInv, NEW p \in Polls, PollCheck(p) \/ PollResource(p) \/ PollRecheck(p)
    PROVE  IInv'
  <1>1. UNCHANGED <<devices, logVars>> /\ PollUnchanged
    BY DEF PollCheck, PollResource, PollRecheck
  <1>2. polls[p] \in Poll /\ PollOK(polls[p])
    BY DEF IInv, TypeOK, PollInv
  <1>3. ASSUME NEW from, NEW to, PollBeginCheck(p, from, to),
               \/ from = "check" /\ to = "checking"
               \/ from = "recheck" /\ to = "rechecking"
        PROVE  IInv'
    <2> DEFINE ok == Live(polls[p].target)
               c == Begun(Writable(repos, writers, polls[p].user) \cap {polls[p].target})
               next == [polls[p] EXCEPT !.pc = to, !.check = c]
    <2>1. PollStep(p, from, ok, next) /\ polls[p].pc = from
      BY <1>3 DEF PollBeginCheck, PollStep
    <2>2. c \in CheckRecord(Repos)
      BY CheckTypes DEF Writable
    <2>3. c.ever \subseteq Writable(repos, writers, polls[p].user)
      BY DEF Begun
    <2>4. Writable(repos, writers, polls[p].user) \subseteq polls[p].repoSeen
      BY <1>2, <1>3, <2>1 DEF PollOK
    <2> HIDE DEF c
    <2>5. next \in Poll /\ next.pc # "consume" /\ ok \in BOOLEAN
      BY <1>2, <1>3, <2>2 DEF Poll, Live
    <2>6. PollOK(next)
      BY <1>2, <1>3, <2>1, <2>3, <2>4 DEF PollOK, Resolved, Naming, Poll
    <2> HIDE DEF next, ok
    <2> QED
      BY <1>1, <2>1, <2>5, <2>6, PollStepInv
  <1>4. CASE PollResource(p)
    <2> DEFINE ok == Live(polls[p].target)
               next == [polls[p] EXCEPT !.pc = "recheck"]
    <2>1. PollStep(p, "resource", ok, next) /\ polls[p].pc = "resource"
      BY <1>4 DEF PollResource, PollStep
    <2>2. next \in Poll /\ next.pc # "consume" /\ ok \in BOOLEAN
      BY <1>2 DEF Poll, Live
    <2>3. ok => PollOK(next)
      BY <1>2, <2>1 DEF PollOK, Resolved, Naming, Poll
    <2> HIDE DEF next, ok
    <2> QED
      BY <1>1, <2>1, <2>2, <2>3, PollStepInv
  <1> QED
    BY <1>3, <1>4 DEF PollCheck, PollRecheck

\* The answers: an allow was right at some moment of the check, or it is torn.
LEMMA PollCheckedInv ==
    ASSUME IInv, NEW p \in Polls, PollChecked(p) \/ PollRechecked(p)
    PROVE  IInv'
  <1>1. UNCHANGED <<devices, logVars>> /\ PollUnchanged
    BY DEF PollChecked, PollRechecked
  <1>2. polls[p] \in Poll /\ PollOK(polls[p])
    BY DEF IInv, TypeOK, PollInv
  <1>3. ASSUME NEW from \in {"checking", "rechecking"}, NEW to, NEW torn \in BOOLEAN,
               \/ from = "checking" /\ to = "resource"
               \/ from = "rechecking" /\ to = "record",
               NEW got \in Outcomes(polls[p].check, {polls[p].target}),
               PollStep(p, from, got # {},
                        [[polls[p] EXCEPT !.pc = to, !.torn = torn]
                            EXCEPT !.check = NoCheck]),
               polls[p].pc = from,
               Torn(polls[p].check) => torn \/ (from = "rechecking" /\ ~polls[p].torn)
        PROVE  IInv'
    <2> DEFINE next == [[polls[p] EXCEPT !.pc = to, !.torn = torn]
                           EXCEPT !.check = NoCheck]
    <2>1. next \in Poll /\ next.pc # "consume"
      BY <1>2, <1>3, CheckTypes DEF Poll
    <2>2. got # {} => polls[p].target \in polls[p].check.ever \/ Torn(polls[p].check)
      BY OutcomeSeen
    <2>3. /\ polls[p].check.ever \subseteq polls[p].repoSeen
          /\ from = "rechecking" => polls[p].target \in polls[p].repoSeen \/ polls[p].torn
      BY <1>2, <1>3 DEF PollOK, Resolved
    <2>4. got # {} => polls[p].target \in polls[p].repoSeen \/ torn
      BY <1>3, <2>2, <2>3
    <2>5. /\ next.pc = to /\ next.dev = polls[p].dev /\ next.user = polls[p].user
          /\ next.name = polls[p].name /\ next.target = polls[p].target
          /\ next.userSeen = polls[p].userSeen /\ next.repoSeen = polls[p].repoSeen
          /\ next.torn = torn
      BY <1>2 DEF Poll
    <2> HIDE DEF next
    <2>6. got # {} => PollOK(next)
      BY <1>2, <1>3, <2>4, <2>5 DEF PollOK, Resolved, Naming
    <2>7. (got # {}) \in BOOLEAN /\ PollStep(p, from, got # {}, next)
      BY <1>3 DEF next
    <2> QED
      BY <1>1, <2>1, <2>6, <2>7, PollStepInv
  <1>4. CASE PollChecked(p)
    <2> DEFINE t == Torn(polls[p].check)
    <2>1. t \in BOOLEAN
      BY DEF Torn
    <2>2. PICK got \in Outcomes(polls[p].check, {polls[p].target}) :
             PollStep(p, "checking", got # {},
                      [[polls[p] EXCEPT !.pc = "resource", !.torn = t]
                          EXCEPT !.check = NoCheck])
      BY <1>4 DEF PollChecked, PollEndCheck
    <2>3. polls[p].pc = "checking"
      BY <2>2 DEF PollStep
    <2>4. Torn(polls[p].check) => t
      OBVIOUS
    <2> HIDE DEF t
    <2> QED
      BY <1>3, <2>1, <2>2, <2>3, <2>4
  <1>5. CASE PollRechecked(p)
    <2> DEFINE t == polls[p].torn /\ Torn(polls[p].check)
    <2>1. t \in BOOLEAN
      BY DEF Torn
    <2>2. PICK got \in Outcomes(polls[p].check, {polls[p].target}) :
             PollStep(p, "rechecking", got # {},
                      [[polls[p] EXCEPT !.pc = "record", !.torn = t]
                          EXCEPT !.check = NoCheck])
      BY <1>2, <1>5 DEF PollRechecked, PollEndCheck, Poll
    <2>3. polls[p].pc = "rechecking"
      BY <2>2 DEF PollStep
    <2>4. Torn(polls[p].check) => t \/ ~polls[p].torn
      OBVIOUS
    <2> HIDE DEF t
    <2> QED
      BY <1>3, <2>1, <2>2, <2>3, <2>4
  <1> QED
    BY <1>4, <1>5

-----------------------------------------------------------------------------
(* The steps that write tokens *)

LEMMA PollRecordInv ==
    ASSUME IInv, NEW p \in Polls, PollRecord(p)
    PROVE  IInv'
  <1> DEFINE x == [polls[p] EXCEPT !.pc = "consume", !.jti = lastJti + 1]
             t == [jti |-> lastJti + 1, user |-> polls[p].user,
                   repo |-> polls[p].target]
  <1>1. /\ polls[p].pc = "record" /\ polls' = [polls EXCEPT ![p] = x]
        /\ lastJti < MaxTokens /\ lastJti' = lastJti + 1 /\ issued' = issued \cup {t}
    BY DEF PollRecord, PollStep
  <1>2. UNCHANGED <<dirVars, clock, devices, starts, approvals, released, events>>
    BY DEF PollRecord, PollUnchanged
  <1>3. polls[p] \in Poll /\ PollOK(polls[p]) /\ lastJti \in Nat
    BY DEF IInv, TypeOK, PollInv
  <1>4. t \in Token
    BY <1>1, <1>3 DEF IInv, RowInv, PollOK, Resolved, Token
  <1>5. x \in Poll /\ x.pc = "consume" /\ x.jti = lastJti + 1
             /\ x.user = polls[p].user /\ x.target = polls[p].target
    <2>1. lastJti + 1 \in Nat
      BY <1>3
    <2> DEFINE j == lastJti + 1
    <2> HIDE DEF j
    <2>2. LET y == [polls[p] EXCEPT !.pc = "consume", !.jti = j] IN
             /\ j \in Nat => y \in Poll
             /\ y.pc = "consume" /\ y.jti = j
             /\ y.user = polls[p].user /\ y.target = polls[p].target
      BY <1>3 DEF Poll
    <2> QED
      BY <2>1, <2>2 DEF j
  <1>6. PollOK(x)
    BY <1>1, <1>3 DEF PollOK, Resolved, Naming, Poll
  <1> HIDE DEF x
  <1>7. TypeOK'
    BY <1>1, <1>2, <1>3, <1>4, <1>5 DEF IInv, TypeOK, DirTypeOK, dirVars
  <1>8. DirWellFormed' /\ RowInv' /\ ApprovalInv'
    BY <1>2 DEF IInv, DirWellFormed, WellFormed, RowInv, ApprovalInv, ApprovalOK, dirVars
  <1>9. PollInv'
    BY <1>1, <1>2, <1>6 DEF IInv, PollInv, PollOK, TypeOK, dirVars
  <1>10. JtiInv'
    <2>1. \A q \in Polls : polls'[q] = IF q = p THEN x ELSE polls[q]
      BY <1>1 DEF IInv, TypeOK
    <2>2. [jti |-> x.jti, user |-> x.user, repo |-> x.target] \in issued'
      BY <1>1, <1>5
    <2> HIDE DEF t
    <2>3. lastJti' \in Nat /\ lastJti' <= MaxTokens /\ lastJti \in Nat
      BY <1>1, <1>3, DeviceFlowAssumption
    <2>4. \A s \in released' : s.jti \in 1 .. lastJti /\ s.jti \in 1 .. lastJti'
      BY <1>1, <1>2, <1>3 DEF IInv, JtiInv
    <2>5. \A q \in Polls : polls[q].pc = "consume" =>
             /\ polls[q].jti \in 1 .. lastJti /\ polls[q].jti \in 1 .. lastJti'
             /\ [jti |-> polls[q].jti, user |-> polls[q].user,
                 repo |-> polls[q].target] \in issued'
      BY <1>1, <1>3 DEF IInv, JtiInv
    <2>6. x.jti \in 1 .. lastJti' /\ x.jti \notin 1 .. lastJti
      BY <1>1, <1>3, <1>5
    <2>7. \A q \in Polls : polls'[q].pc = "consume" =>
             /\ [jti |-> polls'[q].jti, user |-> polls'[q].user,
                 repo |-> polls'[q].target] \in issued'
             /\ polls'[q].jti \in 1 .. lastJti'
             /\ \A s \in released' : s.jti # polls'[q].jti
      BY <1>2, <2>1, <2>2, <2>4, <2>5, <2>6 DEF IInv, JtiInv
    <2>8. \A q, o \in Polls : q # o /\ polls'[q].pc = "consume"
             /\ polls'[o].pc = "consume" => polls'[o].jti # polls'[q].jti
      BY <2>1, <2>5, <2>6 DEF IInv, JtiInv
    <2> QED
      BY <2>3, <2>4, <2>7, <2>8 DEF JtiInv
  <1>11. ReleaseInv'
    BY <1>1, <1>2 DEF IInv, ReleaseInv, AtMostOneRelease, ReleasedToApprover,
                      ReleasedIsRecorded, RebacTokenForRequested, dirVars
  <1> QED
    BY <1>7, <1>8, <1>9, <1>10, <1>11 DEF IInv

-----------------------------------------------------------------------------
(* Steps that write device rows *)

\* What no step undoes: a row exists for ever and keeps its repository, an
\* approved row keeps its approver, a consumed row does not change.
Advances(d) ==
    /\ devices[d].status # "absent" =>
          devices'[d].status # "absent" /\ devices'[d].repo = devices[d].repo
    /\ devices[d].status \in {"approved", "consumed"} =>
          /\ devices'[d].status \in {"approved", "consumed"}
          /\ devices'[d].user = devices[d].user
    /\ devices[d].status = "consumed" => devices'[d] = devices[d]

\* Requests go on as they are or end.
Idling ==
    /\ polls' \in [Polls -> Poll]
    /\ \A p \in Polls : polls'[p] = polls[p] \/ polls'[p] = IdlePoll
    /\ approvals' \in [Approvals -> Approval]
    /\ \A a \in Approvals : approvals'[a] = approvals[a] \/ approvals'[a] = IdleApproval

LEMMA RequestsSurvive ==
    ASSUME IInv, Idling, \A d \in Devices : Advances(d), UNCHANGED dirVars
    PROVE  ApprovalInv' /\ PollInv'
  <1> USE DEF IInv, dirVars
  <1>1. ASSUME NEW a \in Approvals PROVE ApprovalOK(approvals[a])'
    <2>1. CASE approvals'[a] = IdleApproval
      BY <2>1 DEF ApprovalOK, IdleApproval
    <2>2. CASE approvals'[a] = approvals[a]
      <3>1. ApprovalOK(approvals[a])
        BY DEF ApprovalInv
      <3>2. approvals[a].pc # "idle" => Advances(approvals[a].dev)
        BY <3>1 DEF ApprovalOK
      <3>3. Writable(repos, writers, approvals[a].user)'
               = Writable(repos, writers, approvals[a].user)
        BY <2>2 DEF Writable
      <3> QED
        BY <2>2, <3>1, <3>2, <3>3 DEF ApprovalOK, Advances
    <2> QED
      BY <2>1, <2>2 DEF Idling
  <1>2. ASSUME NEW p \in Polls PROVE PollOK(polls[p])'
    <2>1. CASE polls'[p] = IdlePoll
      BY <2>1 DEF PollOK, IdlePoll, Resolved, Naming
    <2>2. CASE polls'[p] = polls[p]
      <3>1. PollOK(polls[p])
        BY DEF PollInv
      <3>2. polls[p].pc # "idle" => Advances(polls[p].dev)
        BY <3>1 DEF PollOK
      <3> QED
        BY <2>2, <3>1, <3>2 DEF PollOK, Advances, Writable, Resolved, Naming
    <2> QED
      BY <2>1, <2>2 DEF Idling
  <1> QED
    BY <1>1, <1>2 DEF ApprovalInv, PollInv

\* A step that leaves the directory and the token log alone.
LEMMA QuietStep ==
    ASSUME IInv, Idling, \A d \in Devices : Advances(d),
           UNCHANGED <<dirVars, logVars>>, RowInv',
           clock' \in Nat, events' \in Nat, devices' \in [Devices -> DeviceRow],
           starts' \in [Devices -> Repos \cup {NoRepo}]
    PROVE  IInv'
  <1>1. TypeOK' /\ DirWellFormed'
    BY DEF IInv, TypeOK, DirTypeOK, DirWellFormed, WellFormed, Idling, dirVars, logVars
  <1>2. ApprovalInv' /\ PollInv'
    BY RequestsSurvive DEF dirVars
  <1>3. JtiInv'
    <2>1. \A p \in Polls : polls'[p].pc = "consume" => polls'[p] = polls[p]
      BY DEF Idling, IdlePoll
    <2> QED
      BY <2>1 DEF IInv, JtiInv, logVars
  <1>4. ReleaseInv'
    <2>1. \A t \in released : t.dev \in Devices
      BY DEF IInv, TypeOK, Release
    <2>2. \A t \in released : devices'[t.dev] = devices[t.dev]
      BY <2>1 DEF IInv, ReleaseInv, ReleasedToApprover, Advances
    <2> QED
      BY <2>2 DEF IInv, ReleaseInv, AtMostOneRelease, ReleasedToApprover,
                  ReleasedIsRecorded, RebacTokenForRequested, dirVars, logVars
  <1> QED
    BY <1>1, <1>2, <1>3, <1>4 DEF IInv

LEMMA StartInv ==
    ASSUME IInv, NEW d \in Devices,
           StartCreate(d) \/ (\E n \in Names : StartLookup(d, n)) \/ AbortStart(d)
    PROVE  IInv'
  <1> USE DEF IInv
  <1>1. Idling /\ UNCHANGED <<dirVars, logVars, clock>> /\ events' \in Nat
    BY DEF StartCreate, StartLookup, AbortStart, CountEvent, Idling, TypeOK
  <1>2. starts' \in [Devices -> Repos \cup {NoRepo}]
    BY DEF StartCreate, StartLookup, AbortStart, LiveNamed, TypeOK
  <1>3. devices' \in [Devices -> DeviceRow]
    BY DeviceFlowAssumption
    DEF StartCreate, StartLookup, AbortStart, TypeOK, DeviceRow
  <1>4. \A e \in Devices : Advances(e)
    BY DEF StartCreate, StartLookup, AbortStart, Advances, TypeOK, RowInv
  <1>5. RowInv'
    <2>1. CASE StartCreate(d)
      BY <2>1, DeviceFlowAssumption DEF StartCreate, RowInv, TypeOK, dirVars
    <2>2. CASE \E n \in Names : StartLookup(d, n)
      BY <2>2, DeviceFlowAssumption
      DEF StartLookup, RowInv, TypeOK, DirTypeOK, LiveNamed, Live, DirWellFormed,
          WellFormed, dirVars
    <2>3. CASE AbortStart(d)
      BY <2>3 DEF AbortStart, RowInv, TypeOK, dirVars
    <2> QED
      BY <2>1, <2>2, <2>3
  <1> QED
    BY <1>1, <1>2, <1>3, <1>4, <1>5, QuietStep DEF TypeOK

\* Every use of MarkExpired.
LEMMA ExpireInv ==
    ASSUME IInv, NEW d \in Devices, MarkExpired(d), Idling,
           UNCHANGED <<dirVars, clock, starts, logVars>>, events' \in Nat
    PROVE  IInv'
  <1> USE DEF IInv
  <1>1. devices' \in [Devices -> DeviceRow]
    BY DEF MarkExpired, TypeOK, DeviceRow
  <1>2. \A e \in Devices : Advances(e)
    BY DEF MarkExpired, Advances, TypeOK, DeviceRow
  <1>3. RowInv'
    BY DEF MarkExpired, RowInv, TypeOK, dirVars
  <1> QED
    BY <1>1, <1>2, <1>3, QuietStep DEF TypeOK

LEMMA PollExpireInv ==
    ASSUME IInv, NEW p \in Polls, PollExpire(p)
    PROVE  IInv'
  <1>1. polls[p].dev \in Devices
    BY DEF PollExpire, PollStep, IInv, PollInv, PollOK
  <1>2. Idling
    BY IdleTypes DEF PollExpire, PollStep, PollUnchanged, Idling, IInv, TypeOK
  <1> QED
    BY <1>1, <1>2, ExpireInv DEF PollExpire, PollUnchanged, IInv, TypeOK

LEMMA PreviewExpireInv ==
    ASSUME IInv, NEW d \in Devices, PreviewExpire(d)
    PROVE  IInv'
  <1>1. Idling
    BY DEF PreviewExpire, reqVars, Idling, IInv, TypeOK
  <1> QED
    BY <1>1, ExpireInv DEF PreviewExpire, reqVars, IInv, TypeOK

\* A step of an approval to `next' or to idle.
LEMMA ApprovalStepInv ==
    ASSUME IInv, NEW a \in Approvals, NEW from, NEW ok \in BOOLEAN,
           NEW next \in Approval, ApproveStep(a, from, ok, next),
           ok => ApprovalOK(next),
           UNCHANGED devices, ApproveUnchanged
    PROVE  IInv'
  <1> DEFINE x == IF ok THEN next ELSE IdleApproval
  <1>1. x \in Approval /\ ApprovalOK(x)
    BY IdleTypes DEF ApprovalOK, IdleApproval
  <1>2. approvals' = [approvals EXCEPT ![a] = x]
    BY DEF ApproveStep
  <1> HIDE DEF x
  <1> QED
    BY <1>1, <1>2, ApprovalMoves DEF ApproveUnchanged, IInv, TypeOK

\* A step that only moves on to its next call.
LEMMA ApprovalGoesOn ==
    ASSUME IInv, NEW a \in Approvals, NEW from, NEW ok \in BOOLEAN,
           NEW to \in {"expire", "repo", "check", "commit"},
           ApproveStep(a, from, ok, [approvals[a] EXCEPT !.pc = to]), from # "idle",
           to = "commit" => from = "principal",
           UNCHANGED devices, ApproveUnchanged
    PROVE  IInv'
  <1> DEFINE next == [approvals[a] EXCEPT !.pc = to]
  <1>1. approvals[a] \in Approval /\ ApprovalOK(approvals[a]) /\ approvals[a].pc = from
    BY DEF IInv, TypeOK, ApprovalInv, ApproveStep
  <1>2. next \in Approval
    BY <1>1 DEF Approval
  <1>3. ok => ApprovalOK(next)
    BY <1>1 DEF ApprovalOK, Approval
  <1> HIDE DEF next
  <1>4. ApproveStep(a, from, ok, next)
    BY DEF next
  <1> QED
    BY <1>2, <1>3, <1>4, ApprovalStepInv

LEMMA ApproveSessionInv ==
    ASSUME IInv, NEW a \in Approvals, NEW u \in Users, NEW d \in Devices,
           ApproveSession(a, u, d)
    PROVE  IInv'
  <1> DEFINE able == devices[d].repo \in Writable(repos, writers, u)
             x == [IdleApproval EXCEPT
                     !.pc = "read", !.dev = d, !.user = u, !.seen = able]
  <1>1. ApproveStep(a, "idle", TRUE, x) /\ devices[d].status # "absent"
    BY DEF ApproveSession
  <1>2. able \in BOOLEAN
    OBVIOUS
  <1>3. ApprovalOK(x)
    BY <1>1 DEF ApprovalOK, IdleApproval
  <1> HIDE DEF able
  <1>4. x \in Approval
    BY <1>2, IdleTypes DEF Approval, IdleApproval
  <1>5. UNCHANGED devices /\ ApproveUnchanged /\ TRUE \in BOOLEAN
    BY DEF ApproveSession
  <1> HIDE DEF x
  <1> QED
    BY <1>1, <1>3, <1>4, <1>5, ApprovalStepInv

\* The first SELECT of the approver's check.
LEMMA ApproveCheckInv ==
    ASSUME IInv, NEW a \in Approvals, ApproveCheck(a)
    PROVE  IInv'
  <1> DEFINE r == devices[approvals[a].dev].repo
             c == Begun(Writable(repos, writers, approvals[a].user) \cap {r})
             ok == Live(r)
             next == [approvals[a] EXCEPT !.pc = "checking", !.check = c]
  <1>1. ApproveStep(a, "check", ok, next) /\ UNCHANGED devices /\ ApproveUnchanged
    BY DEF ApproveCheck
  <1>2. approvals[a] \in Approval /\ ApprovalOK(approvals[a]) /\ approvals[a].pc = "check"
    BY <1>1 DEF IInv, TypeOK, ApprovalInv, ApproveStep
  <1>3. c \in CheckRecord(Repos)
    BY CheckTypes DEF Writable
  <1>4. c.ever # {} => approvals[a].seen
    BY <1>2 DEF Begun, ApprovalOK
  <1>5. ok \in BOOLEAN
    BY DEF Live
  <1> HIDE DEF c, ok
  <1>6. next \in Approval
    BY <1>2, <1>3 DEF Approval
  <1>7. ApprovalOK(next)
    BY <1>2, <1>4 DEF ApprovalOK, Approval
  <1> HIDE DEF next
  <1> QED
    BY <1>1, <1>5, <1>6, <1>7, ApprovalStepInv

\* Its answer.
LEMMA ApproveCheckedInv ==
    ASSUME IInv, NEW a \in Approvals, ApproveChecked(a)
    PROVE  IInv'
  <1> DEFINE r == devices[approvals[a].dev].repo
             t == Torn(approvals[a].check)
             next == [approvals[a] EXCEPT !.pc = "principal", !.check = NoCheck, !.torn = t]
  <1>1. PICK got \in Outcomes(approvals[a].check, {r}) :
           ApproveStep(a, "checking", got # {}, next)
    BY DEF ApproveChecked
  <1>2. UNCHANGED devices /\ ApproveUnchanged
    BY DEF ApproveChecked
  <1>3. /\ approvals[a] \in Approval /\ ApprovalOK(approvals[a])
        /\ approvals[a].pc = "checking"
    BY <1>1 DEF IInv, TypeOK, ApprovalInv, ApproveStep
  <1>4. t \in BOOLEAN
    BY DEF Torn
  <1>5. got # {} => approvals[a].seen \/ t
    BY <1>3, OutcomeSeen DEF ApprovalOK
  <1> HIDE DEF t
  <1>6. next \in Approval
    BY <1>3, <1>4, CheckTypes DEF Approval
  <1>7. got # {} => ApprovalOK(next)
    BY <1>3, <1>5 DEF ApprovalOK, Approval
  <1>8. (got # {}) \in BOOLEAN
    OBVIOUS
  <1> HIDE DEF next
  <1> QED
    BY <1>1, <1>2, <1>6, <1>7, <1>8, ApprovalStepInv

LEMMA ApproveCommitInv ==
    ASSUME IInv, NEW a \in Approvals, ApproveCommit(a)
    PROVE  IInv'
  <1> DEFINE d == approvals[a].dev
  <1> USE DEF IInv
  <1>1. approvals[a].pc = "commit" /\ d \in Devices /\ approvals[a].user \in Users
    BY DEF ApproveCommit, ApproveStep, ApprovalInv, ApprovalOK
  <1>2. Idling
    BY IdleTypes DEF ApproveCommit, ApproveStep, ApproveUnchanged, Idling, TypeOK
  <1>3. devices' = IF Approvable(d)
                   THEN [devices EXCEPT ![d].status = "approved",
                                        ![d].user = approvals[a].user]
                   ELSE devices
    BY DEF ApproveCommit
  <1>4. UNCHANGED <<dirVars, clock, starts, logVars, events>>
    BY DEF ApproveCommit, ApproveUnchanged
  <1> HIDE DEF d
  <1>5. devices' \in [Devices -> DeviceRow]
    <2> DEFINE row == [devices[d] EXCEPT !.status = "approved", !.user = approvals[a].user]
    <2>1. row \in DeviceRow
      BY <1>1 DEF TypeOK, DeviceRow
    <2>2. devices' = [devices EXCEPT ![d] = row] \/ devices' = devices
      BY <1>1, <1>3 DEF TypeOK
    <2> HIDE DEF row
    <2> QED
      BY <2>1, <2>2 DEF TypeOK
  <1>6. \A e \in Devices : Advances(e)
    BY <1>1, <1>3 DEF Approvable, Advances, TypeOK
  <1>7. RowInv'
    BY <1>1, <1>3, <1>4 DEF Approvable, RowInv, TypeOK, dirVars
  <1> QED
    BY <1>2, <1>4, <1>5, <1>6, <1>7, QuietStep DEF TypeOK

LEMMA ApproveNextInv ==
    ASSUME IInv, NEW a \in Approvals, ApproveNext(a)
    PROVE  IInv'
  <1> DEFINE d == approvals[a].dev
  <1>1. CASE ApproveRead(a)
    <2> DEFINE ok == devices[d].status = "pending"
               to == IF Expired(d) THEN "expire" ELSE "repo"
    <2>1. /\ ApproveStep(a, "read", ok, [approvals[a] EXCEPT !.pc = to])
          /\ UNCHANGED devices /\ ApproveUnchanged
      BY <1>1 DEF ApproveRead
    <2>2. ok \in BOOLEAN /\ to \in {"expire", "repo"}
      OBVIOUS
    <2> HIDE DEF ok, to
    <2> QED
      BY <2>1, <2>2, ApprovalGoesOn
  <1>2. CASE ApproveExpire(a)
    <2>1. d \in Devices
      BY <1>2 DEF ApproveExpire, ApproveStep, IInv, ApprovalInv, ApprovalOK
    <2>2. Idling
      BY <1>2, IdleTypes DEF ApproveExpire, ApproveStep, ApproveUnchanged, Idling, IInv, TypeOK
    <2> QED
      BY <1>2, <2>1, <2>2, ExpireInv DEF ApproveExpire, ApproveUnchanged, IInv, TypeOK
  <1>3. CASE ApproveRepository(a)
    <2> DEFINE ok == Live(devices[d].repo)
    <2>1. /\ ApproveStep(a, "repo", ok, [approvals[a] EXCEPT !.pc = "check"])
          /\ UNCHANGED devices /\ ApproveUnchanged
      BY <1>3 DEF ApproveRepository
    <2>2. ok \in BOOLEAN
      BY DEF Live
    <2> HIDE DEF ok
    <2> QED
      BY <2>1, <2>2, ApprovalGoesOn
  <1>4. CASE ApprovePrincipal(a)
    <2> DEFINE ok == approvals[a].user \in activeUsers
    <2>1. /\ ApproveStep(a, "principal", ok, [approvals[a] EXCEPT !.pc = "commit"])
          /\ UNCHANGED devices /\ ApproveUnchanged
      BY <1>4 DEF ApprovePrincipal
    <2>2. ok \in BOOLEAN
      OBVIOUS
    <2> HIDE DEF ok
    <2> QED
      BY <2>1, <2>2, ApprovalGoesOn
  <1> QED
    BY <1>1, <1>2, <1>3, <1>4, ApproveCheckInv, ApproveCheckedInv, ApproveCommitInv
    DEF ApproveNext

\* The UPDATE that decides between racing polls.
LEMMA PollConsumeInv ==
    ASSUME IInv, NEW p \in Polls, PollConsume(p)
    PROVE  IInv'
  <1> DEFINE d == polls[p].dev
             s == [dev |-> d, jti |-> polls[p].jti, user |-> polls[p].user,
                   repo |-> polls[p].target, at |-> clock]
  <1>1. polls[p].pc = "consume" /\ polls[p] \in Poll /\ PollOK(polls[p])
    BY DEF PollConsume, PollStep, IInv, TypeOK, PollInv
  <1>2. d \in Devices /\ polls[p].user = devices[d].user
    BY <1>1 DEF PollOK
  <1>3. Idling /\ polls'[p] = IdlePoll
    BY IdleTypes DEF PollConsume, PollStep, PollUnchanged, Idling, IInv, TypeOK
  <1>4. UNCHANGED <<dirVars, clock, starts, approvals, events, issued, lastJti>>
    BY DEF PollConsume, PollUnchanged
  <1>5. CASE ~Consumable(d)
    <2>1. UNCHANGED <<devices, released>>
      BY <1>5 DEF PollConsume
    <2>2. \A e \in Devices : Advances(e)
      BY <2>1 DEF Advances
    <2>3. RowInv'
      BY <1>4, <2>1 DEF IInv, RowInv, dirVars
    <2>4. UNCHANGED logVars
      BY <1>4, <2>1 DEF logVars
    <2> QED
      BY <1>3, <1>4, <2>1, <2>2, <2>3, <2>4, QuietStep DEF IInv, TypeOK
  <1>6. CASE Consumable(d)
    <2>1. /\ devices' = [devices EXCEPT ![d].status = "consumed"]
          /\ released' = released \cup {s}
      BY <1>6 DEF PollConsume
    <2>2. devices[d].status = "approved" /\ devices[d].user \in Users
      BY <1>2, <1>6 DEF Consumable, IInv, RowInv
    <2>3. s \in Release
      BY <1>1, <1>2, <2>2 DEF Release, Poll, PollOK, Resolved, IInv, TypeOK
    <2>4. /\ s.dev = d /\ s.jti = polls[p].jti /\ s.user = polls[p].user
          /\ s.repo = polls[p].target
      OBVIOUS
    <2>5. devices' \in [Devices -> DeviceRow]
      BY <1>2, <2>1 DEF IInv, TypeOK, DeviceRow
    <2>6. \A e \in Devices : Advances(e)
      BY <1>2, <2>1, <2>2 DEF Advances, IInv, TypeOK
    <2>7. \A t \in released : t.dev # d /\ devices'[t.dev] = devices[t.dev]
      BY <1>2, <2>1, <2>2 DEF IInv, ReleaseInv, ReleasedToApprover, TypeOK, Release
    <2>8. devices'[d].status = "consumed" /\ devices'[d].user = devices[d].user
             /\ devices'[d].repo = devices[d].repo
      BY <1>2, <2>1 DEF IInv, TypeOK, DeviceRow
    <2> HIDE DEF s
    <2>9. TypeOK' /\ DirWellFormed'
      BY <1>3, <1>4, <2>1, <2>3, <2>5
      DEF IInv, TypeOK, DirTypeOK, DirWellFormed, WellFormed, Idling, dirVars
    <2>10. RowInv'
      BY <1>2, <1>4, <2>1, <2>2 DEF IInv, RowInv, TypeOK, dirVars
    <2>11. ApprovalInv' /\ PollInv'
      BY <1>3, <1>4, <2>6, RequestsSurvive
    <2>12. JtiInv'
      <3>1. polls[p].jti \in 1 .. lastJti
        BY <1>1 DEF IInv, JtiInv
      <3>2. \A q \in Polls : polls'[q].pc = "consume" => q # p /\ polls'[q] = polls[q]
        BY <1>3 DEF Idling, IdlePoll
      <3>3. \A q \in Polls \ {p} : polls[q].pc = "consume" => polls[q].jti # s.jti
        BY <1>1, <2>4 DEF IInv, JtiInv
      <3> QED
        BY <1>4, <2>1, <2>4, <3>1, <3>2, <3>3 DEF IInv, JtiInv
    <2>13. ReleaseInv'
      <3>1. AtMostOneRelease'
        BY <2>1, <2>4, <2>7 DEF IInv, ReleaseInv, AtMostOneRelease
      <3>2. ReleasedToApprover'
        BY <1>2, <2>1, <2>4, <2>7, <2>8 DEF IInv, ReleaseInv, ReleasedToApprover
      <3>3. ReleasedIsRecorded'
        BY <1>1, <1>4, <2>1, <2>4 DEF IInv, JtiInv, ReleaseInv, ReleasedIsRecorded
      <3>4. RebacTokenForRequested'
        BY <1>1, <1>4, <2>1, <2>4, <2>7, <2>8
        DEF IInv, ReleaseInv, RebacTokenForRequested, PollOK, Resolved, dirVars
      <3> QED
        BY <3>1, <3>2, <3>3, <3>4 DEF ReleaseInv
    <2> QED
      BY <2>9, <2>10, <2>11, <2>12, <2>13 DEF IInv
  <1> QED
    BY <1>5, <1>6

LEMMA TickInv == ASSUME IInv, Tick PROVE IInv'
  <1>1. Idling /\ \A d \in Devices : Advances(d)
    BY DEF Tick, reqVars, Idling, Advances, IInv, TypeOK
  <1>2. RowInv'
    BY DEF Tick, reqVars, dirVars, IInv, RowInv
  <1> QED
    BY <1>1, <1>2, QuietStep DEF Tick, reqVars, IInv, TypeOK

LEMMA AbortInv == ASSUME IInv, Abort PROVE IInv'
  <1>1. ASSUME NEW a \in Approvals, AbortApproval(a) PROVE IInv'
    <2>1. ApprovalOK(IdleApproval)
      BY DEF ApprovalOK, IdleApproval
    <2>2. events' \in Nat
      BY <1>1 DEF AbortApproval, CountEvent, IInv, TypeOK
    <2> QED
      BY <1>1, <2>1, <2>2, IdleTypes, ApprovalMoves DEF AbortApproval
  <1>2. ASSUME NEW p \in Polls, AbortPoll(p) PROVE IInv'
    <2>1. PollOK(IdlePoll) /\ IdlePoll.pc # "consume"
      BY DEF PollOK, IdlePoll, Resolved, Naming
    <2>2. events' \in Nat
      BY <1>2 DEF AbortPoll, CountEvent, IInv, TypeOK
    <2> QED
      BY <1>2, <2>1, <2>2, IdleTypes, PollMoves DEF AbortPoll, Rest
  <1> QED
    BY <1>1, <1>2, StartInv DEF Abort

-----------------------------------------------------------------------------
(* Administrative writes *)

\* No write takes a repository's row or its origin away, and a row that
\* loreserver created keeps its name.
LEMMA DirectoryKeeps ==
    ASSUME DirTypeOK, DirWellFormed, AdminNext \/ RebacNext
    PROVE  /\ DirTypeOK' /\ DirWellFormed'
           /\ \A r \in Repos : repos[r].source # "none" =>
                 /\ repos'[r].source = repos[r].source
                 /\ repos[r].source = "rebac" => repos'[r].name = repos[r].name
  <1> USE DirectoryAssumption DEF DirWellFormed, DirTypeOK
  <1>1. CASE \E u \in Users : EnableUser(u) \/ DisableUser(u)
    BY <1>1 DEF EnableUser, DisableUser, WellFormed
  <1>2. CASE \E ws \in SUBSET (Users \X Repos) : ChangeAccess(ws)
    BY <1>2 DEF ChangeAccess, WellFormed
  <1>3. ASSUME NEW r \in Repos, NEW n \in Names, UpsertManual(r, n)
        PROVE  /\ DirTypeOK' /\ DirWellFormed'
               /\ \A q \in Repos : repos[q].source # "none" =>
                     /\ repos'[q].source = repos[q].source
                     /\ repos[q].source = "rebac" => repos'[q].name = repos[q].name
    <2>1. repos' \in [Repos -> RepoRow] /\ activeUsers' = activeUsers /\ writers' = writers
      BY <1>3 DEF UpsertManual, RepoRow
    <2>2. repos[r].source # "none" => repos[r].source = "manual"
      BY <1>3 DEF UpsertManual, RepoRow
    <2> QED
      BY <1>3, <2>1, <2>2 DEF UpsertManual, NameFree, WellFormed
  <1>4. ASSUME NEW r \in Repos, NEW n \in Names, CreateResource(r, n)
        PROVE  /\ DirTypeOK' /\ DirWellFormed'
               /\ \A q \in Repos : repos[q].source # "none" =>
                     /\ repos'[q].source = repos[q].source
                     /\ repos[q].source = "rebac" => repos'[q].name = repos[q].name
    <2>1. CASE Exists(r)
      BY <1>4, <2>1 DEF CreateResource, Exists, NameFree, WellFormed, RepoRow
    <2>2. CASE ~Exists(r)
      <3> DEFINE row == [status |-> "active", name |-> n, source |-> "rebac"]
      <3>1. repos' = [repos EXCEPT ![r] = row] /\ NameFree(r, n)
        BY <1>4, <2>2 DEF CreateResource, Exists
      <3>2. row \in RepoRow
        BY DEF RepoRow
      <3>3. DirTypeOK'
        BY <1>4, <3>1, <3>2 DEF CreateResource
      <3>4. \A q \in Repos : repos'[q] = IF q = r THEN row ELSE repos[q]
        BY <3>1
      <3>5. repos[r].source = "none"
        BY <2>2 DEF Exists, WellFormed
      <3>6. row.status = "active" /\ row.name = n /\ row.source = "rebac"
        OBVIOUS
      <3> HIDE DEF row
      <3>7. DirWellFormed'
        BY <3>1, <3>4, <3>6 DEF NameFree, WellFormed
      <3> QED
        BY <3>3, <3>4, <3>5, <3>7
    <2> QED
      BY <2>1, <2>2
  <1>5. CASE \E r \in Repos : DeleteResource(r)
    BY <1>5 DEF DeleteResource, Exists, WellFormed, RepoRow
  <1> QED
    BY <1>1, <1>2, <1>3, <1>4, <1>5 DEF AdminNext, RebacNext

LEMMA ObservedType ==
    ASSUME NEW x, x.check \in CheckRecord(Repos), NEW r
    PROVE  Observed(x, r) \in CheckRecord(Repos)
  <1>1. Writable(repos', writers', x.user) \cap {r} \in SUBSET Repos
    BY DEF Writable
  <1> QED
    BY <1>1, CheckTypes DEF Observed

\* A check in flight sees no more than what the write made possible.
LEMMA ObservedEver ==
    ASSUME NEW x, NEW r
    PROVE  \/ Observed(x, r).ever = x.check.ever
           \/ Observed(x, r).ever =
                 x.check.ever \cup (Writable(repos', writers', x.user) \cap {r})
  BY DEF Observed, Noted

LEMMA WitnessTypes ==
    ASSUME IInv, Witness
    PROVE  approvals' \in [Approvals -> Approval] /\ polls' \in [Polls -> Poll]
  <1>1. ASSUME NEW a \in Approvals PROVE approvals'[a] \in Approval
    <2> DEFINE r == devices[approvals[a].dev].repo
               b == approvals[a].seen \/ r \in Writable(repos', writers', approvals[a].user)
               c == Observed(approvals[a], r)
    <2>1. approvals[a] \in Approval /\ b \in BOOLEAN
      BY DEF IInv, TypeOK
    <2>2. c \in CheckRecord(Repos)
      BY <2>1, ObservedType DEF Approval
    <2>3. approvals'[a] = IF approvals[a].pc = "idle" THEN approvals[a]
                          ELSE [approvals[a] EXCEPT !.check = c, !.seen = b]
      BY <2>1 DEF Witness, Approval
    <2> HIDE DEF b, c
    <2> QED
      BY <2>1, <2>2, <2>3 DEF Approval
  <1>2. ASSUME NEW p \in Polls PROVE polls'[p] \in Poll
    <2> DEFINE b == polls[p].userSeen \/ polls[p].user \in activeUsers'
               w == polls[p].repoSeen \cup Writable(repos', writers', polls[p].user)
               c == Observed(polls[p], polls[p].target)
    <2>1. polls[p] \in Poll /\ b \in BOOLEAN
      BY DEF IInv, TypeOK
    <2>2. w \in SUBSET Repos
      BY <2>1 DEF Poll, Writable
    <2>3. c \in CheckRecord(Repos)
      BY <2>1, ObservedType DEF Poll
    <2>4. polls'[p] = IF polls[p].pc = "idle" THEN polls[p]
                      ELSE [polls[p] EXCEPT !.check = c, !.userSeen = b, !.repoSeen = w]
      BY <2>1 DEF Witness, Poll
    <2> HIDE DEF b, w, c
    <2>5. [polls[p] EXCEPT !.check = c] \in Poll
      BY <2>1, <2>3 DEF Poll
    <2>6. [[polls[p] EXCEPT !.check = c] EXCEPT !.userSeen = b] \in Poll
      BY <2>1, <2>5 DEF Poll
    <2>7. [[[polls[p] EXCEPT !.check = c] EXCEPT !.userSeen = b] EXCEPT !.repoSeen = w] \in Poll
      BY <2>2, <2>6 DEF Poll
    <2> QED
      BY <2>1, <2>4, <2>7
  <1> QED
    BY <1>1, <1>2 DEF Witness

\* What an update of the check and the history leaves of a request
LEMMA ApprovalFields ==
    ASSUME NEW x \in Approval, NEW c, NEW b
    PROVE  LET y == [x EXCEPT !.check = c, !.seen = b]
           IN  /\ y.pc = x.pc /\ y.dev = x.dev /\ y.user = x.user /\ y.torn = x.torn
               /\ y.check = c /\ y.seen = b
  BY DEF Approval

LEMMA PollFields ==
    ASSUME NEW x \in Poll, NEW c, NEW b, NEW w
    PROVE  LET y == [x EXCEPT !.check = c, !.userSeen = b, !.repoSeen = w]
           IN  /\ y.pc = x.pc /\ y.dev = x.dev /\ y.user = x.user /\ y.name = x.name
               /\ y.target = x.target /\ y.jti = x.jti /\ y.torn = x.torn
               /\ y.check = c /\ y.userSeen = b /\ y.repoSeen = w
  BY DEF Poll

\* What Witness leaves of a request, and what it adds.
LEMMA WitnessKeeps ==
    ASSUME IInv, Witness
    PROVE  /\ \A a \in Approvals :
                /\ approvals'[a].pc = approvals[a].pc
                /\ approvals'[a].dev = approvals[a].dev
                /\ approvals'[a].user = approvals[a].user
                /\ approvals[a].pc # "idle" =>
                     (approvals'[a].seen <=>
                        \/ approvals[a].seen
                        \/ devices[approvals[a].dev].repo
                              \in Writable(repos', writers', approvals[a].user))
                /\ approvals[a].pc # "idle" =>
                     approvals'[a].check =
                        Observed(approvals[a], devices[approvals[a].dev].repo)
                /\ approvals'[a].torn = approvals[a].torn
                /\ approvals[a].pc = "idle" => approvals'[a] = approvals[a]
           /\ \A p \in Polls :
                /\ polls'[p].pc = polls[p].pc
                /\ polls'[p].dev = polls[p].dev
                /\ polls'[p].user = polls[p].user
                /\ polls'[p].name = polls[p].name
                /\ polls'[p].target = polls[p].target
                /\ polls'[p].jti = polls[p].jti
                /\ polls'[p].torn = polls[p].torn
                /\ polls[p].pc = "idle" => polls'[p] = polls[p]
                /\ polls[p].pc # "idle" =>
                     /\ polls'[p].check = Observed(polls[p], polls[p].target)
                     /\ polls'[p].userSeen <=>
                           polls[p].userSeen \/ polls[p].user \in activeUsers'
                     /\ polls'[p].repoSeen = polls[p].repoSeen
                           \cup Writable(repos', writers', polls[p].user)
  <1>1. ASSUME NEW a \in Approvals
        PROVE  /\ approvals'[a].pc = approvals[a].pc
               /\ approvals'[a].dev = approvals[a].dev
               /\ approvals'[a].user = approvals[a].user
               /\ approvals[a].pc # "idle" =>
                    (approvals'[a].seen <=>
                       \/ approvals[a].seen
                       \/ devices[approvals[a].dev].repo
                             \in Writable(repos', writers', approvals[a].user))
               /\ approvals[a].pc # "idle" =>
                    approvals'[a].check =
                       Observed(approvals[a], devices[approvals[a].dev].repo)
               /\ approvals'[a].torn = approvals[a].torn
               /\ approvals[a].pc = "idle" => approvals'[a] = approvals[a]
    <2> DEFINE r == devices[approvals[a].dev].repo
               b == approvals[a].seen \/ r \in Writable(repos', writers', approvals[a].user)
               c == Observed(approvals[a], r)
    <2>1. approvals[a] \in Approval
      BY DEF IInv, TypeOK
    <2>2. approvals'[a] = IF approvals[a].pc = "idle" THEN approvals[a]
                          ELSE [approvals[a] EXCEPT !.check = c, !.seen = b]
      BY <2>1 DEF Witness, Approval
    <2>3. approvals[a].pc = "idle" => approvals'[a] = approvals[a]
      BY <2>2
    <2>4. approvals[a].pc # "idle" =>
             /\ approvals'[a].pc = approvals[a].pc /\ approvals'[a].dev = approvals[a].dev
             /\ approvals'[a].user = approvals[a].user
             /\ approvals'[a].torn = approvals[a].torn
             /\ approvals'[a].check = c /\ approvals'[a].seen = b
      <3> HIDE DEF b, c
      <3> QED
        BY <2>1, <2>2, ApprovalFields
    <2> QED
      BY <2>3, <2>4
  <1>2. ASSUME NEW p \in Polls
        PROVE  /\ polls'[p].pc = polls[p].pc
               /\ polls'[p].dev = polls[p].dev
               /\ polls'[p].user = polls[p].user
               /\ polls'[p].name = polls[p].name
               /\ polls'[p].target = polls[p].target
               /\ polls'[p].jti = polls[p].jti
               /\ polls'[p].torn = polls[p].torn
               /\ polls[p].pc = "idle" => polls'[p] = polls[p]
               /\ polls[p].pc # "idle" =>
                    /\ polls'[p].check = Observed(polls[p], polls[p].target)
                    /\ polls'[p].userSeen <=>
                          polls[p].userSeen \/ polls[p].user \in activeUsers'
                    /\ polls'[p].repoSeen = polls[p].repoSeen
                          \cup Writable(repos', writers', polls[p].user)
    <2> DEFINE b == polls[p].userSeen \/ polls[p].user \in activeUsers'
               w == polls[p].repoSeen \cup Writable(repos', writers', polls[p].user)
               c == Observed(polls[p], polls[p].target)
    <2>1. polls[p] \in Poll
      BY DEF IInv, TypeOK
    <2>2. polls'[p] = IF polls[p].pc = "idle" THEN polls[p]
                      ELSE [polls[p] EXCEPT !.check = c, !.userSeen = b, !.repoSeen = w]
      BY <2>1 DEF Witness, Poll
    <2>3. polls[p].pc = "idle" => polls'[p] = polls[p]
      BY <2>2
    <2>4. polls[p].pc # "idle" =>
             /\ polls'[p].pc = polls[p].pc /\ polls'[p].dev = polls[p].dev
             /\ polls'[p].user = polls[p].user /\ polls'[p].name = polls[p].name
             /\ polls'[p].target = polls[p].target /\ polls'[p].jti = polls[p].jti
             /\ polls'[p].torn = polls[p].torn
             /\ polls'[p].check = c /\ polls'[p].userSeen = b /\ polls'[p].repoSeen = w
      <3> HIDE DEF b, w, c
      <3> QED
        BY <2>1, <2>2, PollFields
    <2> QED
      BY <2>3, <2>4
  <1> QED
    BY <1>1, <1>2

LEMMA AdminWriteInv == ASSUME IInv, AdminWrite PROVE IInv'
  <1>1. UNCHANGED <<clock, devices, starts, logVars>> /\ Witness
    BY DEF AdminWrite
  <1>2. /\ DirTypeOK' /\ DirWellFormed'
        /\ \A r \in Repos : repos[r].source # "none" =>
              /\ repos'[r].source = repos[r].source
              /\ repos[r].source = "rebac" => repos'[r].name = repos[r].name
    BY DirectoryKeeps DEF AdminWrite, IInv, TypeOK
  <1>3. events' \in Nat
    BY DEF AdminWrite, CountEvent, IInv, TypeOK
  <1>4. TypeOK'
    BY <1>1, <1>2, <1>3, WitnessTypes DEF IInv, TypeOK, logVars
  <1>5. RowInv'
    BY <1>1, <1>2 DEF IInv, RowInv, TypeOK
  <1>6. ApprovalInv'
    <2> SUFFICES ASSUME NEW a \in Approvals PROVE ApprovalOK(approvals[a])'
      BY DEF ApprovalInv
    <2>1. ApprovalOK(approvals[a])
      BY DEF IInv, ApprovalInv
    <2>2. approvals'[a].pc = "checking" /\ approvals'[a].check.ever # {} =>
             approvals'[a].seen
      BY <1>1, <2>1, WitnessKeeps, ObservedEver DEF ApprovalOK
    <2> QED
      BY <1>1, <2>1, <2>2, WitnessKeeps DEF ApprovalOK
  <1>7. PollInv'
    <2> SUFFICES ASSUME NEW p \in Polls PROVE PollOK(polls[p])'
      BY DEF PollInv
    <2>1. PollOK(polls[p])
      BY DEF IInv, PollInv
    <2>2. polls[p].pc # "idle" =>
             LET r == devices[polls[p].dev].repo IN
             /\ r \in Repos /\ repos'[r].source = repos[r].source
             /\ repos[r].source = "rebac" => repos'[r].name = repos[r].name
      BY <1>2, <2>1 DEF PollOK, IInv, RowInv
    <2>3. polls'[p].pc \in {"checking", "rechecking"} =>
             polls'[p].check.ever \subseteq polls'[p].repoSeen
      BY <1>1, <2>1, WitnessKeeps, ObservedEver DEF PollOK
    <2> QED
      BY <1>1, <2>1, <2>2, <2>3, WitnessKeeps DEF PollOK, Resolved, Naming
  <1>8. JtiInv'
    BY <1>1, WitnessKeeps DEF IInv, JtiInv, logVars
  <1>9. ReleaseInv'
    <2>1. \A t \in released : LET r == devices[t.dev].repo IN
             r \in Repos /\ repos'[r].source = repos[r].source
      BY <1>2 DEF IInv, TypeOK, Release, RowInv, ReleaseInv, ReleasedToApprover
    <2> QED
      BY <1>1, <2>1 DEF IInv, ReleaseInv, AtMostOneRelease, ReleasedToApprover,
                        ReleasedIsRecorded, RebacTokenForRequested, logVars
  <1> QED
    BY <1>2, <1>4, <1>5, <1>6, <1>7, <1>8, <1>9 DEF IInv

-----------------------------------------------------------------------------
(* The theorems *)

LEMMA NextInv == IInv /\ [Next]_vars => IInv'
  <1> SUFFICES ASSUME IInv, [Next]_vars PROVE IInv'
    OBVIOUS
  <1>1. CASE \E d \in Devices, n \in Names : StartLookup(d, n)
    BY <1>1, StartInv
  <1>2. CASE \E d \in Devices : StartCreate(d) \/ PreviewExpire(d)
    BY <1>2, StartInv, PreviewExpireInv
  <1>3. CASE \E a \in Approvals, u \in Users, d \in Devices : ApproveSession(a, u, d)
    BY <1>3, ApproveSessionInv
  <1>4. CASE \E a \in Approvals : ApproveNext(a)
    BY <1>4, ApproveNextInv
  <1>5. CASE \E p \in Polls, d \in Devices : PollRead(p, d)
    BY <1>5, PollReadInv
  <1>6. ASSUME NEW p \in Polls, PollNext(p) PROVE IInv'
    BY <1>6, PollExpireInv, PollRepositoryInv, PollPrincipalInv, PollResolveNameInv,
       PollCheckInv, PollCheckedInv, PollRecordInv, PollConsumeInv DEF PollNext
  <1>7. CASE Tick
    BY <1>7, TickInv
  <1>8. CASE AdminWrite
    BY <1>8, AdminWriteInv
  <1>9. CASE Abort
    BY <1>9, AbortInv
  <1>10. CASE UNCHANGED vars
    <2> USE <1>10 DEF vars, dirVars, reqVars, logVars, IInv
    <2>1. TypeOK' /\ DirWellFormed' /\ RowInv'
      BY DEF TypeOK, DirTypeOK, DirWellFormed, WellFormed, RowInv
    <2>2. ApprovalInv'
      BY DEF ApprovalInv, ApprovalOK, Writable
    <2>3. PollInv'
      BY DEF PollInv, PollOK, Writable
    <2>4. JtiInv' /\ ReleaseInv'
      BY DEF JtiInv, ReleaseInv, AtMostOneRelease, ReleasedToApprover,
             ReleasedIsRecorded, RebacTokenForRequested
    <2> QED
      BY <2>1, <2>2, <2>3, <2>4
  <1> QED
    BY <1>1, <1>2, <1>3, <1>4, <1>5, <1>6, <1>7, <1>8, <1>9, <1>10 DEF Next

\* The inductive invariant holds in every reachable state.
THEOREM Inductive == Spec => []IInv
  BY InitInv, NextInv, PTL DEF Spec

\* Type correctness of the device flow, whatever the bounds.
THEOREM TypeCorrect == Spec => []TypeOK
  <1>1. IInv => TypeOK
    BY DEF IInv
  <1> QED
    BY <1>1, Inductive, PTL

\* Racing, aborted and retried polls release at most one token for a code.
THEOREM OneRelease == Spec => []AtMostOneRelease
  <1>1. IInv => AtMostOneRelease
    BY DEF IInv, ReleaseInv
  <1> QED
    BY <1>1, Inductive, PTL

\* A released token belongs to the approver on the consumed row.
THEOREM ReleaseToApprover == Spec => []ReleasedToApprover
  <1>1. IInv => ReleasedToApprover
    BY DEF IInv, ReleaseInv
  <1> QED
    BY <1>1, Inductive, PTL

\* A released token is in issued_tokens.
THEOREM ReleaseRecorded == Spec => []ReleasedIsRecorded
  <1>1. IInv => ReleasedIsRecorded
    BY DEF IInv, ReleaseInv
  <1> QED
    BY <1>1, Inductive, PTL

\* A poll signs only for an approver who was active and able to write at some
\* moment of the poll, unless commits of lore-authctl tore both of its checks.
THEOREM FreshAuthorization == Spec => []FreshlyAuthorized
  <1>1. IInv => FreshlyAuthorized
    BY DEF IInv, PollInv, PollOK, Resolved, FreshlyAuthorized
  <1> QED
    BY <1>1, Inductive, PTL

\* For a repository that loreserver registered, the detour through the name
\* in manual_mint_authz comes back to the repository that was approved.
THEOREM RebacToken == Spec => []RebacTokenForRequested
  <1>1. IInv => RebacTokenForRequested
    BY DEF IInv, ReleaseInv
  <1> QED
    BY <1>1, Inductive, PTL

\* The repositories table keeps its names unique, deleted rows included.
THEOREM DirectoryWellFormed == Spec => []DirWellFormed
  <1>1. IInv => DirWellFormed
    BY DEF IInv
  <1> QED
    BY <1>1, Inductive, PTL

-----------------------------------------------------------------------------
(* What one step may do to a device row *)

\* The only steps that write device rows are these.
LEMMA DeviceWrites ==
    ASSUME IInv, [Next]_vars
    PROVE  \/ UNCHANGED devices
           \/ \E d \in Devices : StartCreate(d)
           \/ \E d \in Devices : MarkExpired(d)
           \/ \E a \in Approvals : ApproveCommit(a)
           \/ \E p \in Polls : PollConsume(p)
  <1>1. CASE \E d \in Devices, n \in Names : StartLookup(d, n)
    BY <1>1 DEF StartLookup
  <1>2. CASE \E d \in Devices : StartCreate(d) \/ PreviewExpire(d)
    BY <1>2 DEF PreviewExpire
  <1>3. CASE \E a \in Approvals, u \in Users, d \in Devices : ApproveSession(a, u, d)
    BY <1>3 DEF ApproveSession
  <1>4. ASSUME NEW a \in Approvals, ApproveNext(a), ~ApproveCommit(a)
        PROVE  UNCHANGED devices \/ \E d \in Devices : MarkExpired(d)
    <2>1. CASE ApproveExpire(a)
      BY <2>1 DEF ApproveExpire, ApproveStep, IInv, ApprovalInv, ApprovalOK
    <2> QED
      BY <1>4, <2>1 DEF ApproveNext, ApproveRead, ApproveRepository, ApproveCheck,
                        ApproveChecked, ApprovePrincipal
  <1>5. CASE \E p \in Polls, d \in Devices : PollRead(p, d)
    BY <1>5 DEF PollRead
  <1>6. ASSUME NEW p \in Polls, PollNext(p), ~PollConsume(p)
        PROVE  UNCHANGED devices \/ \E d \in Devices : MarkExpired(d)
    <2>1. CASE PollExpire(p)
      BY <2>1 DEF PollExpire, PollStep, IInv, PollInv, PollOK
    <2> QED
      BY <1>6, <2>1 DEF PollNext, PollRepository, PollPrincipal, PollResolveName,
                        PollCheck, PollChecked, PollResource, PollRecheck,
                        PollRechecked, PollRecord
  <1>7. CASE Tick \/ AdminWrite \/ Abort
    BY <1>7 DEF Tick, AdminWrite, Abort, AbortStart, AbortApproval, AbortPoll
  <1>8. CASE UNCHANGED vars
    BY <1>8 DEF vars
  <1> QED
    BY <1>1, <1>2, <1>3, <1>4, <1>5, <1>6, <1>7, <1>8 DEF Next

LEMMA ApproverStableStep ==
    ASSUME IInv, [Next]_vars, NEW d \in Devices, devices[d].user # NoUser
    PROVE  devices'[d].user = devices[d].user /\ devices'[d].repo = devices[d].repo
  <1> USE DEF IInv, TypeOK, DeviceRow
  <1>0. devices[d].status \in {"approved", "consumed"}
    BY DEF RowInv
  <1>1. CASE UNCHANGED devices
    BY <1>1
  <1>2. ASSUME NEW e \in Devices, StartCreate(e) \/ MarkExpired(e)
        PROVE  devices'[d].user = devices[d].user /\ devices'[d].repo = devices[d].repo
    BY <1>0, <1>2 DEF StartCreate, MarkExpired, RowInv
  <1>3. ASSUME NEW a \in Approvals, ApproveCommit(a)
        PROVE  devices'[d].user = devices[d].user /\ devices'[d].repo = devices[d].repo
    BY <1>0, <1>3 DEF ApproveCommit, Approvable
  <1>4. ASSUME NEW p \in Polls, PollConsume(p)
        PROVE  devices'[d].user = devices[d].user /\ devices'[d].repo = devices[d].repo
    BY <1>0, <1>4 DEF PollConsume
  <1> QED
    BY <1>1, <1>2, <1>3, <1>4, DeviceWrites

\* Of two approvals that race for one code the first to commit wins, and the
\* approver and the repository of a row never change after it.
THEOREM ApproverIsStable == Spec => ApproverStable
  <1>1. IInv /\ [Next]_vars =>
          [\A d \in Devices : devices[d].user # NoUser =>
              /\ devices'[d].user = devices[d].user
              /\ devices'[d].repo = devices[d].repo]_vars
    BY ApproverStableStep
  <1> QED
    BY <1>1, Inductive, PTL DEF ApproverStable, Spec

LEMMA ApprovedByWriterStep ==
    ASSUME IInv, [Next]_vars, NEW d \in Devices,
           devices[d].status # "approved", devices'[d].status = "approved"
    PROVE  /\ clock < devices[d].expires
           /\ \E a \in Approving(d) : approvals[a].seen \/ approvals[a].torn
  <1> USE DEF IInv, TypeOK
  <1>1. PICK a \in Approvals : ApproveCommit(a)
    <2>1. \A e \in Devices : ~StartCreate(e) /\ ~MarkExpired(e)
      BY DEF StartCreate, MarkExpired, DeviceRow
    <2>2. ASSUME NEW p \in Polls, PollConsume(p) PROVE FALSE
      <3>1. \/ devices' = devices
            \/ devices' = [devices EXCEPT ![polls[p].dev].status = "consumed"]
        BY <2>2 DEF PollConsume
      <3> QED
        BY <3>1 DEF DeviceRow
    <2> QED
      BY <2>1, <2>2, DeviceWrites
  <1>2. approvals[a].pc = "commit" /\ ApprovalOK(approvals[a])
    BY <1>1 DEF ApproveCommit, ApproveStep, ApprovalInv
  <1>3. approvals[a].dev = d /\ Approvable(d)
    BY <1>1, <1>2 DEF ApproveCommit, ApprovalOK
  <1>4. /\ devices'[d].user = approvals[a].user
        /\ approvals[a].seen \/ approvals[a].torn
    BY <1>1, <1>2, <1>3 DEF ApproveCommit, ApprovalOK, DeviceRow
  <1>5. clock < devices[d].expires
    BY <1>3 DEF Approvable, Expired, DeviceRow
  <1> QED
    BY <1>3, <1>4, <1>5 DEF Approving

\* An approval is committed within the lifetime of the code, by a user who
\* could write to the requested repository at some moment of the request,
\* unless two commits of lore-authctl tore the check.
THEOREM ApprovalByWriter == Spec => ApprovedByWriter
  <1>1. IInv /\ [Next]_vars =>
          [\A d \in Devices :
             devices[d].status # "approved" /\ devices'[d].status = "approved" =>
               /\ clock < devices[d].expires
               /\ \E a \in Approving(d) : approvals[a].seen \/ approvals[a].torn]_vars
    BY ApprovedByWriterStep
  <1> QED
    BY <1>1, Inductive, PTL DEF ApprovedByWriter, Spec

-----------------------------------------------------------------------------
(* The flow implements DeviceGrant *)

\* Only PollConsume adds to the released tokens.
LEMMA ReleaseWrites ==
    ASSUME [Next]_vars
    PROVE  UNCHANGED released \/ \E p \in Polls : PollConsume(p)
  <1> USE DEF logVars
  <1>1. ASSUME NEW a \in Approvals, ApproveNext(a) PROVE UNCHANGED released
    BY <1>1 DEF ApproveNext, ApproveRead, ApproveExpire, ApproveRepository,
         ApproveCheck, ApproveChecked, ApprovePrincipal, ApproveCommit, ApproveUnchanged
  <1>2. ASSUME NEW p \in Polls, PollNext(p), ~PollConsume(p) PROVE UNCHANGED released
    BY <1>2 DEF PollNext, PollExpire, PollRepository, PollPrincipal, PollResolveName,
         PollCheck, PollChecked, PollResource, PollRecheck, PollRechecked, PollRecord
  <1>3. CASE Tick \/ AdminWrite \/ Abort
    BY <1>3 DEF Tick, AdminWrite, Abort, AbortStart, AbortApproval, AbortPoll
  <1>4. CASE \E a \in Approvals, u \in Users, d \in Devices : ApproveSession(a, u, d)
    BY <1>4 DEF ApproveSession, ApproveUnchanged
  <1>5. CASE \E p \in Polls, d \in Devices : PollRead(p, d)
    BY <1>5 DEF PollRead
  <1>6. CASE \/ \E d \in Devices, n \in Names : StartLookup(d, n)
             \/ \E d \in Devices : StartCreate(d) \/ PreviewExpire(d)
    BY <1>6 DEF StartLookup, StartCreate, PreviewExpire
  <1>7. CASE UNCHANGED vars
    BY <1>7 DEF vars
  <1> QED
    BY <1>1, <1>2, <1>3, <1>4, <1>5, <1>6, <1>7 DEF Next

LEMMA GrantInitMaps == Init => AbstractGrant!GrantInit
  BY DEF Init, AbstractGrant!GrantInit, grantBar, handedBar, NoRow

\* Every step is a step of DeviceGrant or leaves its variables alone.
LEMMA GrantStepMaps ==
    ASSUME IInv, [Next]_vars
    PROVE  [AbstractGrant!GrantNext]_AbstractGrant!grantVars
  <1> USE DEF IInv, TypeOK, DeviceRow
  <1>1. CASE UNCHANGED <<devices, released>>
    BY <1>1 DEF AbstractGrant!grantVars, grantBar, handedBar
  <1>2. ASSUME NEW d \in Devices, StartCreate(d)
        PROVE  AbstractGrant!Open(d)
    <2>1. UNCHANGED released
      BY <1>2 DEF StartCreate, logVars
    <2>2. devices[d].status = "absent" /\ devices[d].user = NoUser
      BY <1>2 DEF StartCreate, RowInv
    <2>3. grantBar' = [grantBar EXCEPT ![d].state = "pending"]
      BY <1>2, <2>2 DEF StartCreate, grantBar
    <2> QED
      BY <2>1, <2>2, <2>3 DEF AbstractGrant!Open, grantBar, handedBar
  <1>3. ASSUME NEW d \in Devices, MarkExpired(d), UNCHANGED released
        PROVE  AbstractGrant!Lapse(d) \/ UNCHANGED devices
    <2>1. CASE devices[d].status = "pending"
      <3>1. grantBar' = [grantBar EXCEPT ![d].state = "expired"]
        BY <1>3, <2>1 DEF MarkExpired, grantBar
      <3> QED
        BY <1>3, <2>1, <3>1 DEF AbstractGrant!Lapse, grantBar, handedBar
    <2> QED
      BY <1>3, <2>1 DEF MarkExpired
  <1>4. ASSUME NEW a \in Approvals, ApproveCommit(a)
        PROVE  \/ \E d \in Devices, u \in Users : AbstractGrant!Approve(d, u)
               \/ UNCHANGED <<devices, released>>
    <2> DEFINE d == approvals[a].dev
               u == approvals[a].user
    <2>1. d \in Devices /\ u \in Users /\ UNCHANGED released
      BY <1>4 DEF ApproveCommit, ApproveStep, ApprovalInv, ApprovalOK,
                  ApproveUnchanged, logVars
    <2>2. CASE Approvable(d)
      <3>1. devices' = [devices EXCEPT ![d].status = "approved", ![d].user = u]
        BY <1>4, <2>2 DEF ApproveCommit
      <3> HIDE DEF d, u
      <3>2. /\ devices'[d].status = "approved" /\ devices'[d].user = u
            /\ \A e \in Devices \ {d} : devices'[e] = devices[e]
        BY <2>1, <3>1
      <3>3. grantBar' = [grantBar EXCEPT ![d] = [state |-> "approved", user |-> u]]
        BY <2>1, <3>2 DEF grantBar
      <3> QED
        BY <2>1, <2>2, <3>3 DEF AbstractGrant!Approve, Approvable, grantBar, handedBar
    <2> QED
      BY <1>4, <2>1, <2>2 DEF ApproveCommit
  <1>5. ASSUME NEW p \in Polls, PollConsume(p)
        PROVE  \/ \E d \in Devices, t \in 1 .. MaxTokens : AbstractGrant!Redeem(d, t)
               \/ UNCHANGED <<devices, released>>
    <2> DEFINE d == polls[p].dev
               t == polls[p].jti
               s == [dev |-> d, jti |-> t, user |-> polls[p].user,
                     repo |-> polls[p].target, at |-> clock]
    <2>1. d \in Devices /\ devices[d].user = polls[p].user
      BY <1>5 DEF PollConsume, PollStep, PollInv, PollOK
    <2>2. t \in 1 .. MaxTokens /\ \A o \in released : o.jti # t
      <3>1. polls[p].pc = "consume"
        BY <1>5 DEF PollConsume, PollStep
      <3>2. t \in 1 .. lastJti /\ lastJti \in Nat /\ lastJti <= MaxTokens
        BY <3>1 DEF JtiInv
      <3>3. \A o \in released : o.jti # t
        BY <3>1 DEF JtiInv
      <3> HIDE DEF t
      <3> QED
        BY <3>2, <3>3, DeviceFlowAssumption
    <2>3. CASE Consumable(d)
      <3>1. /\ devices' = [devices EXCEPT ![d].status = "consumed"]
            /\ released' = released \cup {s}
        BY <1>5, <2>3 DEF PollConsume
      <3>2. s.dev = d /\ s.jti = t /\ s.user = devices[d].user
        BY <2>1
      <3> HIDE DEF s, t, d
      <3>a. /\ devices'[d].status = "consumed" /\ devices'[d].user = devices[d].user
            /\ \A e \in Devices \ {d} : devices'[e] = devices[e]
        BY <2>1, <3>1 DEF DeviceRow
      <3>b. grantBar' = [grantBar EXCEPT ![d] = [state |-> "consumed",
                                                user |-> grantBar[d].user]]
        BY <2>1, <3>a DEF grantBar
      <3>3. grantBar' = [grantBar EXCEPT ![d].state = "consumed"]
        BY <2>1, <3>b DEF grantBar
      <3>4. handedBar' = handedBar \cup
               {[dev |-> d, user |-> grantBar[d].user, token |-> t]}
        BY <2>1, <3>1, <3>2 DEF handedBar, grantBar
      <3>5. grantBar[d].state = "approved" /\ \A h \in handedBar : h.token # t
        BY <2>1, <2>2, <2>3 DEF Consumable, grantBar, handedBar
      <3> QED
        BY <2>1, <2>2, <3>3, <3>4, <3>5 DEF AbstractGrant!Redeem
    <2> QED
      BY <1>5, <2>3 DEF PollConsume
  <1> QED
    BY <1>1, <1>2, <1>3, <1>4, <1>5, DeviceWrites, ReleaseWrites
    DEF AbstractGrant!GrantNext, AbstractGrant!grantVars

\* The device flow implements the abstract device grant, for every number of
\* devices, users and concurrent requests.
THEOREM Refinement == Spec => ImplementsGrant
  <1>1. IInv /\ [Next]_vars => [AbstractGrant!GrantNext]_AbstractGrant!grantVars
    BY GrantStepMaps
  <1> QED
    BY <1>1, GrantInitMaps, Inductive, PTL DEF ImplementsGrant, AbstractGrant!GrantSpec, Spec

=============================================================================
