-------------------------- MODULE OperatorGateway --------------------------
(***************************************************************************)
(* The way an operator's click reaches the control plane. The dashboard     *)
(* signs operators in (auth.server.ts), renders pages with the role they    *)
(* had at load time, and proxies the buttons' calls: the proxy looks the    *)
(* session up, signs the method and the path with the operator's role of    *)
(* that moment (ops-auth.ts) and forwards the request; the API checks the   *)
(* signature's age and the role it names, not the operator or the session,  *)
(* which only the dashboard knows. Pages read with the API key alone.       *)
(*                                                                          *)
(* Time is counted in ticks of the dashboard's clock; the API's clock may   *)
(* be off by drift. Signatures and password hashes are not forged, so they  *)
(* are left out. Operators' display names and the audit fields of their     *)
(* rows are left out too.                                                   *)
(***************************************************************************)
EXTENDS Integers, FiniteSets, Sequences, DashboardCalls

CONSTANTS
    Operators,       \* operator ids
    Emails,          \* their sign-in names
    FirstRole,       \* the role of the operator bootstrapped first
    Drifts,          \* possible offsets of the API's clock
    MaxSkew,         \* maxSkewMs of a signature
    SessionTtl,      \* getSessionTtlHours
    LoginWindow,     \* LOGIN_WINDOW_MS
    LoginMaxAttempts,\* LOGIN_MAX_ATTEMPTS
    MaxClock,        \* bound on time
    MaxUpserts,      \* bound on runs of bootstrap-operator
    MaxLogins,       \* bound on sign-ins
    MaxSends         \* bound on calls of the dashboard

VARIABLES
    rows,            \* ops_operators
    sessions,        \* ops_operator_sessions: a sequence, so that ids are positions
    page,            \* per session, the role its page was rendered with, or "none"
    attempts,        \* loginAttempts: [count, resetAt] per email
    requests,        \* signed requests on their way to the API
    applied,         \* how late the control plane acted on signed requests
    keyed,           \* what it did for callers with the API key alone
    refusals,        \* calls answered 403 although their button was enabled
    dead,            \* calls and page reads that reach no route
    clock, drift,
    upserts, logins, sends,
    lastHeld,        \* history: when an operator last could assume a role
    lastLive         \* history: when a session was last usable

vars == <<rows, sessions, page, attempts, requests, applied, keyed, refusals, dead, clock,
          drift, upserts, logins, sends, lastHeld, lastLive>>

-----------------------------------------------------------------------------
(* Roles *)

OPS_OPERATOR_ROLES == {"viewer", "operator", "admin"}

RoleOrder == [viewer |-> 0, operator |-> 1, admin |-> 2]

canAssumeRole(actual, required) == RoleOrder[actual] >= RoleOrder[required]

canOperate(role) == role \in {"operator", "admin"}

isAdmin(role) == role = "admin"

\* The button of a call is enabled on a page rendered with this role, for a
\* subject whose approvalRequirement is need.
Enabled(call, role, need) ==
    \/ call.gate = "any"
    \/ call.gate = "operate" /\ canOperate(role)
    \/ call.gate = "admin" /\ isAdmin(role)
    \/ call.gate = "requirement" /\ canOperate(role) /\ (need = "admin" => isAdmin(role))

\* Methods of the control plane that check the approvalRequirement of their
\* subject themselves.
CheckedOps ==
    {"approveTreasuryAction", "enqueueTreasuryActionExecution", "approveCarryAction",
     "approveRebalanceProposal", "rejectRebalanceProposal",
     "requestRebalanceBundleRecoveryAction", "requestRebalanceBundleResolutionAction"}

\* The requirements a call's subject may have.
Requirements(call) ==
    IF call \in ApprovalCalls \cup TreasuryCalls THEN {"operator", "admin"} ELSE {"operator"}

\* The buttons of rebalance proposals and bundles ignore the approvalRequirement
\* of their subject, although the methods behind them check it.
RequirementNotShown ==
    {"approveRebalanceProposal", "rejectRebalanceProposal",
     "requestRebalanceBundleRecoveryAction", "requestRebalanceBundleResolutionAction"}

-----------------------------------------------------------------------------
(* Operators and sessions *)

RowsOf(o) == { r \in rows : r.operatorId = o }

\* A session lookup succeeds: not expired, not revoked, its operator active.
Usable(s) ==
    /\ sessions[s].expiresAt > clock
    /\ ~sessions[s].revoked
    /\ \E r \in RowsOf(sessions[s].operatorId) : r.active

\* The lookup's side effect: a session found for an operator that is no longer
\* active is revoked.
AfterLookup(s) ==
    IF /\ sessions[s].expiresAt > clock
       /\ ~sessions[s].revoked
       /\ \A r \in RowsOf(sessions[s].operatorId) : ~r.active
    THEN [sessions EXCEPT ![s].revoked = TRUE]
    ELSE sessions

CurrentRole(s) == (CHOOSE r \in RowsOf(sessions[s].operatorId) : r.active).role

Holds(o, role) == \E r \in RowsOf(o) : r.active /\ canAssumeRole(r.role, role)

\* The history variables follow the state of the rows and sessions.
Observe ==
    /\ lastHeld' = [o \in Operators |-> [role \in OPS_OPERATOR_ROLES |->
                        IF Holds(o, role)' THEN clock' ELSE lastHeld[o][role]]]
    /\ lastLive' = [s \in DOMAIN sessions' |->
                        IF Usable(s)' THEN clock'
                        ELSE IF s \in DOMAIN lastLive THEN lastLive[s] ELSE -1]

Init ==
    /\ rows = {[operatorId |-> CHOOSE o \in Operators : TRUE,
                email |-> CHOOSE e \in Emails : TRUE, role |-> FirstRole, active |-> TRUE]}
    /\ sessions = <<>>
    /\ page = <<>>
    /\ attempts = [e \in Emails |-> [count |-> 0, resetAt |-> 0]]
    /\ requests = {}
    /\ applied = {}
    /\ keyed = {}
    /\ refusals = {}
    /\ dead = {}
    /\ clock = 0
    /\ drift \in Drifts
    /\ upserts = 0
    /\ logins = 0
    /\ sends = 0
    /\ lastHeld = [o \in Operators |-> [role \in OPS_OPERATOR_ROLES |->
                       IF Holds(o, role) THEN 0 ELSE -1]]
    /\ lastLive = <<>>

FindOperatorById(o, e) == { r \in rows : r.operatorId = o }

FindOperator(o, e) == { r \in rows : r.operatorId = o \/ r.email = e }

\* bootstrap-operator: the row found by id or by e-mail is overwritten, id and
\* e-mail included; a second row with the same id or e-mail violates a unique
\* index, and an id that sessions refer to cannot be replaced, so nothing changes
\* then. Sessions are left alone.
upsertOperator(o, e, role, active) ==
    /\ upserts < MaxUpserts
    /\ LET existing == FindOperator(o, e)
           row == [operatorId |-> o, email |-> e, role |-> role, active |-> active]
       IN  /\ Cardinality(existing) <= 1
           /\ \A r \in existing, s \in DOMAIN sessions :
                 r.operatorId # o => sessions[s].operatorId # r.operatorId
           /\ rows' = (rows \ existing) \cup {row}
    /\ upserts' = upserts + 1
    /\ UNCHANGED <<sessions, page, attempts, requests, applied, keyed, refusals, dead,
                   clock, drift, logins, sends>>
    /\ Observe

getActiveBucket(e) ==
    IF attempts[e].resetAt <= clock
    THEN [count |-> 0, resetAt |-> clock + LoginWindow]
    ELSE attempts[e]

isRateLimited(e) == getActiveBucket(e).count >= LoginMaxAttempts

\* A sign-in: refused at the limit; a wrong password, an unknown e-mail or an
\* inactive operator counts as a failure; success clears the count and opens a
\* session.
Login(e, correct) ==
    /\ logins < MaxLogins
    /\ logins' = logins + 1
    /\ ~isRateLimited(e)
    /\ IF correct /\ \E r \in rows : r.email = e /\ r.active
       THEN /\ attempts' = [attempts EXCEPT ![e] = [count |-> 0, resetAt |-> 0]]
            /\ sessions' = Append(sessions,
                  [operatorId |-> (CHOOSE r \in rows : r.email = e).operatorId,
                   expiresAt |-> clock + SessionTtl, revoked |-> FALSE])
            /\ page' = Append(page, "none")
       ELSE /\ attempts' = [attempts EXCEPT ![e] =
                  [getActiveBucket(e) EXCEPT !.count = @ + 1]]
            /\ UNCHANGED <<sessions, page>>
    /\ UNCHANGED <<rows, keyed, requests, applied, refusals, dead, clock, drift, upserts, sends>>
    /\ Observe

\* Sign-out revokes the session; requests already signed are not recalled.
Logout(s) ==
    /\ ~sessions[s].revoked
    /\ sessions' = [sessions EXCEPT ![s].revoked = TRUE]
    /\ page' = [page EXCEPT ![s] = "none"]
    /\ UNCHANGED <<rows, keyed, logins, attempts, requests, applied, refusals, dead, clock, drift, upserts,
                   sends>>
    /\ Observe

\* A page is rendered: the session is looked up, the role it has now is shown,
\* and the loader reads what the page needs with the API key. Pages differ in
\* what they read only, so one action stands for all of them.
LoadPage(s) ==
    /\ sessions' = AfterLookup(s)
    /\ IF Usable(s)
       THEN /\ page' = [page EXCEPT ![s] = CurrentRole(s)]
            /\ dead' = dead \cup { <<"GET", r>> : r \in ReadsWithoutRoute }
       ELSE /\ page' = [page EXCEPT ![s] = "none"]
            /\ UNCHANGED dead
    /\ UNCHANGED <<rows, keyed, logins, attempts, requests, applied, refusals, clock, drift, upserts, sends>>
    /\ Observe

-----------------------------------------------------------------------------
(* The proxy and the API *)

\* A click: the call reaches the proxy if there is one for its path; without a
\* usable session it is answered 401; otherwise it is signed and forwarded.
SendCall(s, call, need) ==
    /\ Enabled(call, page[s], need)
    /\ sends' = sends + 1
    /\ IF ~Proxied(call)
       THEN /\ dead' = dead \cup {<<call.method, <<call.group, call.path>> >>}
            /\ UNCHANGED <<sessions, requests>>
       ELSE /\ sessions' = AfterLookup(s)
            /\ requests' = IF Usable(s)
                           THEN requests \cup
                                  {[call |-> call, need |-> need, session |-> s,
                                    operatorId |-> sessions[s].operatorId,
                                    role |-> CurrentRole(s), shown |-> page[s],
                                    issuedAt |-> clock]}
                           ELSE requests
            /\ UNCHANGED dead
    /\ UNCHANGED <<rows, keyed, logins, page, attempts, applied, refusals, clock, drift, upserts>>
    /\ Observe

FreshEver(r) == TRUE

\* verifySignedOperatorHeaders: the signature is neither too old nor too far in
\* the future on the API's own clock.
Fresh(r) ==
    LET age == clock + drift - r.issuedAt
    IN  age <= MaxSkew /\ -age <= MaxSkew

\* The role checks of the route and, for some methods, of the control plane.
Allowed(route, r) ==
    /\ route.role = "none" \/ canAssumeRole(r.role, route.role)
    /\ route.op \in CheckedOps => canAssumeRole(r.role, r.need)

\* The role those checks amount to.
Required(route, r) ==
    IF route.op \in CheckedOps /\ r.need = "admin" THEN "admin"
    ELSE IF route.role = "none" THEN "viewer" ELSE route.role

\* The API handles a request it receives after some delay.
Deliver(r) ==
    /\ requests' = requests \ {r}
    /\ LET matching == RoutesOf[r.call]
           route == CHOOSE m \in matching : TRUE
       IN  IF matching = {}
           THEN /\ dead' = dead \cup {<<r.call.method, <<r.call.group, r.call.path>> >>}
                /\ UNCHANGED <<applied, refusals>>
           ELSE IF ~Fresh(r)
           THEN UNCHANGED <<dead, applied, refusals>>
           ELSE IF ~Allowed(route, r)
           THEN /\ refusals' = refusals \cup
                      {[op |-> route.op, need |-> r.need, stale |-> r.role # r.shown]}
                /\ UNCHANGED <<dead, applied>>
           ELSE IF "body" \in route.does /\ ~r.call.sends
           THEN /\ dead' = dead \cup {<<"body", <<r.call.group, r.call.path>> >>}
                /\ UNCHANGED <<applied, refusals>>
           ELSE /\ applied' = applied \cup
                      {[roleLag |-> clock - lastHeld[r.operatorId][Required(route, r)],
                        sessionLag |-> clock - lastLive[r.session]]}
                /\ UNCHANGED <<dead, refusals>>
    /\ UNCHANGED <<rows, keyed, logins, sessions, page, attempts, clock, drift, upserts, sends>>
    /\ Observe

\* A request lost between the dashboard and the API.
Lose(r) ==
    /\ requests' = requests \ {r}
    /\ UNCHANGED <<rows, keyed, logins, sessions, page, attempts, applied, refusals, dead, clock, drift,
                   upserts, sends>>
    /\ Observe

\* A client that has the API key but no operator headers makes a call that is not
\* a read.
CallWithKey(route) ==
    /\ sends < MaxSends
    /\ keyed' = keyed \cup {route.op}
    /\ sends' = sends + 1
    /\ UNCHANGED <<rows, logins, sessions, page, attempts, requests, applied, refusals, dead, clock,
                   drift, upserts>>
    /\ Observe

Tick ==
    /\ clock < MaxClock
    /\ clock' = clock + 1
    /\ UNCHANGED <<rows, keyed, logins, sessions, page, attempts, requests, applied, refusals, dead, drift,
                   upserts, sends>>
    /\ Observe

Next ==
    \/ \E o \in Operators, e \in Emails, role \in OPS_OPERATOR_ROLES, active \in BOOLEAN :
          upsertOperator(o, e, role, active)
    \/ \E e \in Emails, correct \in BOOLEAN : Login(e, correct)
    \/ \E s \in DOMAIN sessions : Logout(s)
    \/ \E s \in DOMAIN sessions : LoadPage(s)
    \/ \E s \in DOMAIN sessions :
          /\ sends < MaxSends /\ page[s] # "none"      \* a page with buttons
          /\ \E call \in Calls : \E need \in Requirements(call) : SendCall(s, call, need)
    \/ \E r \in requests : Deliver(r) \/ Lose(r)
    \/ \E route \in OpenToKey : CallWithKey(route)
    \/ Tick

Spec == Init /\ [][Next]_vars

-----------------------------------------------------------------------------
(* Properties *)

\* Rows, sessions and requests are well formed, ids and e-mails are unique, and
\* every session still names an operator that exists.
TypeOK ==
    /\ \A r \in rows : r.operatorId \in Operators /\ r.email \in Emails
                       /\ r.role \in OPS_OPERATOR_ROLES /\ r.active \in BOOLEAN
    /\ \A r, q \in rows : r # q => r.operatorId # q.operatorId /\ r.email # q.email
    /\ \A s \in DOMAIN sessions : RowsOf(sessions[s].operatorId) # {}
    /\ \A r \in requests : r.call \in Calls /\ r.session \in DOMAIN sessions
    /\ \A e \in Emails : attempts[e].count \in 0..LoginMaxAttempts

\* The API trusts a signature, not the operator's row: whatever the order of
\* sign-outs, role changes, deactivations, lost and late requests, nothing is
\* done for an operator longer than the signature's lifetime (as the API's clock
\* sees it) after the operator lost the role it needs or the session ended.
RevocationIsBounded ==
    \A a \in applied : /\ a.roleLag <= MaxSkew - drift
                       /\ a.sessionLag <= MaxSkew - drift

\* A button that was enabled leads to a 403 only when the operator's role changed
\* after the page was rendered, or where the button ignores an admin approval
\* requirement that the control plane checks.
EnabledIsAllowed ==
    \A r \in refusals : r.stale \/ (r.op \in RequirementNotShown /\ r.need = "admin")

\* Every other button and every page reaches a route of the API with its method
\* and path, and carries a body where the handler reads one.
NoDeadCall == \A d \in dead : d \in KnownDead

\* Nothing but the check of a CSV text, which stores nothing, can be had with the
\* API key alone by a request that is not a read.
KeyAloneChangesNothing ==
    keyed \subseteq {"validateCexCsv"}

-----------------------------------------------------------------------------
(* The invariant behind them.                                              *)

\* What the variables hold; the history has an entry for every session.
Types ==
    /\ rows \subseteq [operatorId : Operators, email : Emails, role : OPS_OPERATOR_ROLES,
                       active : BOOLEAN]
    /\ sessions \in Seq([operatorId : Operators, expiresAt : Int, revoked : BOOLEAN])
    /\ page \in Seq(OPS_OPERATOR_ROLES \cup {"none"}) /\ Len(page) = Len(sessions)
    /\ attempts \in [Emails -> [count : 0..LoginMaxAttempts, resetAt : Int]]
    /\ clock \in Nat /\ drift \in Int
    /\ lastHeld \in [Operators -> [OPS_OPERATOR_ROLES -> Int]]
    /\ lastLive \in [DOMAIN sessions -> Int]

\* The history is up to date: what holds now was last seen now.
HistoryInv ==
    /\ \A o \in Operators, role \in OPS_OPERATOR_ROLES :
          /\ lastHeld[o][role] <= clock
          /\ Holds(o, role) => lastHeld[o][role] = clock
    /\ \A s \in DOMAIN sessions :
          /\ lastLive[s] <= clock
          /\ Usable(s) => lastLive[s] = clock

\* A signed request names a call the proxy forwards, made from a page whose button
\* was enabled; its operator had the role it carries, and its session was usable,
\* when it was signed or later.
RequestOK(r) ==
    /\ r.call \in Calls /\ Proxied(r.call) /\ r.need \in Requirements(r.call)
    /\ r.role \in OPS_OPERATOR_ROLES /\ r.shown \in OPS_OPERATOR_ROLES
    /\ Enabled(r.call, r.shown, r.need)
    /\ r.operatorId \in Operators /\ r.session \in DOMAIN sessions
    /\ r.issuedAt \in Nat
    /\ \A role \in OPS_OPERATOR_ROLES :
          canAssumeRole(r.role, role) => lastHeld[r.operatorId][role] >= r.issuedAt
    /\ lastLive[r.session] >= r.issuedAt

GatewayInv ==
    /\ Types /\ TypeOK /\ HistoryInv
    /\ \A r \in requests : RequestOK(r)
    /\ RevocationIsBounded /\ EnabledIsAllowed /\ NoDeadCall /\ KeyAloneChangesNothing
=============================================================================
