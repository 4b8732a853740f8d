------------------------------- MODULE Portal -------------------------------
(***************************************************************************)
(* One signed-in browser and the API it talks to: the web client's refresh *)
(* on 401 (apps/web/src/lib/api.ts), the guards a request passes one after *)
(* the other (auth.guard.ts, tenant-status.guard.ts), the auth routes that *)
(* set and clear cookies (auth.controller.ts) and the suspension of the    *)
(* tenant (tenants.service.ts).                                            *)
(*                                                                         *)
(* The account is a tenant's; a super admin is exempt from the suspension. *)
(* The tabs of the browser share its cookies.  Requests and answers are    *)
(* under way for any time and may be lost; tokens carry the time at which  *)
(* they expire, and 0 stands for no cookie.  A handler that throws leaves  *)
(* no change here; what one may leave behind is in the other modules.      *)
(***************************************************************************)
EXTENDS Naturals, FiniteSets

CONSTANTS
    Call,        \* the calls of apiFetch that will be made, each at most once
    Tab,         \* the tabs, each with its own copy of the client module
    NoCall,      \* no refresh in flight
    AccessTTL,   \* lifetime of an access token
    RefreshTTL,  \* lifetime of a refresh token
    MaxTime,     \* bound on the time
    MaxVersion   \* bound on tokenVersion

ASSUME PortalAssumption ==
    /\ NoCall \notin Call
    /\ Tab # {}
    /\ AccessTTL \in Nat \ {0}
    /\ RefreshTTL \in Nat \ {0}
    /\ MaxTime \in Nat \ {0}
    /\ MaxVersion \in Nat

VARIABLES
    now,       \* the time
    version,   \* User.tokenVersion
    locked,    \* User.lockedUntil lies ahead
    suspended, \* Tenant.status is not one of WRITABLE_TENANT_STATUSES
    jar,       \* the browser's cookies
    call,      \* call -> where it stands
    inFlight,  \* tab -> refreshInFlight, by the call that began it
    refresh,   \* call -> the refresh request it began
    applied,   \* history: call -> how often its handler changed data and returned
    open,      \* history: the writes sent or under way while not suspended
    quiet      \* history: the calls under way whose session was never at risk

serverVars == <<now, version, locked, suspended>>
clientVars == <<jar, call, inFlight, refresh>>
vars == <<serverVars, clientVars, applied, open, quiet>>

Expiry == 0 .. MaxTime + AccessTTL + RefreshTTL
Version == 0 .. MaxVersion
Jar == [access : Expiry, refresh : Expiry, ver : Version]
Empty == [access |-> 0, refresh |-> 0, ver |-> 0]
Pair(ver) == [access |-> now + AccessTTL, refresh |-> now + RefreshTTL,
              ver |-> ver]

Kind == {"read", "write", "login", "logout", "logoutAll"}

\* Requests to /auth/... are never refreshed, and login is a public route.
IsAuth(kind) == kind \notin {"read", "write"}

\* guards, status, handler: on its way to the API, past AuthGuard, past
\* TenantStatusGuard.  answered: the answer is on its way.  waiting: for the
\* refresh begun by `on`.  set: the cookies of the answer, if it sets any.
CallRec == [pc      : {"new", "guards", "status", "handler", "answered",
                       "waiting", "ended"},
            kind    : Kind,
            tab     : Tab,
            access  : Expiry,
            retried : BOOLEAN,
            on      : Call \union {NoCall},
            code    : {"none", "ok", "unauthorized", "refused", "lost"},
            set     : SUBSET Jar]
NewCall == [pc |-> "new", kind |-> "read", tab |-> CHOOSE t \in Tab : TRUE,
            access |-> 0, retried |-> FALSE, on |-> NoCall, code |-> "none",
            set |-> {}]

\* sent: with the cookie in `jar`.  read: the account was found in order.
RefreshRec == [pc  : {"none", "sent", "read", "answered"},
               jar : Jar,
               set : SUBSET Jar]
NoRefresh == [pc |-> "none", jar |-> Empty, set |-> {}]

UnderWay(c) == call[c].pc \notin {"new", "ended"}
Live(j) == j.refresh > now /\ j.ver = version /\ ~locked

Init ==
    /\ now = 1
    /\ version = 0
    /\ locked = FALSE
    /\ suspended \in BOOLEAN
    /\ jar = Pair(0)
    /\ call = [c \in Call |-> NewCall]
    /\ inFlight = [t \in Tab |-> NoCall]
    /\ refresh = [c \in Call |-> NoRefresh]
    /\ applied = [c \in Call |-> 0]
    /\ open = {}
    /\ quiet = {}

-----------------------------------------------------------------------------
(* The client: requestWithRefresh and refreshSession                       *)

Cookie(exp) == IF exp > now THEN exp ELSE 0

Send(c, kind, tab) ==
    /\ call[c].pc = "new"
    /\ call' = [call EXCEPT ![c] =
                  [NewCall EXCEPT !.pc = "guards", !.kind = kind, !.tab = tab,
                                  !.access = Cookie(jar.access)]]
    /\ UNCHANGED <<serverVars, jar, inFlight, refresh, applied>>

\* A call that is over; the page shows the answer or the error.
Ended(rec, code) ==
    [NewCall EXCEPT !.pc = "ended", !.kind = rec.kind, !.code = code]

Install(set) == jar' = IF set = {} THEN jar ELSE CHOOSE j \in set : TRUE

\* Any answer but a 401 that is worth a refresh.
Receive(c) ==
    LET rec == call[c] IN
    /\ rec.pc = "answered"
    /\ rec.code # "unauthorized" \/ rec.retried \/ IsAuth(rec.kind)
    /\ Install(rec.set)
    /\ call' = [call EXCEPT ![c] = Ended(rec, rec.code)]
    /\ UNCHANGED <<serverVars, inFlight, refresh, applied>>

\* Mutant: a call that finds a refresh in flight gives up.
ReceiveGivesUp(c) ==
    LET rec == call[c]
        first == inFlight[rec.tab] = NoCall
    IN
    /\ rec.pc = "answered"
    /\ rec.code = "unauthorized" /\ ~rec.retried /\ ~IsAuth(rec.kind)
    /\ inFlight' = [inFlight EXCEPT ![rec.tab] = IF first THEN c ELSE @]
    /\ refresh' = IF first
                  THEN [refresh EXCEPT ![c] = [NoRefresh EXCEPT !.pc = "sent",
                                                                !.jar = jar]]
                  ELSE refresh
    /\ call' = [call EXCEPT ![c] =
                   IF first THEN [rec EXCEPT !.pc = "waiting", !.on = c,
                                             !.code = "none"]
                            ELSE Ended(rec, rec.code)]
    /\ UNCHANGED <<serverVars, jar, applied>>

\* A 401: wait for the refresh in flight in this tab, or begin one.
ReceiveUnauthorized(c) ==
    LET rec == call[c]
        shared == inFlight[rec.tab]
        on == IF shared = NoCall THEN c ELSE shared
    IN
    /\ rec.pc = "answered"
    /\ rec.code = "unauthorized" /\ ~rec.retried /\ ~IsAuth(rec.kind)
    /\ inFlight' = [inFlight EXCEPT ![rec.tab] = on]
    /\ refresh' = IF shared = NoCall
                  THEN [refresh EXCEPT ![c] = [NoRefresh EXCEPT !.pc = "sent",
                                                                !.jar = jar]]
                  ELSE refresh
    /\ call' = [call EXCEPT ![c] = [rec EXCEPT !.pc = "waiting", !.on = on,
                                               !.code = "none"]]
    /\ UNCHANGED <<serverVars, jar, applied>>

Waiting(b) == {c \in Call : call[c].pc = "waiting" /\ call[c].on = b}

\* The promise settles: refreshInFlight is cleared and the callers go on, by
\* sending their request once more or by throwing the 401 they had.
Settle(b, ok, code) ==
    LET tab == call[b].tab IN
    /\ inFlight' = [inFlight EXCEPT ![tab] = NoCall]
    /\ refresh' = [refresh EXCEPT ![b] = NoRefresh]
    /\ call' = [c \in Call |->
                  IF c \notin Waiting(b) THEN call[c]
                  ELSE IF ok THEN [call[c] EXCEPT !.pc = "guards",
                                                  !.retried = TRUE,
                                                  !.on = NoCall,
                                                  !.access = Cookie(jar'.access)]
                  ELSE Ended(call[c], code)]
    /\ UNCHANGED <<serverVars, applied>>

RefreshArrives(b) ==
    /\ refresh[b].pc = "answered"
    /\ Install(refresh[b].set)
    /\ Settle(b, refresh[b].set # {}, "unauthorized")

-----------------------------------------------------------------------------
(* The API                                                                 *)

Answer(c, code, set) ==
    call' = [call EXCEPT ![c] = [@ EXCEPT !.pc = "answered", !.code = code,
                                          !.set = set]]

\* AuthGuard lets a public route pass, or a token that has not expired.
AuthGuard(c) ==
    /\ call[c].pc = "guards"
    /\ IF call[c].kind = "login" \/ call[c].access > now
       THEN call' = [call EXCEPT ![c].pc = "status"]
       ELSE Answer(c, "unauthorized", {})
    /\ UNCHANGED <<serverVars, jar, inFlight, refresh, applied>>

\* Mutant: the guard is not in force.
TenantStatusGuardOff(c) ==
    /\ call[c].pc = "status"
    /\ call' = [call EXCEPT ![c].pc = "handler"]
    /\ UNCHANGED <<serverVars, jar, inFlight, refresh, applied>>

\* TenantStatusGuard lets a public route or a GET pass; for the others it reads
\* the tenant's status, and the handler runs later.
TenantStatusGuard(c) ==
    /\ call[c].pc = "status"
    /\ IF call[c].kind \in {"read", "login"} \/ ~suspended
       THEN call' = [call EXCEPT ![c].pc = "handler"]
       ELSE Answer(c, "refused", {})
    /\ UNCHANGED <<serverVars, jar, inFlight, refresh, applied>>

\* The handler throws: a conflict, a failed statement, a wrong password.
HandlerThrows(c) ==
    /\ call[c].pc = "handler"
    /\ Answer(c, "refused", {})
    /\ UNCHANGED <<serverVars, jar, inFlight, refresh, applied>>

Read(c) ==
    /\ call[c].pc = "handler" /\ call[c].kind = "read"
    /\ Answer(c, "ok", {})
    /\ UNCHANGED <<serverVars, jar, inFlight, refresh, applied>>

Write(c) ==
    /\ call[c].pc = "handler" /\ call[c].kind = "write"
    /\ applied' = [applied EXCEPT ![c] = @ + 1]
    /\ Answer(c, "ok", {})
    /\ UNCHANGED <<serverVars, jar, inFlight, refresh>>

\* login, with the version as it is then, and the cookies in the answer.
Login(c) ==
    /\ call[c].pc = "handler" /\ call[c].kind = "login"
    /\ ~locked
    /\ Answer(c, "ok", {Pair(version)})
    /\ UNCHANGED <<serverVars, jar, inFlight, refresh, applied>>

\* logout clears the cookies of this browser, in the answer.
Logout(c) ==
    /\ call[c].pc = "handler" /\ call[c].kind = "logout"
    /\ Answer(c, "ok", {Empty})
    /\ UNCHANGED <<serverVars, jar, inFlight, refresh, applied>>

LogoutEverywhere(c) ==
    /\ call[c].pc = "handler" /\ call[c].kind = "logoutAll"
    /\ version < MaxVersion
    /\ version' = version + 1
    /\ Answer(c, "ok", {Empty})
    /\ UNCHANGED <<now, locked, suspended, jar, inFlight, refresh, applied>>

\* AuthService.refresh: the token and the account are read, ...
RefreshRead(b) ==
    /\ refresh[b].pc = "sent"
    /\ refresh' = [refresh EXCEPT ![b].pc =
                      IF Live(refresh[b].jar) THEN "read" ELSE "answered"]
    /\ UNCHANGED <<serverVars, jar, call, inFlight, applied>>

\* ... and later the pair is signed with the version that was read.
RefreshIssue(b) ==
    /\ refresh[b].pc = "read"
    /\ refresh' = [refresh EXCEPT ![b].pc = "answered",
                                  ![b].set = {Pair(refresh[b].jar.ver)},
                                  ![b].jar = Empty]
    /\ UNCHANGED <<serverVars, jar, call, inFlight, applied>>

-----------------------------------------------------------------------------
(* Around them                                                             *)

\* Mutant: a request whose answer was lost is sent again.
LostSentAgain(c) ==
    /\ call[c].pc \in {"guards", "answered"}
    /\ call' = [call EXCEPT ![c] = [@ EXCEPT !.pc = "guards", !.code = "none",
                                             !.set = {}]]
    /\ UNCHANGED <<serverVars, jar, inFlight, refresh, applied>>

\* The request or its answer is lost and fetch rejects: the call is over.
Lost(c) ==
    /\ call[c].pc \in {"guards", "answered"}
    /\ call' = [call EXCEPT ![c] = Ended(@, "lost")]
    /\ UNCHANGED <<serverVars, jar, inFlight, refresh, applied>>

\* Mutant: a refresh that is lost is forgotten, and its callers with it.
RefreshLostForgotten(b) ==
    /\ refresh[b].pc # "none"
    /\ refresh' = [refresh EXCEPT ![b] = NoRefresh]
    /\ inFlight' = [inFlight EXCEPT ![call[b].tab] = NoCall]
    /\ UNCHANGED <<serverVars, jar, call, applied>>

\* The same for a refresh; the callers throw the 401 they had, which is marked
\* here so that it can be told from a refusal.
RefreshLost(b) ==
    /\ refresh[b].pc # "none"
    /\ jar' = jar
    /\ Settle(b, FALSE, "lost")

\* A super admin suspends or reactivates the tenant.
SetStatus ==
    /\ suspended' = ~suspended
    /\ UNCHANGED <<now, version, locked, clientVars, applied>>

\* The user signs out everywhere on another device.
OtherDevice ==
    /\ version < MaxVersion
    /\ version' = version + 1
    /\ UNCHANGED <<now, locked, suspended, clientVars, applied>>

\* Somebody fails too often to sign in to the account.
Lock ==
    /\ ~locked
    /\ locked' = TRUE
    /\ UNCHANGED <<now, version, suspended, clientVars, applied>>

\* A unit of time: tokens and cookies may expire, and a lock does.
Tick ==
    /\ now < MaxTime
    /\ now' = now + 1
    /\ locked' = FALSE
    /\ UNCHANGED <<version, suspended, clientVars, applied>>

-----------------------------------------------------------------------------
(* The histories.  A write is open if the tenant was not suspended at some *)
(* moment since it was sent.  A call is quiet while the session of the     *)
(* browser is sound: the refresh tokens it holds and has sent are good, no *)
(* refusal of one sent before is still on its way, and no access token     *)
(* expires on its way here or to the request repeated with it, because a   *)
(* request is short next to the lifetimes.                                 *)

SessionSound ==
    /\ Live(jar)
    /\ \A b \in Call :
          /\ refresh[b].pc = "sent" => Live(refresh[b].jar)
          /\ refresh[b].pc = "answered" => refresh[b].set # {}
          /\ \A j \in refresh[b].set : j.access > now
    /\ \A c \in Call : call[c].pc = "guards" /\ call[c].retried =>
                          call[c].access > now

Watch ==
    /\ open' = {c \in Call : /\ call'[c].kind = "write"
                             /\ call'[c].pc \notin {"new", "ended"}
                             /\ c \in open \/ ~suspended'}
    /\ quiet' = {c \in Call : /\ ~IsAuth(call'[c].kind)
                              /\ call'[c].pc # "new" /\ call[c].pc # "ended"
                              /\ call[c].pc = "new" \/ c \in quiet
                              /\ SessionSound'}

\* What goes on by itself once a call was made.
Step(c) ==
    /\ \/ Receive(c)
       \/ ReceiveUnauthorized(c)
       \/ RefreshArrives(c)
       \/ AuthGuard(c)
       \/ TenantStatusGuard(c)
       \/ HandlerThrows(c)
       \/ Read(c)
       \/ Write(c)
       \/ Login(c)
       \/ Logout(c)
       \/ LogoutEverywhere(c)
       \/ RefreshRead(c)
       \/ RefreshIssue(c)
    /\ Watch

Next ==
    \/ \E c \in Call, kind \in Kind, tab \in Tab : Send(c, kind, tab) /\ Watch
    \/ \E c \in Call :
          \/ Step(c)
          \/ Lost(c) /\ Watch
          \/ RefreshLost(c) /\ Watch
    \/ SetStatus /\ Watch
    \/ OtherDevice /\ Watch
    \/ Lock /\ Watch
    \/ Tick /\ Watch

\* Messages arrive or are lost, and the API answers what reaches it.
Spec ==
    /\ Init
    /\ [][Next]_vars
    /\ \A c \in Call : WF_vars(Step(c))
-----------------------------------------------------------------------------
(* Properties                                                              *)

\* Every variable has its type; a call waits for a refresh that is under way.
TypeOK ==
    /\ now \in 1 .. MaxTime
    /\ version \in Version
    /\ locked \in BOOLEAN
    /\ suspended \in BOOLEAN
    /\ jar \in Jar
    /\ call \in [Call -> CallRec]
    /\ inFlight \in [Tab -> Call \union {NoCall}]
    /\ refresh \in [Call -> RefreshRec]
    /\ applied \in [Call -> Nat]
    /\ open \subseteq Call
    /\ quiet \subseteq Call
    /\ \A c \in Call : call[c].pc = "waiting" =>
          call[c].on \in Call /\ refresh[call[c].on].pc # "none"

\* "Refresh once and retry" (api.ts:94-97): a call is repeated only when it
\* certainly had no effect, so nothing the user does once is done twice.
AppliedOnce == \A c \in Call : applied[c] <= 1

\* "Only loses the ability to write" (tenant-status.guard.ts:14-18): a change is
\* made only for a request that was under way when writing was allowed, however
\* suspensions and reactivations fall between the guard and the handler.
SuspensionHolds ==
    [][\A c \in Call : applied'[c] # applied[c] => c \in open]_vars

\* "A session lasts the refresh-token lifetime rather than the 15 minutes of the
\* access token" (api.ts:94-97): while the browser holds a good refresh token, and
\* no refusal of an earlier one is on its way, no page is told to sign in again,
\* whatever other tabs refresh at the same time.
SessionLasts ==
    [][\A c \in Call :
          (call[c].pc # "ended" /\ call'[c].pc = "ended" /\ c \in quiet')
          => call'[c].code # "unauthorized"]_vars

\* Every call ends, those that wait for a refresh another one began included.
CallsEnd == \A c \in Call : UnderWay(c) ~> call[c].pc = "ended"
=============================================================================
