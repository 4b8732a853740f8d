------------------------------ MODULE Sessions ------------------------------
(***************************************************************************)
(* One account's sessions: signing in with the lockout after too many      *)
(* wrong passwords, the refresh of a token pair, and signing out           *)
(* everywhere (auth.service.ts, token.service.ts, auth.guard.ts).          *)
(*                                                                         *)
(* The server keeps no session: a token is good until it expires, and a    *)
(* refresh token also has to carry the account's present tokenVersion.     *)
(* Requests overlap wherever the code awaits the database or a hash.       *)
(* Time passes in ticks, and every lifetime is a number of them.           *)
(***************************************************************************)
EXTENDS Naturals

CONSTANTS
    Req,           \* request slots: requests under way at a time
    MaxFailed,     \* MAX_FAILED_LOGINS
    LockTime,      \* LOCKOUT_MINUTES
    AccessTTL,     \* lifetime of an access token
    RefreshTTL,    \* lifetime of a refresh token
    MaxVersion,    \* bound on tokenVersion
    MaxStale       \* bound on the wrong answers miscounted in a row

ASSUME SessionsAssumption ==
    /\ MaxFailed \in Nat \ {0}
    /\ LockTime \in Nat \ {0}
    /\ AccessTTL \in Nat \ {0}
    /\ RefreshTTL \in Nat \ {0}
    /\ MaxVersion \in Nat
    /\ MaxStale \in Nat

VARIABLES
    failed,   \* User.failedLoginCount
    locked,   \* ticks until User.lockedUntil is past
    version,  \* User.tokenVersion
    tokens,   \* the tokens issued and not expired, whoever holds them
    req,      \* request -> its local variables
    \* history, of the time since the last right password or the last lock:
    wrong,    \* wrong passwords recorded
    stale,    \* those among them that were added to a count out of date
    \* history:
    racing    \* other attempts under way at the last lock, and still now

accountVars == <<failed, locked, version>>
history == <<wrong, stale, racing>>
vars == <<accountVars, tokens, req, history>>

TTL(kind) == IF kind = "access" THEN AccessTTL ELSE RefreshTTL
Token == {t \in [kind  : {"access", "refresh"},
                 ver   : 0 .. MaxVersion,
                 left  : 1 .. AccessTTL + RefreshTTL] :  \* ticks to live
             t.left <= TTL(t.kind)}

LoginPC == {"right", "wrong"}
Request == [pc     : {"idle", "issue", "logout"} \union LoginPC,
            failed : 0 .. MaxFailed,   \* failedLoginCount as it was read
            ver    : 0 .. MaxVersion]  \* tokenVersion as it was read
Idle == [pc |-> "idle", failed |-> 0, ver |-> 0]

Init ==
    /\ failed = 0
    /\ locked = 0
    /\ version = 0
    /\ tokens = {}
    /\ req = [r \in Req |-> Idle]
    /\ wrong = 0
    /\ stale = 0
    /\ racing = {}

Finish(r) == req' = [req EXCEPT ![r] = Idle]

-----------------------------------------------------------------------------
(* AuthService.login                                                       *)

\* Mutant: a locked account is not turned away.
LoginReadLocked(r, pc) ==
    /\ req[r].pc = "idle"
    /\ req' = [req EXCEPT ![r] = [pc |-> pc, failed |-> failed,
                                  ver |-> version]]
    /\ UNCHANGED <<accountVars, tokens, history>>

\* The account is read and found usable; the password is being compared, and
\* will turn out right or wrong.
LoginRead(r, pc) ==
    /\ req[r].pc = "idle"
    /\ locked = 0
    /\ req' = [req EXCEPT ![r] = [pc |-> pc, failed |-> failed,
                                  ver |-> version]]
    /\ UNCHANGED <<accountVars, tokens, history>>

LoginRight(r) ==
    /\ req[r].pc = "right"
    /\ failed' = 0
    /\ locked' = 0
    /\ wrong' = 0
    /\ stale' = 0
    /\ racing' = racing \ {r}
    /\ req' = [req EXCEPT ![r].pc = "issue"]
    /\ UNCHANGED <<version, tokens>>

\* The history of a wrong answer.
NoteWrong(r, locks) ==
    IF locks
    THEN /\ wrong' = 0
         /\ stale' = 0
         /\ racing' = {q \in Req \ {r} : req[q].pc \in LoginPC}
    ELSE /\ wrong' = wrong + 1
         /\ stale' = IF req[r].failed = failed THEN stale ELSE stale + 1
         /\ stale' <= MaxStale
         /\ racing' = racing \ {r}

\* Mutant: the account locks after more than MAX_FAILED_LOGINS failures.
RecordFailureLate(r) ==
    /\ req[r].pc = "wrong"
    /\ LET locks == req[r].failed >= MaxFailed IN
       /\ failed' = IF locks THEN 0 ELSE req[r].failed + 1
       /\ locked' = IF locks THEN LockTime ELSE 0
       /\ NoteWrong(r, locks)
    /\ Finish(r)
    /\ UNCHANGED <<version, tokens>>

\* recordFailure: the count and the lock are computed from the count read
\* before the password was compared, even if the account has changed since.
RecordFailure(r) ==
    /\ req[r].pc = "wrong"
    /\ LET locks == req[r].failed + 1 >= MaxFailed IN
       /\ failed' = IF locks THEN 0 ELSE req[r].failed + 1
       /\ locked' = IF locks THEN LockTime ELSE 0
       /\ NoteWrong(r, locks)
    /\ Finish(r)
    /\ UNCHANGED <<version, tokens>>

-----------------------------------------------------------------------------
(* Token pairs                                                             *)

New(kind, ver) == [kind |-> kind, ver |-> ver, left |-> TTL(kind)]

\* Mutant: the pair is signed with a version nobody has read.
IssueNewest(r) ==
    /\ req[r].pc = "issue"
    /\ tokens' = tokens \union {New("access", version + 1),
                                New("refresh", version + 1)}
    /\ Finish(r)
    /\ UNCHANGED <<accountVars, history>>

\* issueSession: the version in the pair is the one read earlier.
IssueSession(r) ==
    /\ req[r].pc = "issue"
    /\ tokens' = tokens \union {New("access", req[r].ver),
                                New("refresh", req[r].ver)}
    /\ Finish(r)
    /\ UNCHANGED <<accountVars, history>>

\* Mutant: the version in the token is not compared with the account's.
RefreshUnchecked(r, t) ==
    /\ req[r].pc = "idle"
    /\ t \in tokens /\ t.kind = "refresh"
    /\ locked = 0
    /\ req' = [req EXCEPT ![r] = [pc |-> "issue", failed |-> 0,
                                  ver |-> t.ver]]
    /\ UNCHANGED <<accountVars, tokens, history>>

\* AuthService.refresh, up to its read of the account; the pair is issued after
\* the tenant has been read too.  A refusal changes nothing, and nor does the
\* exchange: the token that was presented stays good until it expires.
Refresh(r, t) ==
    /\ req[r].pc = "idle"
    /\ t \in tokens /\ t.kind = "refresh"
    /\ t.ver = version
    /\ locked = 0
    /\ req' = [req EXCEPT ![r] = [pc |-> "issue", failed |-> 0,
                                  ver |-> version]]
    /\ UNCHANGED <<accountVars, tokens, history>>

-----------------------------------------------------------------------------
(* Signing out everywhere                                                  *)

\* AuthGuard lets the request in on an access token of any version.
LogoutStart(r, t) ==
    /\ req[r].pc = "idle"
    /\ t \in tokens /\ t.kind = "access"
    /\ version < MaxVersion
    /\ req' = [req EXCEPT ![r] = [pc |-> "logout", failed |-> 0,
                                  ver |-> version]]
    /\ UNCHANGED <<accountVars, tokens, history>>

\* Mutant: the new version is computed from one read when the request began.
LogoutEverywhereStale(r) ==
    /\ req[r].pc = "logout"
    /\ version' = req[r].ver + 1
    /\ Finish(r)
    /\ UNCHANGED <<failed, locked, tokens, history>>

\* logoutEverywhere: the database increments the version.
LogoutEverywhere(r) ==
    /\ req[r].pc = "logout"
    /\ version < MaxVersion
    /\ version' = version + 1
    /\ Finish(r)
    /\ UNCHANGED <<failed, locked, tokens, history>>

-----------------------------------------------------------------------------
\* Time passes: a lock runs out, a token expires.
Tick ==
    /\ locked' = IF locked > 0 THEN locked - 1 ELSE 0
    /\ tokens' = {[t EXCEPT !.left = t.left - 1] :
                     t \in {u \in tokens : u.left > 1}}
    /\ UNCHANGED <<failed, version, req, history>>

\* What a request does once it has started.
Step(r) ==
    \/ LoginRight(r)
    \/ RecordFailure(r)
    \/ IssueSession(r)
    \/ LogoutEverywhere(r)

Next ==
    \/ \E r \in Req :
          \/ \E pc \in LoginPC : LoginRead(r, pc)
          \/ \E t \in tokens : Refresh(r, t) \/ LogoutStart(r, t)
          \/ Step(r)
    \/ Tick

\* Time goes on, and a request that has started is answered.
Spec ==
    /\ Init
    /\ [][Next]_vars
    /\ WF_vars(Tick)
    /\ \A r \in Req : WF_vars(Step(r))
-----------------------------------------------------------------------------
(* Properties                                                              *)

\* Every variable has its type.
TypeOK ==
    /\ failed \in 0 .. MaxFailed
    /\ locked \in 0 .. LockTime
    /\ version \in 0 .. MaxVersion
    /\ tokens \subseteq Token
    /\ req \in [Req -> Request]
    /\ wrong \in Nat
    /\ stale \in 0 .. MaxStale
    /\ racing \subseteq {r \in Req : req[r].pc \in LoginPC}

\* "Failed logins allowed before the account locks" (packages/shared/src/
\* auth.ts:51-52): one fewer wrong passwords than the limit are answered between
\* two locks or successes, and as many again for each that was added to a count
\* no longer the account's.
GuessesBounded == wrong <= (MaxFailed - 1) * (1 + stale)

\* "How long an account stays locked after exceeding the limit" (packages/
\* shared/src/auth.ts:54-55): only time ends a lock, or an attempt that was
\* under way already when it was set.
LockLasts ==
    [][locked > 0 /\ locked' # locked =>
          \/ locked' = locked - 1
          \/ \E r \in racing : req'[r].pc \notin LoginPC]_vars

\* The same text as it reads: a wrong password does not lift a lock.
WrongNeverUnlocks ==
    [][\A r \in Req :
          req[r].pc = "wrong" /\ req'[r].pc = "idle" /\ locked > 0
          => locked' > 0]_vars

\* "Bumping that column invalidates every outstanding session at once"
\* (auth.service.ts:94-96): when a sign-out everywhere is done, no refresh token
\* that was ever issued carries the new version, nor will the pair carry it that
\* some request is about to issue.
LogoutKillsAll ==
    [][(\E r \in Req : req[r].pc = "logout" /\ req'[r].pc = "idle") =>
          /\ \A t \in tokens' : t.ver < version'
          /\ \A r \in Req : req'[r].pc = "issue" => req'[r].ver < version']_vars

\* "The access token's short lifetime bounds how long a revoked session
\* survives" (auth.guard.ts:17-19): after a sign-out everywhere every token of
\* the sessions before it is gone in the end, refreshes under way included.
RevokedSessionEnds ==
    \A v \in 0 .. MaxVersion :
        version > v ~> [](\A t \in tokens : t.ver # v)
=============================================================================
