--------------------------- MODULE SessionsProofs ---------------------------
(***************************************************************************)
(* Proofs about Sessions, for any number of overlapping requests and any   *)
(* lifetimes and limits.                                                   *)
(***************************************************************************)
EXTENDS Sessions, TLAPS

LEMMA IdleType == Idle \in Request
  BY SessionsAssumption DEF Idle, Request

LEMMA TokenType ==
    ASSUME NEW kind \in {"access", "refresh"}, NEW ver \in 0 .. MaxVersion
    PROVE  New(kind, ver) \in Token
  BY SessionsAssumption DEF New, Token, TTL

LEMMA OlderType ==
    ASSUME NEW t \in Token, t.left > 1
    PROVE  [t EXCEPT !.left = t.left - 1] \in Token
  BY SessionsAssumption DEF Token, TTL

LEMMA TypeInit == Init => TypeOK
  BY IdleType, SessionsAssumption DEF Init, TypeOK

LEMMA TypeStep ==
    ASSUME TypeOK, NEW r \in Req, Step(r)
    PROVE  TypeOK'
  <1> USE DEF accountVars, history
  <1>1. CASE LoginRight(r)
    BY <1>1, SessionsAssumption DEF LoginRight, TypeOK, Request
  <1>2. CASE RecordFailure(r)
    BY <1>2, IdleType, SessionsAssumption
       DEF RecordFailure, NoteWrong, Finish, Idle, LoginPC, TypeOK, Request
  <1>3. CASE IssueSession(r)
    <2>1. req[r].ver \in 0 .. MaxVersion
      BY DEF TypeOK, Request
    <2>2. tokens' \subseteq Token
      BY <1>3, <2>1, TokenType DEF IssueSession, TypeOK
    <2>3. QED
      BY <1>3, <2>2, IdleType
         DEF IssueSession, Finish, Idle, LoginPC, TypeOK
  <1>4. CASE LogoutEverywhere(r)
    BY <1>4, IdleType, SessionsAssumption
       DEF LogoutEverywhere, Finish, Idle, LoginPC, TypeOK
  <1>5. QED
    BY <1>1, <1>2, <1>3, <1>4 DEF Step

LEMMA TypeNext == TypeOK /\ [Next]_vars => TypeOK'
  <1> SUFFICES ASSUME TypeOK, [Next]_vars PROVE TypeOK'
    OBVIOUS
  <1> USE DEF accountVars, history
  <1>1. ASSUME NEW r \in Req, NEW pc \in LoginPC, LoginRead(r, pc)
        PROVE  TypeOK'
    BY <1>1 DEF LoginRead, TypeOK, Request
  <1>2. ASSUME NEW r \in Req, NEW t \in tokens, Refresh(r, t)
        PROVE  TypeOK'
    <2>1. [pc |-> "issue", failed |-> 0, ver |-> version] \in Request
      BY SessionsAssumption DEF Request, TypeOK
    <2>2. QED
      BY <1>2, <2>1 DEF Refresh, LoginPC, TypeOK
  <1>3. ASSUME NEW r \in Req, NEW t \in tokens, LogoutStart(r, t)
        PROVE  TypeOK'
    <2>1. [pc |-> "logout", failed |-> 0, ver |-> version] \in Request
      BY SessionsAssumption DEF TypeOK, Request
    <2>2. QED
      BY <1>3, <2>1 DEF LogoutStart, LoginPC, TypeOK
  <1>4. ASSUME NEW r \in Req, Step(r)
        PROVE  TypeOK'
    BY <1>4, TypeStep
  <1>5. CASE Tick
    <2>1. tokens' \subseteq Token
      BY <1>5, OlderType DEF Tick, TypeOK
    <2>2. QED
      BY <1>5, <2>1, SessionsAssumption DEF Tick, TypeOK
  <1>6. CASE UNCHANGED vars
    BY <1>6 DEF vars, TypeOK
  <1>7. QED
    BY <1>1, <1>2, <1>3, <1>4, <1>5, <1>6 DEF Next

\* Every reachable state is well typed: the count of failures never passes its
\* limit, and no token outlives its lifetime (auth.service.ts:194-211).
THEOREM TypeCorrect == Spec => []TypeOK
  BY TypeInit, TypeNext, PTL DEF Spec

-----------------------------------------------------------------------------
(* Signing out everywhere.                                                 *)
(* No token and no request carries a version above the account's, which    *)
(* only grows: the version after an increment is carried by none of them.  *)

VersionInv ==
    /\ \A t \in tokens : t.ver <= version
    /\ \A r \in Req : req[r].ver <= version

LEMMA VersionInit == Init => VersionInv
  BY DEF Init, VersionInv, Idle

LEMMA VersionNext == TypeOK /\ VersionInv /\ [Next]_vars => VersionInv'
  <1> SUFFICES ASSUME TypeOK, VersionInv, [Next]_vars PROVE VersionInv'
    OBVIOUS
  <1> USE DEF accountVars, history
  <1>0. /\ version \in Nat
        /\ \A t \in tokens : t \in Token /\ t.ver \in Nat
        /\ \A r \in Req : req[r] \in Request /\ req[r].ver \in Nat
    BY SessionsAssumption DEF TypeOK, Token, Request
  <1>1. ASSUME NEW r \in Req, NEW pc \in LoginPC, LoginRead(r, pc)
        PROVE  VersionInv'
    BY <1>0, <1>1 DEF LoginRead, VersionInv, TypeOK
  <1>2. ASSUME NEW r \in Req, NEW t \in tokens, Refresh(r, t)
        PROVE  VersionInv'
    BY <1>0, <1>2 DEF Refresh, VersionInv, TypeOK
  <1>3. ASSUME NEW r \in Req, NEW t \in tokens, LogoutStart(r, t)
        PROVE  VersionInv'
    BY <1>0, <1>3 DEF LogoutStart, VersionInv, TypeOK, Idle
  <1>4. ASSUME NEW r \in Req, LoginRight(r)
        PROVE  VersionInv'
    BY <1>0, <1>4 DEF LoginRight, VersionInv, TypeOK, Request
  <1>5. ASSUME NEW r \in Req, RecordFailure(r)
        PROVE  VersionInv'
    BY <1>0, <1>5 DEF RecordFailure, Finish, Idle, VersionInv, TypeOK
  <1>6. ASSUME NEW r \in Req, IssueSession(r)
        PROVE  VersionInv'
    BY <1>0, <1>6 DEF IssueSession, Finish, Idle, New, VersionInv, TypeOK
  <1>7. ASSUME NEW r \in Req, LogoutEverywhere(r)
        PROVE  VersionInv'
    BY <1>0, <1>7 DEF LogoutEverywhere, Finish, Idle, VersionInv, TypeOK
  <1>8. CASE Tick
    <2>1. \A t \in tokens : [t EXCEPT !.left = t.left - 1].ver = t.ver
      BY <1>0 DEF Token
    <2>2. QED
      BY <1>8, <2>1 DEF Tick, VersionInv
  <1>9. CASE UNCHANGED vars
    BY <1>9 DEF vars, VersionInv
  <1>10. QED
    BY <1>1, <1>2, <1>3, <1>4, <1>5, <1>6, <1>7, <1>8, <1>9 DEF Next, Step

LEMMA LogoutStep == TypeOK /\ VersionInv /\ [Next]_vars =>
    ((\E r \in Req : req[r].pc = "logout" /\ req'[r].pc = "idle") =>
        /\ \A t \in tokens' : t.ver < version'
        /\ \A r \in Req : req'[r].pc = "issue" => req'[r].ver < version')
  <1> SUFFICES ASSUME TypeOK, VersionInv, [Next]_vars,
                      NEW r \in Req, req[r].pc = "logout", req'[r].pc = "idle"
               PROVE  /\ \A t \in tokens' : t.ver < version'
                      /\ \A q \in Req :
                            req'[q].pc = "issue" => req'[q].ver < version'
    OBVIOUS
  <1> USE DEF accountVars, history
  <1>1. LogoutEverywhere(r)
    <2>1. ASSUME NEW q \in Req, NEW pc \in LoginPC, LoginRead(q, pc)
          PROVE  FALSE
      BY <2>1 DEF LoginRead, TypeOK
    <2>2. ASSUME NEW q \in Req, NEW t \in tokens, Refresh(q, t)
          PROVE  FALSE
      BY <2>2 DEF Refresh, TypeOK
    <2>3. ASSUME NEW q \in Req, NEW t \in tokens, LogoutStart(q, t)
          PROVE  FALSE
      BY <2>3 DEF LogoutStart, TypeOK
    <2>4. ASSUME NEW q \in Req, Step(q)
          PROVE  LogoutEverywhere(r)
      <3>1. req[q].pc # "logout" => FALSE
        BY <2>4 DEF Step, LoginRight, RecordFailure, IssueSession,
                    LogoutEverywhere, Finish, TypeOK
      <3>2. LogoutEverywhere(q)
        BY <2>4, <3>1 DEF Step, LoginRight, RecordFailure, IssueSession
      <3>3. q = r
        BY <3>2 DEF LogoutEverywhere, Finish, TypeOK
      <3>4. QED
        BY <3>2, <3>3
    <2>5. CASE Tick \/ UNCHANGED vars
      BY <2>5 DEF Tick, vars
    <2>6. QED
      BY <2>1, <2>2, <2>3, <2>4, <2>5 DEF Next
  <1>2. /\ version' = version + 1 /\ tokens' = tokens
        /\ \A q \in Req \ {r} : req'[q] = req[q]
    BY <1>1 DEF LogoutEverywhere, Finish, TypeOK
  <1>3. /\ version \in Nat
        /\ \A t \in tokens : t.ver \in Nat
        /\ \A q \in Req : req[q].ver \in Nat
    BY SessionsAssumption DEF TypeOK, Token, Request
  <1>4. QED
    BY <1>2, <1>3 DEF VersionInv

\* When a sign-out everywhere is done no refresh token carries the account's
\* version, and none that a request is about to issue will: not one session
\* from before can be refreshed (auth.service.ts:94-96, 110).
THEOREM SignOutReachesAll == Spec => LogoutKillsAll
  <1>1. Spec => [](TypeOK /\ VersionInv)
    BY TypeInit, TypeNext, VersionInit, VersionNext, PTL DEF Spec
  <1>2. QED
    BY <1>1, LogoutStep, PTL DEF Spec, LogoutKillsAll

-----------------------------------------------------------------------------
(* The lockout.                                                            *)
(* A wrong answer added to the account's present count raises both counts  *)
(* by one.  One added to a count out of date may undo as much of the       *)
(* account's as a count below the limit can hold.                          *)

CountInv ==
    /\ failed <= MaxFailed - 1
    /\ wrong <= failed + stale * (MaxFailed - 1)

LEMMA CountInit == Init => CountInv
  BY SessionsAssumption DEF Init, CountInv

\* A recorded wrong answer keeps the two counts together, or begins anew.
LEMMA CountWrong ==
    ASSUME TypeOK, CountInv, NEW r \in Req, RecordFailure(r)
    PROVE  CountInv'
  <1> DEFINE K == MaxFailed - 1
  <1>1. /\ failed \in Nat /\ wrong \in Nat /\ stale \in Nat
        /\ req[r].failed \in Nat /\ K \in Nat /\ MaxFailed = K + 1
    BY SessionsAssumption DEF TypeOK, Request
  <1>2. failed <= K /\ wrong <= failed + stale * K
    BY DEF CountInv
  <1>3. /\ stale * K \in Nat
        /\ (stale + 1) * K = stale * K + K
    BY <1>1
  <1>4. CASE req[r].failed + 1 >= MaxFailed
    <2>1. failed' = 0 /\ wrong' = 0 /\ stale' = 0
      BY <1>4 DEF RecordFailure, NoteWrong
    <2>2. QED
      BY <1>1, <2>1 DEF CountInv
  <1>5. CASE req[r].failed + 1 < MaxFailed
    <2>1. /\ failed' = req[r].failed + 1
          /\ wrong' = wrong + 1
          /\ stale' = IF req[r].failed = failed THEN stale ELSE stale + 1
      BY <1>1, <1>5 DEF RecordFailure, NoteWrong
    <2>2. failed' <= K
      BY <1>1, <1>5, <2>1
    <2> DEFINE S == stale * K
    <2>3. /\ S \in Nat
          /\ wrong <= failed + S
          /\ stale' * K = IF req[r].failed = failed THEN S ELSE S + K
      BY <1>2, <1>3, <2>1
    <2> HIDE DEF K, S
    <2>4. wrong' <= failed' + stale' * K
      BY <1>1, <1>2, <2>1, <2>3
    <2>5. QED
      BY <2>2, <2>4 DEF CountInv, K
  <1>6. QED
    BY <1>1, <1>4, <1>5

LEMMA CountNext == TypeOK /\ CountInv /\ [Next]_vars => CountInv'
  <1> SUFFICES ASSUME TypeOK, CountInv, [Next]_vars PROVE CountInv'
    OBVIOUS
  <1> USE DEF accountVars, history
  <1>1. ASSUME NEW r \in Req, LoginRight(r)
        PROVE  CountInv'
    BY <1>1, SessionsAssumption DEF LoginRight, CountInv
  <1>2. ASSUME NEW r \in Req, RecordFailure(r)
        PROVE  CountInv'
    BY <1>2, CountWrong
  <1>3. \/ \E r \in Req : LoginRight(r) \/ RecordFailure(r)
        \/ UNCHANGED <<failed, history>>
    BY DEF Next, Step, LoginRead, Refresh, LogoutStart, IssueSession,
           LogoutEverywhere, Tick, vars
  <1>4. ASSUME UNCHANGED <<failed, history>>
        PROVE  CountInv'
    BY <1>4 DEF CountInv
  <1>5. QED
    BY <1>1, <1>2, <1>3, <1>4

\* However password attempts overlap, one fewer wrong passwords than the limit
\* are answered between two locks or successes, and as many again for each that
\* was added to a count out of date (packages/shared/src/auth.ts:51-52).
THEOREM GuessesAreBounded == Spec => []GuessesBounded
  <1>1. TypeOK /\ CountInv => GuessesBounded
    <2> SUFFICES ASSUME TypeOK, CountInv PROVE GuessesBounded
      OBVIOUS
    <2> DEFINE K == MaxFailed - 1
    <2>1. /\ failed \in Nat /\ wrong \in Nat /\ stale \in Nat /\ K \in Nat
          /\ failed <= K /\ wrong <= failed + stale * K
      BY SessionsAssumption DEF TypeOK, CountInv
    <2>2. stale * K \in Nat /\ K * (1 + stale) = stale * K + K
      BY <2>1
    <2>3. wrong <= K * (1 + stale)
      <3> DEFINE S == stale * K
      <3>1. S \in Nat /\ wrong <= failed + S /\ K * (1 + stale) = S + K
        BY <2>1, <2>2
      <3> HIDE DEF K, S
      <3>2. QED
        BY <2>1, <3>1
    <2>4. QED
      BY <2>3 DEF GuessesBounded
  <1>2. QED
    BY <1>1, TypeInit, TypeNext, CountInit, CountNext, PTL DEF Spec

\* While the account is locked, the only attempts under way are those that were
\* under way when it was locked: a new one is turned away.
LockInv ==
    locked > 0 => \A r \in Req : req[r].pc \in LoginPC => r \in racing

LEMMA LockInit == Init => LockInv
  BY DEF Init, LockInv

LEMMA LockNext == TypeOK /\ LockInv /\ [Next]_vars => LockInv'
  <1> SUFFICES ASSUME TypeOK, LockInv, [Next]_vars PROVE LockInv'
    OBVIOUS
  <1> USE DEF accountVars, history, LoginPC
  <1>1. ASSUME NEW r \in Req, NEW pc \in LoginPC, LoginRead(r, pc)
        PROVE  LockInv'
    BY <1>1 DEF LoginRead, LockInv
  <1>2. ASSUME NEW r \in Req, NEW t \in tokens, Refresh(r, t)
        PROVE  LockInv'
    BY <1>2 DEF Refresh, LockInv, TypeOK
  <1>3. ASSUME NEW r \in Req, NEW t \in tokens, LogoutStart(r, t)
        PROVE  LockInv'
    BY <1>3 DEF LogoutStart, LockInv, TypeOK
  <1>4. ASSUME NEW r \in Req, LoginRight(r)
        PROVE  LockInv'
    BY <1>4 DEF LoginRight, LockInv
  <1>5. ASSUME NEW r \in Req, RecordFailure(r)
        PROVE  LockInv'
    <2>1. req'[r].pc = "idle" /\ \A q \in Req \ {r} : req'[q] = req[q]
      BY <1>5 DEF RecordFailure, Finish, Idle, TypeOK
    <2>2. \/ locked' = 0
          \/ racing' = {q \in Req \ {r} : req[q].pc \in LoginPC}
      BY <1>5 DEF RecordFailure, NoteWrong
    <2>3. QED
      BY <2>1, <2>2 DEF LockInv
  <1>6. ASSUME NEW r \in Req, IssueSession(r)
        PROVE  LockInv'
    BY <1>6 DEF IssueSession, Finish, Idle, LockInv, TypeOK
  <1>7. ASSUME NEW r \in Req, LogoutEverywhere(r)
        PROVE  LockInv'
    BY <1>7 DEF LogoutEverywhere, Finish, Idle, LockInv, TypeOK
  <1>8. CASE Tick
    BY <1>8 DEF Tick, LockInv, TypeOK
  <1>9. CASE UNCHANGED vars
    BY <1>9 DEF vars, LockInv
  <1>10. QED
    BY <1>1, <1>2, <1>3, <1>4, <1>5, <1>6, <1>7, <1>8, <1>9 DEF Next, Step

LEMMA LockStep ==
    ASSUME TypeOK, LockInv, [Next]_vars, locked > 0, locked' # locked
    PROVE  \/ locked' = locked - 1
           \/ \E r \in racing : req'[r].pc \notin LoginPC
  <1> USE DEF accountVars, history, LoginPC
  <1>1. ASSUME NEW r \in Req, LoginRight(r) \/ RecordFailure(r)
        PROVE  r \in racing /\ req'[r].pc \notin LoginPC
    <2>1. req[r].pc \in LoginPC
      BY <1>1 DEF LoginRight, RecordFailure
    <2>2. req'[r].pc \notin LoginPC
      BY <1>1 DEF LoginRight, RecordFailure, Finish, Idle, TypeOK, Request
    <2>3. QED
      BY <2>1, <2>2 DEF LockInv
  <1>2. \/ \E r \in Req : LoginRight(r) \/ RecordFailure(r)
        \/ Tick
    BY DEF Next, Step, LoginRead, Refresh, LogoutStart, IssueSession,
           LogoutEverywhere, vars
  <1>3. CASE Tick
    BY <1>3 DEF Tick
  <1>4. QED
    BY <1>1, <1>2, <1>3

\* Time ends a lock, or one of the attempts that were under way when it was set:
\* an attempt that begins while the account is locked never does (packages/
\* shared/src/auth.ts:54-55).
THEOREM LockIsKept == Spec => LockLasts
  <1>1. TypeOK /\ LockInv /\ [Next]_vars =>
            (locked > 0 /\ locked' # locked =>
                \/ locked' = locked - 1
                \/ \E r \in racing : req'[r].pc \notin LoginPC)
    BY LockStep
  <1>2. QED
    BY <1>1, TypeInit, TypeNext, LockInit, LockNext, PTL DEF Spec, LockLasts
=============================================================================
