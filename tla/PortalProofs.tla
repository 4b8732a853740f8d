---------------------------- MODULE PortalProofs ----------------------------
(***************************************************************************)
(* Theorems about Portal, for every number of calls and tabs, and for all  *)
(* lifetimes and bounds: a call that is repeated after a refresh has no    *)
(* effect twice, a suspended tenant loses the ability to write, and a      *)
(* sound session is not lost to the tabs that refresh it at the same time. *)
(***************************************************************************)
EXTENDS Portal, TLAPS

\* Calls and the refreshes they wait for: a refresh lives as long as the call
\* that began it waits for itself, and its tab knows of no other.
Linked ==
    /\ \A c \in Call :
          /\ call[c].pc = "waiting" =>
                call[call[c].on].tab = call[c].tab
          /\ refresh[c].pc # "none" => call[c].pc = "waiting" /\ call[c].on = c
    /\ \A t \in Tab : inFlight[t] # NoCall =>
          refresh[inFlight[t]].pc # "none" /\ call[inFlight[t]].tab = t

TypeInv == TypeOK /\ Linked

LEMMA Bounds ==
    /\ 0 \in Expiry /\ 0 \in Version /\ Empty \in Jar
    /\ \A n \in 1 .. MaxTime, v \in Version :
          /\ n + AccessTTL \in Expiry /\ n + RefreshTTL \in Expiry
          /\ [access |-> n + AccessTTL, refresh |-> n + RefreshTTL, ver |-> v] \in Jar
  <1>1. 0 \in Expiry /\ 0 \in Version
    BY PortalAssumption DEF Expiry, Version
  <1>2. ASSUME NEW n \in 1 .. MaxTime
        PROVE  n + AccessTTL \in Expiry /\ n + RefreshTTL \in Expiry
    BY PortalAssumption DEF Expiry
  <1>3. QED
    BY <1>1, <1>2 DEF Empty, Jar

LEMMA PairType ==
    ASSUME TypeInv, NEW v \in Version
    PROVE  Pair(v) \in Jar
  BY Bounds DEF TypeInv, TypeOK, Pair

LEMMA NewCallType ==
    /\ NewCall \in CallRec /\ NewCall.pc = "new" /\ NewCall.retried = FALSE
    /\ NewCall.set = {} /\ NewCall.on = NoCall
  <1>1. (CHOOSE t \in Tab : TRUE) \in Tab
    BY PortalAssumption
  <1>2. QED
    BY <1>1, Bounds DEF NewCall, CallRec, Kind

LEMMA TypeInit == Init => TypeInv
  <1> SUFFICES ASSUME Init PROVE TypeInv
    OBVIOUS
  <1>1. now \in 1 .. MaxTime /\ version \in Version
    BY PortalAssumption, Bounds DEF Init
  <1>2. jar \in Jar
    BY <1>1, Bounds DEF Init, Pair
  <1>3. call \in [Call -> CallRec] /\ \A c \in Call : call[c].pc = "new"
    BY NewCallType DEF Init
  <1>4. refresh \in [Call -> RefreshRec] /\ \A c \in Call : refresh[c].pc = "none"
    BY Bounds DEF Init, RefreshRec, NoRefresh
  <1>5. TypeOK
    BY <1>1, <1>2, <1>3, <1>4 DEF Init, TypeOK
  <1>6. Linked
    BY <1>3, <1>4 DEF Init, Linked
  <1>7. QED
    BY <1>5, <1>6 DEF TypeInv

-----------------------------------------------------------------------------
(* What one step does to each call.                                        *)

\* The ways a call goes on; none but these changes it.
Stays(d) == call'[d] = call[d]
Sends(d) == /\ call[d].pc = "new" /\ call'[d].pc = "guards"
            /\ ~call'[d].retried
Receives(d) == /\ call[d].pc = "answered" /\ call'[d].pc = "ended"
               /\ call'[d].code = call[d].code
               /\ \/ call[d].code # "unauthorized" \/ call[d].retried
                  \/ IsAuth(call[d].kind)
Waits(d) == /\ call[d].pc = "answered" /\ call[d].code = "unauthorized"
            /\ call'[d].pc = "waiting"
Repeats(d) == call[d].pc = "waiting" /\ call'[d].pc = "guards"
GivesUp(d) == /\ call[d].pc = "waiting" /\ call'[d].pc = "ended"
              /\ \/ call'[d].code = "lost"
                 \/ \E b \in Call :
                      refresh[b].pc = "answered" /\ refresh[b].set = {}
PassesAuth(d) == call[d].pc = "guards" /\ call'[d].pc = "status"
FailsAuth(d) == /\ call[d].pc = "guards" /\ call'[d].pc = "answered"
                /\ call'[d].code = "unauthorized" /\ ~(call[d].access > now)
PassesStatus(d) ==
    /\ call[d].pc = "status" /\ call'[d].pc = "handler"
    /\ call[d].kind = "write" => ~suspended /\ ~suspended'
FailsStatus(d) == /\ call[d].pc = "status" /\ call'[d].pc = "answered"
                  /\ call'[d].code = "refused"
IsHandled(d) == /\ call[d].pc = "handler" /\ call'[d].pc = "answered"
                /\ call'[d].code \in {"ok", "refused"}
Breaks(d) == /\ call[d].pc \in {"guards", "answered"} /\ call'[d].pc = "ended"
             /\ call'[d].code = "lost"

Keeps(d) == call'[d].kind = call[d].kind
KeepsTry(d) == call'[d].retried = call[d].retried

CallMoves(d) ==
    \/ Stays(d)
    \/ Sends(d)
    \/ /\ Keeps(d)
       /\ \/ Receives(d) \/ Waits(d) \/ Repeats(d) \/ GivesUp(d) \/ Breaks(d)
          \/ /\ KeepsTry(d)
             /\ \/ PassesAuth(d) \/ FailsAuth(d) \/ PassesStatus(d)
                \/ FailsStatus(d) \/ IsHandled(d)

\* Only the handler of a write applies anything, and it answers.
Applies(d) ==
    \/ applied'[d] = applied[d]
    \/ /\ applied'[d] = applied[d] + 1 /\ call[d].kind = "write"
       /\ call[d].pc = "handler" /\ call'[d].pc = "answered"
       /\ call'[d].code = "ok"

Others(c) == \A d \in Call \ {c} : call'[d] = call[d]

StepFacts ==
    /\ \A d \in Call : CallMoves(d) /\ Applies(d)
    /\ applied' \in [Call -> Nat]
    /\ Watch

\* A record that replaces that of call c, which does not wait and will not.
LEMMA MoveType ==
    ASSUME TypeInv, NEW c \in Call, NEW n \in CallRec,
           call' = [call EXCEPT ![c] = n], UNCHANGED <<inFlight, refresh>>,
           call[c].pc # "waiting", n.pc # "waiting"
    PROVE  /\ call' \in [Call -> CallRec] /\ Linked'
           /\ \A d \in Call : call'[d].pc = "waiting" =>
                 call'[d].on \in Call /\ refresh'[call'[d].on].pc # "none"
           /\ call'[c] = n /\ Others(c)
  <1> USE DEF TypeInv, TypeOK
  <1>1. call' \in [Call -> CallRec] /\ call'[c] = n /\ Others(c)
    BY DEF Others
  <1>2. \A d \in Call : refresh[d].pc # "none" => d # c
    BY DEF Linked
  <1>3. \A d \in Call : call'[d].pc = "waiting" =>
            call'[d].on \in Call /\ refresh'[call'[d].on].pc # "none"
    BY <1>1 DEF Others
  <1>4. \A d \in Call : call'[d].pc = "waiting" =>
            call'[call'[d].on].tab = call'[d].tab
    BY <1>1, <1>2 DEF Linked, Others
  <1>5. \A d \in Call : refresh'[d].pc # "none" =>
            call'[d].pc = "waiting" /\ call'[d].on = d
    BY <1>1, <1>2 DEF Linked, Others
  <1>6. \A t \in Tab : inFlight'[t] # NoCall =>
            refresh'[inFlight'[t]].pc # "none" /\ call'[inFlight'[t]].tab = t
    BY <1>1, <1>2 DEF Linked, Others
  <1>7. QED
    BY <1>1, <1>3, <1>4, <1>5, <1>6 DEF Linked

Code == {"none", "ok", "unauthorized", "refused", "lost"}

\* What MoveType says of the types, for use in the lemmas on the actions.
Typed == /\ call' \in [Call -> CallRec] /\ Linked'
         /\ \A d \in Call : call'[d].pc = "waiting" =>
               call'[d].on \in Call /\ refresh'[call'[d].on].pc # "none"

LEMMA AnswerFacts ==
    ASSUME TypeInv, NEW c \in Call, NEW code \in Code, NEW set \in SUBSET Jar,
           Answer(c, code, set), UNCHANGED <<inFlight, refresh>>,
           call[c].pc # "waiting"
    PROVE  /\ Typed /\ Others(c) /\ call'[c].pc = "answered" /\ call'[c].code = code
           /\ Keeps(c) /\ KeepsTry(c)
  <1> DEFINE n == [call[c] EXCEPT !.pc = "answered", !.code = code, !.set = set]
  <1>1. call[c] \in CallRec
    BY DEF TypeInv, TypeOK
  <1>2. /\ n \in CallRec /\ n.pc = "answered" /\ n.code = code
        /\ n.kind = call[c].kind /\ n.retried = call[c].retried
    BY <1>1 DEF CallRec, Code
  <1>3. call' = [call EXCEPT ![c] = n]
    BY DEF Answer
  <1> HIDE DEF n
  <1>4. QED
    BY <1>2, <1>3, MoveType DEF Typed, Keeps, KeepsTry

\* A guard lets the request through.
LEMMA PassFacts ==
    ASSUME TypeInv, NEW c \in Call, NEW pc \in {"status", "handler"},
           call' = [call EXCEPT ![c].pc = pc], UNCHANGED <<inFlight, refresh>>,
           call[c].pc # "waiting"
    PROVE  /\ Typed /\ Others(c) /\ call'[c].pc = pc /\ Keeps(c) /\ KeepsTry(c)
  <1> DEFINE n == [call[c] EXCEPT !.pc = pc]
  <1>1. call[c] \in CallRec
    BY DEF TypeInv, TypeOK
  <1>2. /\ n \in CallRec /\ n.pc = pc
        /\ n.kind = call[c].kind /\ n.retried = call[c].retried
    BY <1>1 DEF CallRec
  <1>3. call' = [call EXCEPT ![c] = n]
    OBVIOUS
  <1> HIDE DEF n
  <1>4. QED
    BY <1>2, <1>3, MoveType DEF Typed, Keeps, KeepsTry

LEMMA EndedType ==
    ASSUME NEW rec \in CallRec, NEW code \in Code
    PROVE  /\ Ended(rec, code) \in CallRec /\ Ended(rec, code).pc = "ended"
           /\ Ended(rec, code).kind = rec.kind /\ Ended(rec, code).code = code
  BY NewCallType DEF Ended, CallRec, Code

\* A call is over, and nothing else changes but perhaps the cookies.
LEMMA EndFacts ==
    ASSUME TypeInv, NEW c \in Call, NEW code \in Code,
           call' = [call EXCEPT ![c] = Ended(call[c], code)],
           UNCHANGED <<inFlight, refresh>>, call[c].pc # "waiting"
    PROVE  /\ Typed /\ Others(c) /\ call'[c].pc = "ended" /\ call'[c].code = code
           /\ Keeps(c)
  <1> DEFINE n == Ended(call[c], code)
  <1>1. /\ n \in CallRec /\ n.pc = "ended" /\ n.kind = call[c].kind /\ n.code = code
    BY EndedType DEF TypeInv, TypeOK
  <1> HIDE DEF n
  <1>2. call' = [call EXCEPT ![c] = n]
    BY DEF n
  <1>3. QED
    BY <1>1, <1>2, MoveType DEF Typed, Keeps

LEMMA CookieType ==
    ASSUME TypeInv, NEW exp \in Expiry
    PROVE  Cookie(exp) \in Expiry
  BY Bounds DEF Cookie

LEMMA InstallType ==
    ASSUME TypeInv, NEW set \in SUBSET Jar, Install(set)
    PROVE  jar' \in Jar /\ (set # {} => jar' \in set)
  <1>1. CASE set = {}
    BY <1>1 DEF Install, TypeInv, TypeOK
  <1>2. CASE set # {}
    BY <1>2 DEF Install
  <1>3. QED
    BY <1>1, <1>2

\* The types of what the histories and the rest of the API keep.
LEMMA RestType ==
    ASSUME TypeInv, Typed, Watch,
           now' \in 1 .. MaxTime, version' \in Version, locked' \in BOOLEAN,
           suspended' \in BOOLEAN, jar' \in Jar,
           inFlight' \in [Tab -> Call \union {NoCall}],
           refresh' \in [Call -> RefreshRec], applied' \in [Call -> Nat]
    PROVE  TypeInv'
  BY DEF TypeInv, TypeOK, Typed, Watch

LEMMA SendFacts ==
    ASSUME TypeInv, NEW c \in Call, NEW kind \in Kind, NEW tab \in Tab,
           Send(c, kind, tab), Watch
    PROVE  TypeInv' /\ StepFacts
  <1> USE DEF serverVars
  <1> DEFINE n == [NewCall EXCEPT !.pc = "guards", !.kind = kind, !.tab = tab,
                                  !.access = Cookie(jar.access)]
  <1>1. Cookie(jar.access) \in Expiry
    BY CookieType DEF TypeInv, TypeOK, Jar
  <1>2. n \in CallRec /\ n.pc = "guards" /\ ~n.retried
    BY <1>1, NewCallType DEF CallRec
  <1>3. call' = [call EXCEPT ![c] = n] /\ call[c].pc = "new"
    BY DEF Send
  <1> HIDE DEF n
  <1>4. Typed /\ Others(c) /\ Sends(c)
    BY <1>2, <1>3, MoveType DEF Send, Typed, Sends
  <1>5. StepFacts
    BY <1>4 DEF StepFacts, CallMoves, Stays, Others, Applies, Send, TypeInv, TypeOK
  <1>6. QED
    BY <1>4, <1>5, RestType DEF Send, TypeInv, TypeOK

LEMMA EndingFacts ==
    ASSUME TypeInv, NEW c \in Call, Receive(c) \/ Lost(c), Watch
    PROVE  TypeInv' /\ StepFacts
  <1> USE DEF serverVars
  <1>1. CASE Receive(c)
    <2>1. /\ call[c].pc = "answered" /\ call[c].code \in Code
          /\ call' = [call EXCEPT ![c] = Ended(call[c], call[c].code)]
          /\ \/ call[c].code # "unauthorized" \/ call[c].retried
             \/ IsAuth(call[c].kind)
      BY <1>1 DEF Receive, TypeInv, TypeOK, CallRec, Code
    <2>2. UNCHANGED <<inFlight, refresh>> /\ applied' = applied
      BY <1>1 DEF Receive
    <2>3. Typed /\ Others(c) /\ Receives(c) /\ Keeps(c)
      BY <2>1, <2>2, EndFacts DEF Receives
    <2>4. StepFacts
      BY <2>2, <2>3 DEF StepFacts, CallMoves, Stays, Others, Applies, TypeInv, TypeOK
    <2>5. jar' \in Jar
      BY <1>1, InstallType DEF Receive, TypeInv, TypeOK, CallRec
    <2>6. QED
      BY <1>1, <2>3, <2>4, <2>5, RestType DEF Receive, TypeInv, TypeOK
  <1>2. CASE Lost(c)
    <2>1. /\ call[c].pc \in {"guards", "answered"} /\ "lost" \in Code
          /\ call' = [call EXCEPT ![c] = Ended(call[c], "lost")]
          /\ UNCHANGED <<inFlight, refresh, applied>>
      BY <1>2 DEF Lost, Code
    <2>2. Typed /\ Others(c) /\ Breaks(c) /\ Keeps(c)
      BY <2>1, EndFacts DEF Breaks
    <2>3. StepFacts
      BY <2>1, <2>2 DEF StepFacts, CallMoves, Stays, Others, Applies, TypeInv, TypeOK
    <2>4. QED
      BY <1>2, <2>2, <2>3, RestType DEF Lost, TypeInv, TypeOK
  <1>3. QED
    BY <1>1, <1>2

LEMMA GuardFacts ==
    ASSUME TypeInv, NEW c \in Call, AuthGuard(c) \/ TenantStatusGuard(c), Watch
    PROVE  TypeInv' /\ StepFacts
  <1> USE DEF serverVars
  <1>1. /\ UNCHANGED <<serverVars, jar, inFlight, refresh, applied>>
        /\ call[c].pc # "waiting"
    BY DEF AuthGuard, TenantStatusGuard
  <1>2. "unauthorized" \in Code /\ "refused" \in Code
    BY DEF Code
  <1>3. Typed /\ Others(c) /\ Keeps(c) /\ KeepsTry(c)
        /\ (PassesAuth(c) \/ FailsAuth(c) \/ PassesStatus(c) \/ FailsStatus(c))
    <2>1. CASE AuthGuard(c) /\ call' = [call EXCEPT ![c].pc = "status"]
      BY <1>1, <2>1, PassFacts DEF AuthGuard, PassesAuth
    <2>2. CASE /\ AuthGuard(c) /\ ~(call[c].access > now)
               /\ Answer(c, "unauthorized", {})
      BY <1>1, <1>2, <2>2, AnswerFacts DEF AuthGuard, FailsAuth
    <2>3. CASE /\ TenantStatusGuard(c) /\ (call[c].kind = "write" => ~suspended)
               /\ call' = [call EXCEPT ![c].pc = "handler"]
      <3>1. Typed /\ Others(c) /\ call'[c].pc = "handler" /\ Keeps(c) /\ KeepsTry(c)
        BY <1>1, <2>3, PassFacts
      <3>2. call[c].pc = "status"
        BY <2>3 DEF TenantStatusGuard
      <3>3. call[c].kind = "write" => ~suspended /\ ~suspended'
        BY <1>1, <2>3, Zenon
      <3>4. PassesStatus(c)
        BY <3>1, <3>2, <3>3 DEF PassesStatus
      <3>5. QED
        BY <3>1, <3>4
    <2>4. CASE TenantStatusGuard(c) /\ Answer(c, "refused", {})
      BY <1>1, <1>2, <2>4, AnswerFacts DEF TenantStatusGuard, FailsStatus
    <2>5. QED
      BY <2>1, <2>2, <2>3, <2>4 DEF AuthGuard, TenantStatusGuard
  <1>4. StepFacts
    BY <1>1, <1>3 DEF StepFacts, CallMoves, Stays, Others, Applies, TypeInv, TypeOK
  <1>5. QED
    BY <1>1, <1>3, <1>4, RestType DEF TypeInv, TypeOK

LEMMA HandlerFacts ==
    ASSUME TypeInv, NEW c \in Call, Watch,
           \/ HandlerThrows(c) \/ Read(c) \/ Write(c) \/ Login(c) \/ Logout(c)
           \/ LogoutEverywhere(c)
    PROVE  TypeInv' /\ StepFacts
  <1> USE DEF serverVars
  <1>1. /\ UNCHANGED <<now, locked, suspended, jar, inFlight, refresh>>
        /\ call[c].pc = "handler"
    BY DEF HandlerThrows, Read, Write, Login, Logout, LogoutEverywhere
  <1>2. version' \in Version
    BY PortalAssumption DEF HandlerThrows, Read, Write, Login, Logout,
                            LogoutEverywhere, TypeInv, TypeOK, Version
  <1>3. "ok" \in Code /\ "refused" \in Code
    BY DEF Code
  <1>4. /\ Pair(version) \in Jar /\ Empty \in Jar
    BY PairType, Bounds DEF TypeInv, TypeOK
  <1>5. Typed /\ Others(c) /\ Keeps(c) /\ KeepsTry(c) /\ IsHandled(c)
    <2>1. \E code \in {"ok", "refused"}, set \in SUBSET Jar : Answer(c, code, set)
      BY <1>4 DEF HandlerThrows, Read, Write, Login, Logout, LogoutEverywhere
    <2>2. PICK code \in {"ok", "refused"}, set \in SUBSET Jar : Answer(c, code, set)
      BY <2>1
    <2>3. QED
      BY <1>1, <1>3, <2>2, AnswerFacts DEF IsHandled
  <1>6. applied' \in [Call -> Nat] /\ \A d \in Call : Applies(d)
    <2>1. CASE Write(c)
      <3>1. /\ applied' = [applied EXCEPT ![c] = @ + 1] /\ call[c].kind = "write"
            /\ Answer(c, "ok", {})
        BY <2>1 DEF Write
      <3>2. call'[c].pc = "answered" /\ call'[c].code = "ok"
        BY <1>1, <1>3, <3>1, AnswerFacts
      <3>3. QED
        BY <1>1, <3>1, <3>2 DEF Applies, TypeInv, TypeOK
    <2>2. CASE ~Write(c)
      BY <2>2 DEF HandlerThrows, Read, Login, Logout, LogoutEverywhere, Applies,
                  TypeInv, TypeOK
    <2>3. QED
      BY <2>1, <2>2
  <1>7. StepFacts
    BY <1>5, <1>6 DEF StepFacts, CallMoves, Stays, Others
  <1>8. QED
    BY <1>1, <1>2, <1>5, <1>6, <1>7, RestType DEF TypeInv, TypeOK

\* A call joins the refresh in flight in its tab, or begins one.
LEMMA UnauthorizedFacts ==
    ASSUME TypeInv, NEW c \in Call, ReceiveUnauthorized(c), Watch
    PROVE  TypeInv' /\ StepFacts
  <1> USE DEF serverVars
  <1> DEFINE rec == call[c]
             tab == call[c].tab
             on == IF inFlight[tab] = NoCall THEN c ELSE inFlight[tab]
             n == [rec EXCEPT !.pc = "waiting", !.on = on, !.code = "none"]
             fresh == [NoRefresh EXCEPT !.pc = "sent", !.jar = jar]
  <1>1. /\ rec \in CallRec /\ tab \in Tab /\ rec.pc = "answered"
        /\ rec.code = "unauthorized"
    BY DEF ReceiveUnauthorized, TypeInv, TypeOK, CallRec
  <1>2. on \in Call /\ inFlight[tab] \in Call \union {NoCall}
    BY <1>1, PortalAssumption DEF TypeInv, TypeOK
  <1>3. n \in CallRec /\ n.pc = "waiting" /\ n.on = on /\ n.kind = rec.kind
        /\ n.tab = tab
    BY <1>1, <1>2 DEF CallRec
  <1>4. fresh \in RefreshRec /\ fresh.pc = "sent"
    BY Bounds DEF NoRefresh, RefreshRec, TypeInv, TypeOK
  <1>5. /\ call' = [call EXCEPT ![c] = n]
        /\ inFlight' = [inFlight EXCEPT ![tab] = on]
        /\ refresh' = IF inFlight[tab] = NoCall
                      THEN [refresh EXCEPT ![c] = fresh] ELSE refresh
        /\ UNCHANGED <<serverVars, jar, applied>>
    BY DEF ReceiveUnauthorized
  <1> HIDE DEF n, fresh, on
  <1>6. /\ call' \in [Call -> CallRec] /\ call'[c] = n /\ Others(c)
        /\ inFlight' \in [Tab -> Call \union {NoCall}]
        /\ refresh' \in [Call -> RefreshRec]
    BY <1>2, <1>3, <1>4, <1>5 DEF TypeInv, TypeOK, Others
  <1>7. \A d \in Call : refresh[d].pc # "none" => d # c
    BY <1>1 DEF TypeInv, Linked
  <1>8. \A d \in Call \ {c} : refresh'[d] = refresh[d]
    BY <1>5 DEF TypeInv, TypeOK
  <1>9. ASSUME inFlight[tab] = NoCall PROVE Typed
    <2>1. /\ on = c /\ refresh'[c] = fresh /\ inFlight'[tab] = c
          /\ \A t \in Tab \ {tab} : inFlight'[t] = inFlight[t]
      BY <1>1, <1>5, <1>9 DEF on, TypeInv, TypeOK
    <2>2. \A d \in Call : call'[d].pc = "waiting" =>
              /\ call'[d].on \in Call /\ refresh'[call'[d].on].pc # "none"
              /\ call'[call'[d].on].tab = call'[d].tab
      <3>1. ASSUME NEW d \in Call, d # c, call'[d].pc = "waiting"
            PROVE  /\ call'[d].on \in Call /\ refresh'[call'[d].on].pc # "none"
                   /\ call'[call'[d].on].tab = call'[d].tab
        <4>1. call'[d] = call[d]
          BY <1>6, <3>1 DEF Others
        <4>2. call[d].on \in Call /\ refresh[call[d].on].pc # "none"
              /\ call[call[d].on].tab = call[d].tab
          BY <3>1, <4>1 DEF TypeInv, TypeOK, Linked
        <4>3. call[d].on # c
          BY <1>7, <4>2
        <4>4. QED
          BY <1>6, <1>8, <4>1, <4>2, <4>3 DEF Others
      <3>2. QED
        BY <1>3, <1>4, <1>6, <2>1, <3>1
    <2>3. \A d \in Call : refresh'[d].pc # "none" =>
              call'[d].pc = "waiting" /\ call'[d].on = d
      BY <1>3, <1>6, <1>8, <2>1 DEF TypeInv, Linked, Others
    <2>4. \A t \in Tab : inFlight'[t] # NoCall =>
              refresh'[inFlight'[t]].pc # "none" /\ call'[inFlight'[t]].tab = t
      <3>1. ASSUME NEW t \in Tab, t # tab, inFlight'[t] # NoCall
            PROVE  refresh'[inFlight'[t]].pc # "none" /\ call'[inFlight'[t]].tab = t
        <4>1. /\ inFlight'[t] = inFlight[t] /\ inFlight[t] \in Call
              /\ refresh[inFlight[t]].pc # "none" /\ call[inFlight[t]].tab = t
          BY <2>1, <3>1 DEF TypeInv, TypeOK, Linked
        <4>2. inFlight[t] # c
          BY <1>7, <4>1
        <4>3. QED
          BY <1>6, <1>8, <4>1, <4>2 DEF Others
      <3>2. QED
        BY <1>3, <1>4, <1>6, <2>1, <3>1
    <2>5. QED
      BY <1>6, <2>2, <2>3, <2>4 DEF Typed, Linked
  <1>10. ASSUME inFlight[tab] # NoCall PROVE Typed
    <2>1. /\ on = inFlight[tab] /\ refresh' = refresh /\ on # c
          /\ refresh[on].pc # "none" /\ call[on].tab = tab
      BY <1>1, <1>2, <1>5, <1>7, <1>10 DEF on, TypeInv, Linked
    <2>2. \A t \in Tab : inFlight'[t] = inFlight[t]
      BY <1>1, <1>5, <2>1 DEF TypeInv, TypeOK
    <2>3. \A d \in Call : call'[d].pc = "waiting" =>
              /\ call'[d].on \in Call /\ refresh'[call'[d].on].pc # "none"
              /\ call'[call'[d].on].tab = call'[d].tab
      <3>1. ASSUME NEW d \in Call, d # c, call'[d].pc = "waiting"
            PROVE  /\ call'[d].on \in Call /\ refresh'[call'[d].on].pc # "none"
                   /\ call'[call'[d].on].tab = call'[d].tab
        <4>1. call'[d] = call[d]
          BY <1>6, <3>1 DEF Others
        <4>2. call[d].on \in Call /\ refresh[call[d].on].pc # "none"
              /\ call[call[d].on].tab = call[d].tab
          BY <3>1, <4>1 DEF TypeInv, TypeOK, Linked
        <4>3. call[d].on # c
          BY <1>7, <4>2
        <4>4. QED
          BY <1>6, <2>1, <4>1, <4>2, <4>3 DEF Others
      <3>2. QED
        BY <1>2, <1>3, <1>6, <2>1, <3>1 DEF Others
    <2>4. \A d \in Call : refresh'[d].pc # "none" =>
              call'[d].pc = "waiting" /\ call'[d].on = d
      BY <1>6, <1>7, <2>1 DEF TypeInv, Linked, Others
    <2>5. \A t \in Tab : inFlight'[t] # NoCall =>
              refresh'[inFlight'[t]].pc # "none" /\ call'[inFlight'[t]].tab = t
      <3> SUFFICES ASSUME NEW t \in Tab, inFlight[t] # NoCall
                   PROVE  refresh[inFlight[t]].pc # "none" /\ call'[inFlight[t]].tab = t
        BY <2>1, <2>2
      <3>1. /\ inFlight[t] \in Call
            /\ refresh[inFlight[t]].pc # "none" /\ call[inFlight[t]].tab = t
        BY DEF TypeInv, TypeOK, Linked
      <3>2. QED
        BY <1>6, <1>7, <3>1 DEF Others
    <2>6. QED
      BY <1>6, <2>3, <2>4, <2>5 DEF Typed, Linked
  <1>11. Typed
    BY <1>9, <1>10
  <1>12. StepFacts
    BY <1>1, <1>3, <1>5, <1>6
       DEF StepFacts, CallMoves, Stays, Others, Waits, Keeps, Applies, TypeInv, TypeOK
  <1>13. QED
    BY <1>5, <1>6, <1>11, <1>12, RestType DEF TypeInv, TypeOK

\* A refresh settles: its callers go on or give up, and it is forgotten.
LEMMA SettleFacts ==
    ASSUME TypeInv, NEW b \in Call, NEW ok \in BOOLEAN, NEW code \in Code,
           refresh[b].pc # "none", Settle(b, ok, code), jar' \in Jar, Watch,
           \/ ok
           \/ code = "lost"
           \/ refresh[b].pc = "answered" /\ refresh[b].set = {}
    PROVE  TypeInv' /\ StepFacts
  <1> USE DEF serverVars
  <1> DEFINE tab == call[b].tab
             again(d) == [call[d] EXCEPT !.pc = "guards", !.retried = TRUE,
                                         !.on = NoCall,
                                         !.access = Cookie(jar'.access)]
             next(d) == IF d \notin Waiting(b) THEN call[d]
                        ELSE IF ok THEN again(d) ELSE Ended(call[d], code)
  <1>1. /\ inFlight' = [inFlight EXCEPT ![tab] = NoCall]
        /\ refresh' = [refresh EXCEPT ![b] = NoRefresh]
        /\ call' = [d \in Call |-> next(d)]
        /\ UNCHANGED <<serverVars, applied>>
    BY DEF Settle
  <1>2. Cookie(jar'.access) \in Expiry
    BY CookieType DEF Jar
  <1>3. ASSUME NEW d \in Waiting(b)
        PROVE  /\ d \in Call /\ call[d].pc = "waiting" /\ call[d] \in CallRec
               /\ again(d) \in CallRec /\ again(d).pc = "guards"
               /\ again(d).kind = call[d].kind
               /\ Ended(call[d], code) \in CallRec
               /\ Ended(call[d], code).pc = "ended"
               /\ Ended(call[d], code).kind = call[d].kind
               /\ Ended(call[d], code).code = code
    <2>1. d \in Call /\ call[d].pc = "waiting" /\ call[d] \in CallRec
      BY <1>3 DEF Waiting, TypeInv, TypeOK
    <2>2. again(d) \in CallRec /\ again(d).pc = "guards"
          /\ again(d).kind = call[d].kind
      BY <1>2, <2>1 DEF CallRec
    <2>3. QED
      BY <2>1, <2>2, EndedType
  <1> HIDE DEF again
  <1>4. ASSUME NEW d \in Call
        PROVE  /\ call'[d] \in CallRec /\ CallMoves(d)
               /\ call'[d].pc = "waiting" => call'[d] = call[d] /\ d \notin Waiting(b)
    <2>1. CASE d \notin Waiting(b)
      BY <1>1, <2>1 DEF CallMoves, Stays, TypeInv, TypeOK
    <2>2. CASE d \in Waiting(b) /\ ok
      <3>1. call'[d] = again(d)
        BY <1>1, <2>2
      <3>2. Keeps(d) /\ Repeats(d)
        BY <1>3, <2>2, <3>1 DEF Keeps, Repeats
      <3>3. QED
        BY <1>3, <2>2, <3>1, <3>2 DEF CallMoves
    <2>3. CASE d \in Waiting(b) /\ ~ok
      <3>1. call'[d] = Ended(call[d], code)
        BY <1>1, <2>3
      <3>2. Keeps(d) /\ GivesUp(d)
        BY <1>3, <2>3, <3>1 DEF Keeps, GivesUp
      <3>3. QED
        BY <1>3, <2>3, <3>1, <3>2 DEF CallMoves
    <2>4. QED
      BY <2>1, <2>2, <2>3
  <1>5. \A d \in Call : d \notin Waiting(b) => call'[d] = call[d]
    BY <1>1
  <1>6. /\ NoRefresh \in RefreshRec /\ NoRefresh.pc = "none"
        /\ tab \in Tab
    BY Bounds DEF NoRefresh, RefreshRec, TypeInv, TypeOK, CallRec
  <1>7. /\ refresh'[b].pc = "none" /\ refresh' \in [Call -> RefreshRec]
        /\ inFlight'[tab] = NoCall /\ inFlight' \in [Tab -> Call \union {NoCall}]
        /\ \A d \in Call \ {b} : refresh'[d] = refresh[d]
        /\ \A t \in Tab \ {tab} : inFlight'[t] = inFlight[t]
    BY <1>1, <1>6 DEF TypeInv, TypeOK
  \* What waits now waits for another refresh, and so does who began that.
  <1>8. ASSUME NEW d \in Call, refresh[d].pc # "none", d # b
        PROVE  /\ call'[d] = call[d] /\ call[d].pc = "waiting" /\ call[d].on = d
               /\ refresh'[d].pc # "none"
    BY <1>5, <1>7, <1>8 DEF Waiting, TypeInv, Linked
  <1>9. \A d \in Call : call'[d].pc = "waiting" =>
            /\ call'[d].on \in Call /\ refresh'[call'[d].on].pc # "none"
            /\ call'[call'[d].on].tab = call'[d].tab
    <2> SUFFICES ASSUME NEW d \in Call, call'[d].pc = "waiting"
                 PROVE  /\ call'[d].on \in Call
                        /\ refresh'[call'[d].on].pc # "none"
                        /\ call'[call'[d].on].tab = call'[d].tab
      OBVIOUS
    <2>1. call'[d] = call[d] /\ d \notin Waiting(b)
      BY <1>4
    <2>2. /\ call[d].on \in Call /\ refresh[call[d].on].pc # "none"
          /\ call[call[d].on].tab = call[d].tab
      BY <2>1 DEF TypeInv, TypeOK, Linked
    <2>3. call[d].on # b
      BY <2>1 DEF Waiting
    <2>4. QED
      BY <1>8, <2>1, <2>2, <2>3
  <1>10. \A d \in Call : refresh'[d].pc # "none" =>
             call'[d].pc = "waiting" /\ call'[d].on = d
    BY <1>7, <1>8
  <1>11. \A t \in Tab : inFlight'[t] # NoCall =>
             refresh'[inFlight'[t]].pc # "none" /\ call'[inFlight'[t]].tab = t
    <2> SUFFICES ASSUME NEW t \in Tab, inFlight'[t] # NoCall
                 PROVE  /\ refresh'[inFlight'[t]].pc # "none"
                        /\ call'[inFlight'[t]].tab = t
      OBVIOUS
    <2>1. t # tab /\ inFlight'[t] = inFlight[t] /\ inFlight[t] \in Call
      BY <1>7 DEF TypeInv, TypeOK
    <2>2. refresh[inFlight[t]].pc # "none" /\ call[inFlight[t]].tab = t
      BY <2>1 DEF TypeInv, Linked
    <2>3. inFlight[t] # b
      BY <2>1, <2>2
    <2>4. QED
      BY <1>8, <2>1, <2>2, <2>3
  <1>12. call' \in [Call -> CallRec]
    BY <1>1, <1>4
  <1>13. Typed
    BY <1>9, <1>10, <1>11, <1>12 DEF Typed, Linked
  <1>14. StepFacts
    BY <1>1, <1>4 DEF StepFacts, Applies, TypeInv, TypeOK
  <1>15. QED
    BY <1>1, <1>7, <1>13, <1>14, RestType DEF TypeInv, TypeOK

LEMMA SettlingFacts ==
    ASSUME TypeInv, NEW b \in Call, RefreshArrives(b) \/ RefreshLost(b), Watch
    PROVE  TypeInv' /\ StepFacts
  <1>1. "unauthorized" \in Code /\ "lost" \in Code
    BY DEF Code
  <1>2. CASE RefreshArrives(b)
    <2>1. /\ refresh[b].pc = "answered" /\ Install(refresh[b].set)
          /\ Settle(b, refresh[b].set # {}, "unauthorized")
      BY <1>2 DEF RefreshArrives
    <2>2. jar' \in Jar
      BY <2>1, InstallType DEF TypeInv, TypeOK, RefreshRec
    <2>3. CASE refresh[b].set # {}
      <3>1. Settle(b, TRUE, "unauthorized")
        BY <2>1, <2>3
      <3>2. QED
        BY <1>1, <2>1, <2>2, <3>1, SettleFacts
    <2>4. CASE refresh[b].set = {}
      <3>1. Settle(b, FALSE, "unauthorized")
        BY <2>1, <2>4
      <3>2. QED
        BY <1>1, <2>1, <2>2, <2>4, <3>1, SettleFacts
    <2>5. QED
      BY <2>3, <2>4
  <1>3. CASE RefreshLost(b)
    <2>1. /\ refresh[b].pc # "none" /\ Settle(b, FALSE, "lost") /\ jar' \in Jar
      BY <1>3 DEF RefreshLost, TypeInv, TypeOK
    <2>2. QED
      BY <1>1, <2>1, SettleFacts
  <1>4. QED
    BY <1>2, <1>3

\* Nothing but the refreshes, the clock, the account and the tenant changes.
LEMMA CallsStay ==
    ASSUME TypeInv, Watch, UNCHANGED <<call, inFlight, applied>>,
           refresh' \in [Call -> RefreshRec],
           \A d \in Call : refresh'[d].pc # "none" <=> refresh[d].pc # "none"
    PROVE  Typed /\ StepFacts
  <1>1. Typed
    BY DEF Typed, Linked, TypeInv, TypeOK
  <1>2. StepFacts
    BY DEF StepFacts, CallMoves, Stays, Applies, TypeInv, TypeOK
  <1>3. QED
    BY <1>1, <1>2

LEMMA RefreshFacts ==
    ASSUME TypeInv, NEW b \in Call, RefreshRead(b) \/ RefreshIssue(b), Watch
    PROVE  TypeInv' /\ StepFacts
  <1> USE DEF serverVars
  <1>1. /\ refresh' \in [Call -> RefreshRec]
        /\ \A d \in Call : refresh'[d].pc # "none" <=> refresh[d].pc # "none"
    <2>1. CASE RefreshRead(b)
      BY <2>1 DEF RefreshRead, TypeInv, TypeOK, RefreshRec
    <2>2. CASE RefreshIssue(b)
      <3>1. Pair(refresh[b].jar.ver) \in Jar /\ Empty \in Jar
        BY PairType, Bounds DEF TypeInv, TypeOK, RefreshRec, Jar
      <3> DEFINE n == [refresh[b] EXCEPT !.pc = "answered", !.jar = Empty,
                                         !.set = {Pair(refresh[b].jar.ver)}]
      <3>2. n \in RefreshRec /\ n.pc = "answered"
        BY <3>1 DEF TypeInv, TypeOK, RefreshRec
      <3>3. refresh' = [refresh EXCEPT ![b] = n] /\ refresh[b].pc = "read"
        BY <2>2 DEF RefreshIssue
      <3> HIDE DEF n
      <3>4. QED
        BY <3>2, <3>3 DEF TypeInv, TypeOK
    <2>3. QED
      BY <2>1, <2>2
  <1>2. UNCHANGED <<serverVars, jar, call, inFlight, applied>>
    BY DEF RefreshRead, RefreshIssue
  <1>3. QED
    BY <1>1, <1>2, CallsStay, RestType DEF TypeInv, TypeOK

LEMMA AroundFacts ==
    ASSUME TypeInv, SetStatus \/ OtherDevice \/ Lock \/ Tick, Watch
    PROVE  TypeInv' /\ StepFacts
  <1> USE DEF serverVars, clientVars
  <1>1. UNCHANGED <<clientVars, applied>>
    BY DEF SetStatus, OtherDevice, Lock, Tick
  <1>2. /\ now' \in 1 .. MaxTime /\ version' \in Version
        /\ locked' \in BOOLEAN /\ suspended' \in BOOLEAN
    <2> USE PortalAssumption DEF TypeInv, TypeOK, Version
    <2>1. CASE SetStatus
      BY <2>1 DEF SetStatus
    <2>2. CASE OtherDevice
      BY <2>2 DEF OtherDevice
    <2>3. CASE Lock
      BY <2>3 DEF Lock
    <2>4. CASE Tick
      <3>1. now' = now + 1 /\ now < MaxTime /\ now \in 1 .. MaxTime
        BY <2>4 DEF Tick
      <3>2. now' \in 1 .. MaxTime
        BY <3>1
      <3>3. QED
        BY <2>4, <3>2 DEF Tick
    <2>5. QED
      BY <2>1, <2>2, <2>3, <2>4
  <1>3. Typed /\ StepFacts
    BY <1>1, CallsStay DEF TypeInv, TypeOK
  <1>4. QED
    BY <1>1, <1>2, <1>3, RestType DEF TypeInv, TypeOK

LEMMA NextFacts ==
    ASSUME TypeInv, Next
    PROVE  TypeInv' /\ StepFacts
  <1>1. ASSUME NEW c \in Call, Step(c) PROVE TypeInv' /\ StepFacts
    BY <1>1, EndingFacts, UnauthorizedFacts, SettlingFacts, GuardFacts,
       HandlerFacts, RefreshFacts DEF Step
  <1>2. QED
    BY <1>1, SendFacts, EndingFacts, SettlingFacts, AroundFacts DEF Next

LEMMA TypeNext == TypeInv /\ [Next]_vars => TypeInv'
  <1>1. TypeInv /\ UNCHANGED vars => TypeInv'
    BY DEF vars, serverVars, clientVars, TypeInv, TypeOK, Linked
  <1>2. QED
    BY <1>1, NextFacts

\* Every variable keeps its type and every call that waits has a refresh to
\* wait for, whatever answers are lost and however many calls of a tab share
\* one (api.ts:58-92): none is left behind when the promise settles.
THEOREM TypeCorrect == Spec => []TypeOK
  <1>1. Spec => []TypeInv
    BY TypeInit, TypeNext, PTL DEF Spec
  <1>2. TypeInv => TypeOK
    BY DEF TypeInv
  <1>3. QED
    BY <1>1, <1>2, PTL

-----------------------------------------------------------------------------
(* A call has its effect once.                                             *)

\* What was applied was answered with success, which is never repeated.
AppliedInv ==
    \A c \in Call :
        /\ applied[c] <= 1
        /\ applied[c] # 0 => \/ call[c].pc = "answered" /\ call[c].code = "ok"
                             \/ call[c].pc = "ended"

LEMMA AppliedInit == Init => AppliedInv
  BY DEF Init, AppliedInv

LEMMA AppliedNext ==
    ASSUME TypeInv, AppliedInv, [Next]_vars
    PROVE  AppliedInv'
  <1>1. CASE UNCHANGED vars
    BY <1>1 DEF vars, clientVars, AppliedInv
  <1>2. CASE Next
    <2> SUFFICES ASSUME NEW c \in Call
                 PROVE  /\ applied'[c] <= 1
                        /\ applied'[c] # 0 =>
                              \/ call'[c].pc = "answered" /\ call'[c].code = "ok"
                              \/ call'[c].pc = "ended"
      BY DEF AppliedInv
    <2>1. CallMoves(c) /\ Applies(c)
      BY <1>2, NextFacts DEF StepFacts
    <2>2. applied[c] \in Nat
      BY DEF TypeInv, TypeOK
    <2>3. CASE applied[c] # 0
      <3>1. \/ call[c].pc = "answered" /\ call[c].code = "ok"
            \/ call[c].pc = "ended"
        BY <2>3 DEF AppliedInv
      <3>2. applied'[c] = applied[c]
        BY <2>1, <3>1 DEF Applies
      <3>3. \/ call'[c].pc = "answered" /\ call'[c].code = "ok"
            \/ call'[c].pc = "ended"
        BY <2>1, <3>1 DEF CallMoves, Stays, Sends, Receives, Waits, Repeats,
             GivesUp, PassesAuth, FailsAuth, PassesStatus, FailsStatus,
             IsHandled, Breaks
      <3>4. QED
        BY <3>2, <3>3 DEF AppliedInv
    <2>4. CASE applied[c] = 0
      BY <2>1, <2>4 DEF Applies
    <2>5. QED
      BY <2>3, <2>4
  <1>3. QED
    BY <1>1, <1>2

\* "Refresh once and retry" (api.ts:94-97): only a call the guard turned away is
\* sent again, so no call has its effect twice, for any number of calls and
\* tabs and whatever is lost.
THEOREM EffectsAreSingle == Spec => []AppliedOnce
  <1>1. TypeInv /\ AppliedInv /\ [Next]_vars => (TypeInv /\ AppliedInv)'
    BY TypeNext, AppliedNext
  <1>2. Spec => [](TypeInv /\ AppliedInv)
    BY <1>1, TypeInit, AppliedInit, PTL DEF Spec
  <1>3. AppliedInv => AppliedOnce
    BY DEF AppliedInv, AppliedOnce
  <1>4. QED
    BY <1>2, <1>3, PTL

-----------------------------------------------------------------------------
(* A suspended tenant does not write.                                      *)

\* A write past the status guard was under way while writing was allowed.
OpenInv ==
    \A c \in Call : call[c].kind = "write" /\ call[c].pc = "handler" => c \in open

LEMMA OpenInit == Init => OpenInv
  BY NewCallType DEF Init, OpenInv

LEMMA OpenNext ==
    ASSUME TypeInv, OpenInv, [Next]_vars
    PROVE  OpenInv'
  <1>1. CASE UNCHANGED vars
    BY <1>1 DEF vars, clientVars, OpenInv
  <1>2. CASE Next
    <2> SUFFICES ASSUME NEW c \in Call, call'[c].kind = "write",
                        call'[c].pc = "handler"
                 PROVE  c \in open'
      BY DEF OpenInv
    <2>1. CallMoves(c) /\ Watch
      BY <1>2, NextFacts DEF StepFacts
    <2>2. Stays(c) \/ (PassesStatus(c) /\ Keeps(c))
      BY <2>1 DEF CallMoves, Sends, Receives, Waits, Repeats, GivesUp, PassesAuth,
                  FailsAuth, FailsStatus, IsHandled, Breaks
    <2>3. c \in open \/ ~suspended'
      BY <2>2 DEF Stays, PassesStatus, Keeps, OpenInv
    <2>4. QED
      BY <2>1, <2>3 DEF Watch
  <1>3. QED
    BY <1>1, <1>2

\* A change is made only for a request that was under way while writing was
\* allowed (tenant-status.guard.ts:14-18), however suspensions fall between the
\* guard and the handler.
THEOREM SuspensionIsKept == Spec => SuspensionHolds
  <1>1. TypeInv /\ OpenInv /\ [Next]_vars => (TypeInv /\ OpenInv)'
    BY TypeNext, OpenNext
  <1>2. Spec => [](TypeInv /\ OpenInv)
    BY <1>1, TypeInit, OpenInit, PTL DEF Spec
  <1>3. TypeInv /\ OpenInv /\ [Next]_vars =>
            [\A c \in Call : applied'[c] # applied[c] => c \in open]_vars
    BY NextFacts DEF StepFacts, Applies, OpenInv
  <1>4. QED
    BY <1>2, <1>3, PTL DEF Spec, SuspensionHolds

-----------------------------------------------------------------------------
(* A sound session lasts.                                                  *)

\* A quiet call that was repeated is not turned away again.
QuietInv ==
    /\ quiet # {} => SessionSound
    /\ \A c \in quiet :
          /\ ~IsAuth(call[c].kind)
          /\ call[c].retried /\ call[c].pc = "answered" =>
                call[c].code # "unauthorized"

LEMMA QuietInit == Init => QuietInv
  BY DEF Init, QuietInv

LEMMA QuietNext ==
    ASSUME TypeInv, QuietInv, [Next]_vars
    PROVE  QuietInv'
  <1>1. CASE UNCHANGED vars
    BY <1>1 DEF vars, serverVars, clientVars, QuietInv, SessionSound, Live
  <1>2. CASE Next
    <2>1. Watch /\ \A c \in Call : CallMoves(c)
      BY <1>2, NextFacts DEF StepFacts
    <2>2. quiet' # {} => SessionSound'
      BY <2>1 DEF Watch
    <2>3. ASSUME NEW c \in quiet'
          PROVE  /\ ~IsAuth(call'[c].kind)
                 /\ call'[c].retried /\ call'[c].pc = "answered" =>
                       call'[c].code # "unauthorized"
      <3>1. /\ c \in Call /\ ~IsAuth(call'[c].kind) /\ call'[c].pc # "new"
            /\ call[c].pc = "new" \/ c \in quiet
        BY <2>1, <2>3 DEF Watch
      <3> SUFFICES ASSUME call'[c].retried, call'[c].pc = "answered"
                   PROVE  call'[c].code # "unauthorized"
        BY <3>1
      <3>2. CASE call[c].pc = "new"
        BY <2>1, <3>1, <3>2 DEF CallMoves, Stays, Sends, Receives, Waits, Repeats,
             GivesUp, PassesAuth, FailsAuth, PassesStatus, FailsStatus,
             IsHandled, Breaks
      <3>3. CASE call[c].pc # "new"
        <4>1. c \in quiet /\ SessionSound
          BY <3>1, <3>3 DEF QuietInv
        <4>2. CallMoves(c)
          BY <2>1, <3>1
        <4>3. ~(FailsAuth(c) /\ KeepsTry(c))
          BY <3>1, <4>1 DEF SessionSound, FailsAuth, KeepsTry
        <4>4. \/ Stays(c)
              \/ FailsStatus(c) \/ IsHandled(c)
          BY <4>2, <4>3 DEF CallMoves, Sends, Receives, Waits, Repeats,
               GivesUp, PassesAuth, PassesStatus, Breaks
        <4>5. QED
          <5>1. CASE Stays(c)
            BY <4>1, <5>1 DEF Stays, QuietInv
          <5>2. CASE FailsStatus(c) \/ IsHandled(c)
            BY <5>2 DEF FailsStatus, IsHandled
          <5>3. QED
            BY <4>4, <5>1, <5>2
      <3>4. QED
        BY <3>2, <3>3
    <2>4. QED
      BY <2>2, <2>3 DEF QuietInv
  <1>3. QED
    BY <1>1, <1>2

LEMMA QuietEnds ==
    ASSUME TypeInv, QuietInv, Next, NEW c \in Call,
           call[c].pc # "ended", call'[c].pc = "ended", c \in quiet'
    PROVE  call'[c].code # "unauthorized"
  <1>1. CallMoves(c) /\ Watch
    BY NextFacts DEF StepFacts
  <1>2. call[c].pc # "new"
    BY <1>1 DEF CallMoves, Stays, Sends, Receives, Waits, Repeats,
             GivesUp, PassesAuth, FailsAuth, PassesStatus, FailsStatus,
             IsHandled, Breaks
  <1>3. c \in quiet /\ SessionSound
    BY <1>1, <1>2 DEF Watch, QuietInv
  <1>4. Receives(c) \/ GivesUp(c) \/ Breaks(c)
    BY <1>1 DEF CallMoves, Stays, Sends, Waits, Repeats, PassesAuth, FailsAuth,
             PassesStatus, FailsStatus, IsHandled
  <1>5. CASE Receives(c)
    <2>1. /\ ~IsAuth(call[c].kind)
          /\ call[c].retried => call[c].code # "unauthorized"
      BY <1>3, <1>5 DEF Receives, QuietInv
    <2>2. QED
      BY <1>5, <2>1 DEF Receives
  <1>6. CASE GivesUp(c)
    BY <1>3, <1>6 DEF GivesUp, SessionSound
  <1>7. CASE Breaks(c)
    BY <1>7 DEF Breaks
  <1>8. QED
    BY <1>4, <1>5, <1>6, <1>7

\* While the browser's session is sound no page is told to sign in again, for
\* any number of tabs that refresh it at the same time and any lifetimes of
\* the tokens (api.ts:58-97).
THEOREM SoundSessionLasts == Spec => SessionLasts
  <1>1. TypeInv /\ QuietInv /\ [Next]_vars => (TypeInv /\ QuietInv)'
    BY TypeNext, QuietNext
  <1>2. Spec => [](TypeInv /\ QuietInv)
    BY <1>1, TypeInit, QuietInit, PTL DEF Spec
  <1>3. TypeInv /\ QuietInv /\ [Next]_vars =>
            [\A c \in Call :
                (call[c].pc # "ended" /\ call'[c].pc = "ended" /\ c \in quiet')
                => call'[c].code # "unauthorized"]_vars
    BY QuietEnds
  <1>4. QED
    BY <1>2, <1>3, PTL DEF Spec, SessionLasts
=============================================================================
