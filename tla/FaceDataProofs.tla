--------------------------- MODULE FaceDataProofs ---------------------------
(***************************************************************************)
(* Theorems about FaceData, for every set of members, codes and requests,  *)
(* and for every combination of faults.                                    *)
(***************************************************************************)
EXTENDS FaceData, TLAPS

\* A request's loop variables stay within the number of captures it was sent.
LoopOK ==
    \A r \in Req :
        /\ call[r].pc = "new" => call[r].count = 0
        /\ call[r].pc \in {"putImage", "createRow"} => call[r].left > 0
        /\ call[r].count + call[r].left <= MaxImages

TypeInv == TypeOK /\ LoopOK

LEMMA NoCallType == NoCall \in Call
  <1>1. (CHOOSE m \in Member : TRUE) \in Member
    BY FaceDataAssumption
  <1>2. (CHOOSE s \in Subject : TRUE) \in Subject
    <2>1. PICK m \in Member, c \in Code : TRUE
      BY FaceDataAssumption
    <2>2. <<m, c>> \in Subject
      BY DEF Subject
    <2>3. QED
      BY <2>2
  <1>3. 0 \in 0 .. MaxImages
    BY FaceDataAssumption
  <1>4. QED
    BY <1>1, <1>2, <1>3 DEF NoCall, Call

LEMMA TypeInit == Init => TypeInv
  <1> SUFFICES ASSUME Init PROVE TypeInv
    OBVIOUS
  <1>1. call \in [Req -> Call]
    BY NoCallType DEF Init
  <1>2. LoopOK
    BY FaceDataAssumption DEF Init, LoopOK, NoCall
  <1>3. QED
    BY <1>1, <1>2 DEF TypeInv, TypeOK, Init

\* Records of requests, one field after the other.
LEMMA CallEnrols ==
    ASSUME NEW c \in Call, NEW m \in Member, NEW s \in Subject,
           NEW n \in 0 .. MaxImages
    PROVE  [c EXCEPT !.pc = "addFace", !.op = "enrol", !.member = m,
                     !.subject = s, !.left = n] \in Call
  BY DEF Call, EnrolPC

LEMMA CallErases ==
    ASSUME NEW c \in Call, NEW pc \in ErasePC \union EndPC,
           NEW op \in {"erase", "withdraw"}, NEW m \in Member,
           NEW ts \in SUBSET Row, NEW none \in BOOLEAN
    PROVE  [c EXCEPT !.pc = pc, !.op = op, !.member = m,
                     !.templates = ts, !.cleared = none] \in Call
  BY DEF Call

LEMMA DeleteType ==
    ASSUME TypeInv, NEW s, DeleteSubject(s)
    PROVE  engine' \subseteq engine /\ lost' \subseteq Face
  BY DEF DeleteSubject, WithoutSubject, TypeInv, TypeOK, EngineFace

LEMMA CallEngineGone ==
    ASSUME NEW c \in Call, NEW key \in BOOLEAN
    PROVE  [c EXCEPT !.pc = "images", !.cleared = key] \in Call
  BY DEF Call, ErasePC

LEMMA CallCaptures ==
    ASSUME NEW c \in Call, NEW left \in 0 .. MaxImages,
           NEW count \in 0 .. MaxImages
    PROVE  [c EXCEPT !.pc = "addFace", !.left = left, !.count = count] \in Call
  BY DEF Call, EnrolPC

LEMMA CallEnds ==
    ASSUME NEW c \in Call, NEW pc \in EndPC, NEW op \in {"enrol"},
           NEW m \in Member
    PROVE  [c EXCEPT !.pc = pc, !.op = op, !.member = m] \in Call
  BY DEF Call

\* A request may be given any other record.
LEMMA CallType ==
    ASSUME TypeInv, NEW r \in Req, NEW c \in Call,
           call' = [call EXCEPT ![r] = c]
    PROVE  call' \in [Req -> Call]
  BY DEF TypeInv, TypeOK

LEMMA TypeStart ==
    ASSUME TypeInv, NEW r \in Req, Start(r)
    PROVE  TypeInv'
  <1> USE FaceDataAssumption DEF TypeInv, TypeOK, MayStart,
          memberVars, tenantVars, faceVars
  <1>1. ASSUME NEW m \in Member, NEW n \in MIN_IMAGES .. MaxImages,
               EnrolStart(r, m, n)
        PROVE  TypeInv'
    <2>1. <<m, code[m]>> \in Subject
      BY DEF Subject
    <2>2. n \in 0 .. MaxImages /\ n > 0
      BY DEF MIN_IMAGES
    <2>3. call' \in [Req -> Call]
      <3> DEFINE new == [call[r] EXCEPT !.pc = "addFace", !.op = "enrol",
                                        !.member = m, !.subject = <<m, code[m]>>,
                                        !.left = n]
      <3>1. new \in Call
        BY <2>1, <2>2, CallEnrols
      <3>2. call' = [call EXCEPT ![r] = new]
        BY <1>1 DEF EnrolStart
      <3> HIDE DEF new
      <3>3. QED
        BY <3>1, <3>2, CallType
    <2>4. LoopOK'
      BY <1>1, <2>2 DEF EnrolStart, LoopOK, Call
    <2>5. QED
      BY <1>1, <2>3, <2>4 DEF EnrolStart
  <1>2. ASSUME NEW m \in Member, EnrolRefused(r, m)
        PROVE  TypeInv'
    <2> DEFINE new == [call[r] EXCEPT !.pc = "failed", !.op = "enrol",
                                      !.member = m]
    <2>1. new \in Call
      BY CallEnds DEF EndPC
    <2>2. call' = [call EXCEPT ![r] = new]
      BY <1>2 DEF EnrolRefused
    <2>3. new.pc = "failed" /\ new.count = call[r].count
          /\ new.left = call[r].left
      BY DEF Call
    <2> HIDE DEF new
    <2>4. call' \in [Req -> Call]
      BY <2>1, <2>2, CallType
    <2>5. LoopOK'
      BY <2>2, <2>3 DEF LoopOK
    <2>6. QED
      BY <1>2, <2>4, <2>5 DEF EnrolRefused
  <1>3. ASSUME NEW m \in Member, NEW op \in {"erase", "withdraw"},
               EraseStart(r, m, op)
        PROVE  TypeInv'
    <2>1. RowsOf(m) \in SUBSET Row
      BY DEF RowsOf
    <2> DEFINE none == RowsOf(m) = {}
               pc == IF none THEN AfterErase(op) ELSE "engine"
    <2>2. call' \in [Req -> Call]
      <3>1. pc \in ErasePC \union EndPC /\ none \in BOOLEAN
        BY DEF AfterErase, ErasePC, EndPC
      <3> DEFINE new == [call[r] EXCEPT !.pc = pc, !.op = op, !.member = m,
                                        !.templates = RowsOf(m),
                                        !.cleared = none]
      <3>2. call' = [call EXCEPT ![r] = new]
        BY <1>3 DEF EraseStart
      <3> HIDE DEF none, pc
      <3>3. new \in Call
        BY <2>1, <3>1, CallErases
      <3> HIDE DEF new
      <3>4. QED
        BY <3>2, <3>3, CallType
    <2>3. LoopOK'
      BY <1>3 DEF EraseStart, AfterErase, LoopOK, Call
    <2>4. QED
      BY <1>3, <2>2, <2>3 DEF EraseStart
  <1>4. QED
    BY <1>1, <1>2, <1>3 DEF Start

LEMMA GotoType ==
    ASSUME TypeInv, NEW r \in Req,
           NEW pc \in EnrolPC \union ErasePC \union EndPC,
           pc \in {"putImage", "createRow"} => call[r].left > 0,
           Goto(r, pc)
    PROVE  call' \in [Req -> Call] /\ LoopOK'
  <1> USE FaceDataAssumption DEF TypeInv, TypeOK, Goto
  <1>1. call' \in [Req -> Call]
    BY DEF Call
  <1>2. LoopOK'
    BY DEF Call, LoopOK, EnrolPC, ErasePC, EndPC
  <1>3. QED
    BY <1>1, <1>2

LEMMA NextImageType ==
    ASSUME TypeInv, NEW r \in Req, NEW ok \in BOOLEAN,
           call[r].left > 0, NextImage(r, ok)
    PROVE  call' \in [Req -> Call] /\ LoopOK'
  <1> DEFINE left == call[r].left - 1
             count == IF ok THEN call[r].count + 1 ELSE call[r].count
  <1>1. call[r].left \in 0 .. MaxImages /\ call[r].count \in 0 .. MaxImages
    BY DEF TypeInv, TypeOK, Call
  <1>2. call[r].count + call[r].left <= MaxImages
    BY DEF TypeInv, LoopOK
  <1>3. left \in 0 .. MaxImages /\ count \in 0 .. MaxImages
        /\ count + left <= MaxImages
    BY <1>1, <1>2, FaceDataAssumption
  <1>4. call' = [call EXCEPT ![r] = [@ EXCEPT !.pc = "addFace", !.left = left,
                                              !.count = count]]
    BY DEF NextImage
  <1> HIDE DEF left, count
  <1> DEFINE new == [call[r] EXCEPT !.pc = "addFace", !.left = left,
                                    !.count = count]
  <1>5. call[r] \in Call
    BY DEF TypeInv, TypeOK
  <1>6. new \in Call
    BY <1>3, <1>5, CallCaptures
  <1>7. new.pc = "addFace" /\ new.left = left /\ new.count = count
    BY <1>5 DEF Call
  <1>8. call' = [call EXCEPT ![r] = new]
    BY <1>4
  <1> HIDE DEF new
  <1>9. call' \in [Req -> Call]
    BY <1>6, <1>8, CallType
  <1>10. LoopOK'
    BY <1>3, <1>7, <1>8 DEF TypeInv, LoopOK
  <1>11. QED
    BY <1>9, <1>10

LEMMA CaptureType ==
    ASSUME TypeInv, NEW r \in Req, call[r].left > 0
    PROVE  /\ Capture(r) \in Face
           /\ RowFor(r) \in Row
           /\ [face |-> Capture(r), subject |-> call[r].subject] \in EngineFace
  <1>1. call[r].left \in 1 .. MaxImages
    BY FaceDataAssumption DEF TypeInv, TypeOK, Call
  <1>2. Capture(r) \in Face
    BY <1>1 DEF Capture, Face
  <1>3. call[r].subject \in Subject /\ call[r].member \in Member
    BY DEF TypeInv, TypeOK, Call
  <1>4. storeImages \in BOOLEAN
    BY DEF TypeInv, TypeOK
  <1>5. QED
    BY <1>2, <1>3, <1>4 DEF RowFor, Row, EngineFace

LEMMA TypeStep ==
    ASSUME TypeInv, NEW r \in Req, Step(r)
    PROVE  TypeInv'
  <1> USE FaceDataAssumption DEF memberVars, tenantVars, faceVars
  <1>1. CASE ImageRejected(r)
    BY <1>1, NextImageType DEF ImageRejected, AtImage, TypeInv, TypeOK
  <1>2. CASE AddFace(r)
    <2>1. call[r].left > 0 /\ AddToEngine(r)
      BY <1>2 DEF AddFace, AtImage
    <2>2. call' \in [Req -> Call] /\ LoopOK'
      <3>1. CASE storeImages
        BY <1>2, <2>1, <3>1, GotoType DEF AddFace, EnrolPC
      <3>2. CASE ~storeImages
        BY <1>2, <2>1, <3>2, GotoType DEF AddFace, EnrolPC
      <3>3. QED
        BY <3>1, <3>2
    <2>3. QED
      BY <1>2, <2>1, <2>2, CaptureType DEF AddFace, AddToEngine, TypeInv, TypeOK
  <1>3. CASE PutImage(r)
    <2>1. call[r].left > 0
      BY <1>3 DEF PutImage, TypeInv, LoopOK
    <2>2. call' \in [Req -> Call] /\ LoopOK'
      BY <1>3, <2>1, GotoType DEF PutImage, EnrolPC
    <2>3. QED
      BY <1>3, <2>1, <2>2, CaptureType DEF PutImage, TypeInv, TypeOK
  <1>4. CASE CreateRow(r)
    <2>1. call[r].left > 0
      BY <1>4 DEF CreateRow, TypeInv, LoopOK
    <2>2. call' \in [Req -> Call] /\ LoopOK'
      BY <1>4, <2>1, NextImageType DEF CreateRow
    <2>3. QED
      BY <1>4, <2>1, <2>2, CaptureType DEF CreateRow, TypeInv, TypeOK
  <1>5. CASE EnrolDone(r)
    <2>1. call' \in [Req -> Call] /\ LoopOK'
      BY <1>5, GotoType DEF EnrolDone, EndPC
    <2>2. call[r].member \in Member
      BY DEF TypeInv, TypeOK, Call
    <2>3. QED
      BY <1>5, <2>1, <2>2 DEF EnrolDone, TypeInv, TypeOK
  <1>6. CASE EnrolNone(r)
    <2>1. call' \in [Req -> Call] /\ LoopOK'
      BY <1>6, GotoType DEF EnrolNone, EndPC
    <2>2. QED
      BY <1>6, <2>1 DEF EnrolNone, TypeInv, TypeOK
  <1>7. CASE EraseEngine(r)
    <2>1. PICK key \in BOOLEAN : key = apiKey
      BY DEF TypeInv, TypeOK
    <2>2. call' \in [Req -> Call]
      <3> DEFINE new == [call[r] EXCEPT !.pc = "images", !.cleared = key]
      <3>1. call' = [call EXCEPT ![r] = new]
        BY <1>7, <2>1 DEF EraseEngine
      <3>2. new \in Call
        BY CallEngineGone DEF TypeInv, TypeOK
      <3> HIDE DEF new
      <3>3. QED
        BY <3>1, <3>2, CallType
    <2>3. LoopOK'
      BY <1>7 DEF EraseEngine, TypeInv, TypeOK, Call, LoopOK
    <2>4. engine' \subseteq engine /\ lost' \subseteq Face
      BY <1>7, DeleteType DEF EraseEngine, TypeInv, TypeOK
    <2>5. QED
      BY <1>7, <2>2, <2>3, <2>4 DEF EraseEngine, TypeInv, TypeOK
  <1>8. ASSUME NEW t \in call[r].templates, EraseImage(r, t)
        PROVE  TypeInv'
    <2>1. call' \in [Req -> Call]
      BY <1>8 DEF EraseImage, TypeInv, TypeOK, Call
    <2>2. LoopOK'
      BY <1>8 DEF EraseImage, TypeInv, TypeOK, Call, LoopOK
    <2>3. store' \subseteq store
      BY <1>8 DEF EraseImage
    <2>4. QED
      BY <1>8, <2>1, <2>2, <2>3 DEF EraseImage, TypeInv, TypeOK
  <1>9. CASE EraseRows(r)
    <2>1. call' \in [Req -> Call] /\ LoopOK'
      BY <1>9, GotoType DEF EraseRows, ErasePC
    <2>2. QED
      BY <1>9, <2>1 DEF EraseRows, TypeInv, TypeOK
  <1>10. CASE EraseFlag(r)
    <2>1. AfterErase(call[r].op) \in {"clearConsent", "done"}
      BY DEF AfterErase
    <2>2. call' \in [Req -> Call] /\ LoopOK'
      BY <1>10, <2>1, GotoType DEF EraseFlag, ErasePC, EndPC
    <2>3. QED
      BY <1>10, <2>2 DEF EraseFlag, TypeInv, TypeOK
  <1>11. CASE WithdrawConsent(r)
    <2>1. call' \in [Req -> Call] /\ LoopOK'
      BY <1>11, GotoType DEF WithdrawConsent, EndPC
    <2>2. call[r].member \in Member
      BY DEF TypeInv, TypeOK, Call
    <2>3. QED
      BY <1>11, <2>1, <2>2 DEF WithdrawConsent, TypeInv, TypeOK
  <1>12. QED
    BY <1>1, <1>2, <1>3, <1>4, <1>5, <1>6, <1>7, <1>8, <1>9, <1>10, <1>11
       DEF Step

LEMMA TypeFail ==
    ASSUME TypeInv, NEW r \in Req, Fail(r)
    PROVE  TypeInv'
  <1> USE DEF memberVars, tenantVars, faceVars
  <1>1. CASE AddFaceLate(r)
    <2>1. call[r].left > 0 /\ AddToEngine(r)
      BY <1>1 DEF AddFaceLate, AtImage
    <2>2. call' \in [Req -> Call] /\ LoopOK'
      BY <1>1, <2>1, NextImageType DEF AddFaceLate
    <2>3. QED
      BY <1>1, <2>1, <2>2, CaptureType
         DEF AddFaceLate, AddToEngine, TypeInv, TypeOK
  <1>2. CASE PutImageFails(r)
    <2>1. call[r].left > 0
      BY <1>2 DEF PutImageFails, TypeInv, LoopOK
    <2>2. call' \in [Req -> Call] /\ LoopOK'
      BY <1>2, <2>1, NextImageType DEF PutImageFails
    <2>3. QED
      BY <1>2, <2>1, <2>2, CaptureType DEF PutImageFails, TypeInv, TypeOK
  <1>3. CASE CreateRowFails(r)
    <2>1. call[r].left > 0
      BY <1>3 DEF CreateRowFails, TypeInv, LoopOK
    <2>2. call' \in [Req -> Call] /\ LoopOK'
      BY <1>3, <2>1, NextImageType DEF CreateRowFails
    <2>3. QED
      BY <1>3, <2>1, <2>2, CaptureType DEF CreateRowFails, TypeInv, TypeOK
  <1>4. CASE EraseEngineFails(r)
    <2>1. call' \in [Req -> Call] /\ LoopOK'
      BY <1>4, GotoType DEF EraseEngineFails, EndPC
    <2>2. engine' \subseteq engine /\ lost' \subseteq Face
      BY <1>4, DeleteType DEF EraseEngineFails, TypeInv, TypeOK
    <2>3. QED
      BY <1>4, <2>1, <2>2 DEF EraseEngineFails, TypeInv, TypeOK
  <1>5. CASE StatementFails(r)
    <2>1. call' \in [Req -> Call] /\ LoopOK'
      BY <1>5, GotoType DEF StatementFails, EndPC
    <2>2. QED
      BY <1>5, <2>1 DEF StatementFails, TypeInv, TypeOK
  <1>6. QED
    BY <1>1, <1>2, <1>3, <1>4, <1>5 DEF Fail

LEMMA TypeEdit ==
    ASSUME TypeInv, Edit
    PROVE  TypeInv'
  <1> USE DEF memberVars, tenantVars, faceVars, TypeInv, TypeOK
  <1>1. ASSUME NEW m \in Member, RecordConsent(m)
        PROVE  TypeInv'
    BY <1>1 DEF RecordConsent, LoopOK
  <1>2. ASSUME NEW m \in Member, NEW c \in Code, NEW granted \in BOOLEAN,
               UpdateMember(m, c, granted)
        PROVE  TypeInv'
    BY <1>2 DEF UpdateMember, LoopOK
  <1>3. ASSUME Provision
        PROVE  TypeInv'
    BY <1>3 DEF Provision, LoopOK
  <1>4. QED
    BY <1>1, <1>2, <1>3 DEF Edit

LEMMA TypeCrash ==
    ASSUME TypeInv, Crash
    PROVE  TypeInv'
  <1> USE DEF TypeInv, TypeOK, memberVars, tenantVars, faceVars, Crash
  <1>1. ASSUME NEW r \in Req
        PROVE  [call[r] EXCEPT !.pc = IF InFlight(r) THEN "failed" ELSE @]
                   \in Call
    <2>1. call[r] \in Call
      OBVIOUS
    <2>2. (IF InFlight(r) THEN "failed" ELSE call[r].pc)
              \in {"new"} \union EnrolPC \union ErasePC \union EndPC
      BY <2>1 DEF Call, EndPC
    <2>3. QED
      BY <2>1, <2>2 DEF Call
  <1>2. call' \in [Req -> Call]
    BY <1>1
  <1>3. LoopOK'
    BY FaceDataAssumption DEF LoopOK, Call
  <1>4. QED
    BY <1>2, <1>3

LEMMA TypeNext == TypeInv /\ [Next]_vars => TypeInv'
  <1> SUFFICES ASSUME TypeInv, [Next]_vars PROVE TypeInv'
    OBVIOUS
  <1>1. ASSUME NEW r \in Req, Start(r) \/ Step(r) \/ Fail(r)
        PROVE  TypeInv'
    BY <1>1, TypeStart, TypeStep, TypeFail
  <1>2. CASE Edit
    BY <1>2, TypeEdit
  <1>3. CASE Crash
    BY <1>3, TypeCrash
  <1>4. CASE UNCHANGED vars
    BY <1>4 DEF vars, memberVars, tenantVars, faceVars, TypeInv, TypeOK, LoopOK
  <1>5. QED
    BY <1>1, <1>2, <1>3, <1>4 DEF Next

\* Every reachable state is well typed, whatever faults happen: in particular
\* no enrolment counts more captures than it was sent (enrolment.service.ts:
\* 108-161).
THEOREM TypeCorrect == Spec => []TypeOK
  <1>1. Spec => []TypeInv
    BY TypeInit, TypeNext, PTL DEF Spec
  <1>2. TypeInv => TypeOK
    BY DEF TypeInv
  <1>3. QED
    BY <1>1, <1>2, PTL

-----------------------------------------------------------------------------
(* Nothing is stored of a member who never consented.                      *)
(* The gate is at the start of enrol and the faces are written many steps  *)
(* later, so the invariant follows the member through the request: what    *)
(* a request in the enrolment loop writes belongs to a member whose        *)
(* consent was on record when it started.                                  *)

ConsentInv ==
    /\ consent \subseteq everConsented
    /\ \A e \in engine : e.subject[1] \in everConsented
    /\ \A t \in rows : t.member \in everConsented
    /\ \A f \in store : /\ call[f[1]].pc # "new"
                        /\ call[f[1]].member \in everConsented
    /\ \A r \in Req : call[r].pc \in EnrolPC =>
          /\ call[r].member \in everConsented
          /\ call[r].subject[1] = call[r].member

\* A step of the requests that starts no enrolment.
CallKept ==
    \A q \in Req :
        /\ call[q].pc # "new" => /\ call'[q].pc # "new"
                                 /\ call'[q].member = call[q].member
        /\ call'[q].pc \in EnrolPC => /\ call[q].pc \in EnrolPC
                                      /\ call'[q].member = call[q].member
                                      /\ call'[q].subject = call[q].subject

\* What is new in a store was written by an enrolment under way.
Traced ==
    /\ \A e \in engine' \ engine :
          \E r \in Req : call[r].pc \in EnrolPC /\ e.subject = call[r].subject
    /\ \A t \in rows' \ rows :
          \E r \in Req : call[r].pc \in EnrolPC /\ t.member = call[r].member
    /\ \A f \in store' \ store : f[1] \in Req /\ call[f[1]].pc \in EnrolPC

ConsentGrows ==
    /\ everConsented \subseteq everConsented'
    /\ consent' \subseteq everConsented'

LEMMA KeptPreserves ==
    ASSUME TypeInv, ConsentInv, CallKept, Traced, ConsentGrows
    PROVE  ConsentInv'
  <1>1. \A e \in engine' : e.subject[1] \in everConsented'
    BY DEF ConsentInv, Traced, ConsentGrows
  <1>2. \A t \in rows' : t.member \in everConsented'
    BY DEF ConsentInv, Traced, ConsentGrows
  <1>3. ASSUME NEW f \in store'
        PROVE  call'[f[1]].pc # "new" /\ call'[f[1]].member \in everConsented'
    <2>1. f[1] \in Req
      BY <1>3 DEF Traced, TypeInv, TypeOK, Face
    <2>2. /\ call[f[1]].pc # "new"
          /\ call[f[1]].member \in everConsented
      BY <1>3, <2>1 DEF ConsentInv, Traced, EnrolPC
    <2>3. QED
      BY <2>1, <2>2 DEF CallKept, ConsentGrows
  <1>4. \A r \in Req : call'[r].pc \in EnrolPC =>
            /\ call'[r].member \in everConsented'
            /\ call'[r].subject[1] = call'[r].member
    BY DEF ConsentInv, CallKept, ConsentGrows
  <1>5. QED
    BY <1>1, <1>2, <1>3, <1>4 DEF ConsentInv, ConsentGrows

LEMMA GotoKept ==
    ASSUME TypeInv, NEW r \in Req, NEW pc,
           Goto(r, pc), call[r].pc # "new", pc # "new",
           pc \in EnrolPC => call[r].pc \in EnrolPC
    PROVE  CallKept
  BY DEF Goto, CallKept, TypeInv, TypeOK, Call

LEMMA NextImageKept ==
    ASSUME TypeInv, NEW r \in Req, NEW ok,
           NextImage(r, ok), call[r].pc \in EnrolPC
    PROVE  CallKept
  BY DEF NextImage, CallKept, TypeInv, TypeOK, Call, EnrolPC

LEMMA ConsentStart ==
    ASSUME TypeInv, ConsentInv, NEW r \in Req, Start(r)
    PROVE  ConsentInv'
  <1> USE DEF memberVars, tenantVars, faceVars
  <1>1. ASSUME NEW m \in Member, NEW n \in MIN_IMAGES .. MaxImages,
               EnrolStart(r, m, n)
        PROVE  ConsentInv'
    <2>1. /\ call[r].pc = "new"
          /\ m \in everConsented
          /\ code[m] \in Code
          /\ everConsented' = everConsented /\ consent' = consent
          /\ engine' = engine /\ store' = store /\ rows' = rows
      BY <1>1 DEF EnrolStart, MayStart, ConsentInv, TypeInv, TypeOK
    <2>2. /\ call'[r].member = m
          /\ call'[r].subject = <<m, code[m]>>
          /\ \A q \in Req \ {r} : call'[q] = call[q]
      BY <1>1 DEF EnrolStart, TypeInv, TypeOK, Call
    <2>3. \A f \in store : f[1] \in Req /\ f[1] # r
      BY <2>1 DEF ConsentInv, TypeInv, TypeOK, Face
    <2>4. \A f \in store' : /\ call'[f[1]].pc # "new"
                            /\ call'[f[1]].member \in everConsented'
      BY <2>1, <2>2, <2>3 DEF ConsentInv
    <2>5. \A q \in Req : call'[q].pc \in EnrolPC =>
              /\ call'[q].member \in everConsented'
              /\ call'[q].subject[1] = call'[q].member
      BY <2>1, <2>2 DEF ConsentInv
    <2>6. QED
      BY <2>1, <2>4, <2>5 DEF ConsentInv
  <1>2. ASSUME NEW m \in Member, EnrolRefused(r, m)
        PROVE  ConsentInv'
    <2>1. CallKept
      BY <1>2 DEF EnrolRefused, MayStart, CallKept, EnrolPC, TypeInv, TypeOK, Call
    <2>2. QED
      BY <1>2, <2>1, KeptPreserves DEF EnrolRefused, Traced, ConsentGrows, ConsentInv
  <1>3. ASSUME NEW m \in Member, NEW op \in {"erase", "withdraw"},
               EraseStart(r, m, op)
        PROVE  ConsentInv'
    <2>1. CallKept
      BY <1>3
         DEF EraseStart, MayStart, AfterErase, CallKept, EnrolPC, TypeInv,
             TypeOK, Call
    <2>2. QED
      BY <1>3, <2>1, KeptPreserves DEF EraseStart, Traced, ConsentGrows, ConsentInv
  <1>4. QED
    BY <1>1, <1>2, <1>3 DEF Start

LEMMA ConsentStep ==
    ASSUME TypeInv, ConsentInv, NEW r \in Req, Step(r)
    PROVE  ConsentInv'
  <1> USE DEF memberVars, tenantVars, faceVars
  <1> SUFFICES CallKept /\ Traced /\ ConsentGrows
    BY KeptPreserves
  <1>1. CASE ImageRejected(r)
    BY <1>1, NextImageKept
       DEF ImageRejected, AtImage, EnrolPC, Traced, ConsentGrows, ConsentInv
  <1>2. CASE AddFace(r)
    <2>1. CallKept
      BY <1>2, GotoKept DEF AddFace, AtImage, EnrolPC
    <2>2. Traced
      BY <1>2 DEF AddFace, AddToEngine, AtImage, EnrolPC, Traced
    <2>3. QED
      BY <1>2, <2>1, <2>2 DEF AddFace, ConsentGrows, ConsentInv
  <1>3. CASE PutImage(r)
    <2>1. CallKept
      BY <1>3, GotoKept DEF PutImage, EnrolPC
    <2>2. Traced
      BY <1>3 DEF PutImage, Capture, EnrolPC, Traced
    <2>3. QED
      BY <1>3, <2>1, <2>2 DEF PutImage, ConsentGrows, ConsentInv
  <1>4. CASE CreateRow(r)
    <2>1. CallKept
      BY <1>4, NextImageKept DEF CreateRow, EnrolPC
    <2>2. Traced
      BY <1>4 DEF CreateRow, RowFor, EnrolPC, Traced
    <2>3. QED
      BY <1>4, <2>1, <2>2 DEF CreateRow, ConsentGrows, ConsentInv
  <1>5. CASE EnrolDone(r)
    BY <1>5, GotoKept
       DEF EnrolDone, AtEnrolEnd, EnrolPC, Traced, ConsentGrows, ConsentInv
  <1>6. CASE EnrolNone(r)
    BY <1>6, GotoKept
       DEF EnrolNone, AtEnrolEnd, EnrolPC, Traced, ConsentGrows, ConsentInv
  <1>7. CASE EraseEngine(r)
    <2>1. CallKept
      BY <1>7 DEF EraseEngine, CallKept, EnrolPC, TypeInv, TypeOK, Call
    <2>2. engine' \subseteq engine
      BY <1>7 DEF EraseEngine, DeleteSubject, WithoutSubject
    <2>3. QED
      BY <1>7, <2>1, <2>2 DEF EraseEngine, Traced, ConsentGrows, ConsentInv
  <1>8. ASSUME NEW t \in call[r].templates, EraseImage(r, t)
        PROVE  CallKept /\ Traced /\ ConsentGrows
    <2>1. CallKept
      BY <1>8 DEF EraseImage, CallKept, EnrolPC, TypeInv, TypeOK, Call
    <2>2. store' \subseteq store
      BY <1>8 DEF EraseImage
    <2>3. QED
      BY <1>8, <2>1, <2>2 DEF EraseImage, Traced, ConsentGrows, ConsentInv
  <1>9. CASE EraseRows(r)
    BY <1>9, GotoKept
       DEF EraseRows, AtEraseRows, EnrolPC, Traced, ConsentGrows, ConsentInv
  <1>10. CASE EraseFlag(r)
    BY <1>10, GotoKept
       DEF EraseFlag, AfterErase, EnrolPC, Traced, ConsentGrows, ConsentInv
  <1>11. CASE WithdrawConsent(r)
    BY <1>11, GotoKept
       DEF WithdrawConsent, EnrolPC, Traced, ConsentGrows, ConsentInv
  <1>12. QED
    BY <1>1, <1>2, <1>3, <1>4, <1>5, <1>6, <1>7, <1>8, <1>9, <1>10, <1>11
       DEF Step

LEMMA ConsentFail ==
    ASSUME TypeInv, ConsentInv, NEW r \in Req, Fail(r)
    PROVE  ConsentInv'
  <1> USE DEF memberVars, tenantVars, faceVars
  <1> SUFFICES CallKept /\ Traced /\ ConsentGrows
    BY KeptPreserves
  <1>1. CASE AddFaceLate(r)
    <2>1. CallKept
      BY <1>1, NextImageKept DEF AddFaceLate, AtImage, EnrolPC
    <2>2. Traced
      BY <1>1 DEF AddFaceLate, AddToEngine, AtImage, EnrolPC, Traced
    <2>3. QED
      BY <1>1, <2>1, <2>2 DEF AddFaceLate, ConsentGrows, ConsentInv
  <1>2. CASE PutImageFails(r)
    <2>1. CallKept
      BY <1>2, NextImageKept DEF PutImageFails, EnrolPC
    <2>2. Traced
      BY <1>2 DEF PutImageFails, Capture, EnrolPC, Traced
    <2>3. QED
      BY <1>2, <2>1, <2>2 DEF PutImageFails, ConsentGrows, ConsentInv
  <1>3. CASE CreateRowFails(r)
    <2>1. CallKept
      BY <1>3, NextImageKept DEF CreateRowFails, EnrolPC
    <2>2. Traced
      BY <1>3 DEF CreateRowFails, RowFor, EnrolPC, Traced
    <2>3. QED
      BY <1>3, <2>1, <2>2 DEF CreateRowFails, ConsentGrows, ConsentInv
  <1>4. CASE EraseEngineFails(r)
    <2>1. CallKept
      BY <1>4, GotoKept DEF EraseEngineFails, EnrolPC
    <2>2. engine' \subseteq engine
      BY <1>4 DEF EraseEngineFails, DeleteSubject, WithoutSubject
    <2>3. QED
      BY <1>4, <2>1, <2>2 DEF EraseEngineFails, Traced, ConsentGrows, ConsentInv
  <1>5. CASE StatementFails(r)
    BY <1>5, GotoKept
       DEF StatementFails, AtEnrolEnd, AtEraseRows, EnrolPC, Traced,
           ConsentGrows, ConsentInv
  <1>6. QED
    BY <1>1, <1>2, <1>3, <1>4, <1>5 DEF Fail

LEMMA ConsentEdit ==
    ASSUME TypeInv, ConsentInv, Edit
    PROVE  ConsentInv'
  <1> USE DEF memberVars, tenantVars, faceVars
  <1> SUFFICES CallKept /\ Traced /\ ConsentGrows
    BY KeptPreserves
  <1>1. call' = call /\ UNCHANGED faceVars
    BY DEF Edit, RecordConsent, UpdateMember, Provision
  <1>2. CallKept /\ Traced
    BY <1>1 DEF CallKept, Traced, EnrolPC
  <1>3. ConsentGrows
    BY DEF Edit, RecordConsent, UpdateMember, Provision, ConsentGrows, ConsentInv
  <1>4. QED
    BY <1>2, <1>3

LEMMA ConsentCrash ==
    ASSUME TypeInv, ConsentInv, Crash
    PROVE  ConsentInv'
  <1> USE DEF memberVars, tenantVars, faceVars
  <1>1. CallKept
    <2>1. ASSUME NEW q \in Req
          PROVE  /\ call'[q].pc \in {"failed", call[q].pc}
                 /\ call'[q].member = call[q].member
                 /\ call'[q].subject = call[q].subject
      BY DEF Crash, TypeInv, TypeOK, Call
    <2>2. QED
      BY <2>1 DEF CallKept, EnrolPC
  <1>2. QED
    BY <1>1, KeptPreserves DEF Crash, Traced, ConsentGrows, ConsentInv

LEMMA ConsentInit == Init => ConsentInv
  <1> SUFFICES ASSUME Init PROVE ConsentInv
    OBVIOUS
  <1>1. \A r \in Req : call[r].pc = "new"
    BY DEF Init, NoCall
  <1>2. engine = {} /\ rows = {} /\ store = {} /\ everConsented = consent
    BY DEF Init
  <1>3. QED
    BY <1>1, <1>2 DEF ConsentInv, EnrolPC

LEMMA ConsentNext == TypeInv /\ ConsentInv /\ [Next]_vars => ConsentInv'
  <1> SUFFICES ASSUME TypeInv, ConsentInv, [Next]_vars PROVE ConsentInv'
    OBVIOUS
  <1>1. ASSUME NEW r \in Req, Start(r) \/ Step(r) \/ Fail(r)
        PROVE  ConsentInv'
    BY <1>1, ConsentStart, ConsentStep, ConsentFail
  <1>2. CASE Edit
    BY <1>2, ConsentEdit
  <1>3. CASE Crash
    BY <1>3, ConsentCrash
  <1>4. CASE UNCHANGED vars
    BY <1>4 DEF vars, memberVars, tenantVars, faceVars, ConsentInv
  <1>5. QED
    BY <1>1, <1>2, <1>3, <1>4 DEF Next

LEMMA ConsentImplies == TypeInv /\ ConsentInv => NeverConsentedNothingStored
  BY DEF ConsentInv, NeverConsentedNothingStored, Gone, EngineOf, RowsOf, ImagesOf

\* A member whose consent was never on record has no face in the engine, no
\* row and no image, for any members, requests, interleaving and faults
\* (enrolment.service.ts:53, the gate at 83-90).
THEOREM NeverConsented == Spec => []NeverConsentedNothingStored
  <1>1. Spec => [](TypeInv /\ ConsentInv)
    BY TypeInit, TypeNext, ConsentInit, ConsentNext, PTL DEF Spec
  <1>2. QED
    BY <1>1, ConsentImplies, PTL

-----------------------------------------------------------------------------
(* Where what is stored comes from.                                        *)
(* A capture is handled once: an enrolment counts its captures down, so    *)
(* what it wrote for one of them is behind it, and the identifier of the   *)
(* one at hand is still unused.                                            *)

\* Capture f is one that its enrolment has got to; it is past the engine.
Taken(f) ==
    LET c == call[f[1]] IN
    /\ c.pc # "new" /\ f[2] >= c.left
    /\ c.pc = "addFace" => f[2] > c.left

\* The row of f, if it has one, was attempted.
Passed(f) == Taken(f) /\ (call[f[1]].pc \in EnrolPC => f[2] > call[f[1]].left)

\* A row, or the copy of a row that an erasure works on.
RowOK(t) ==
    /\ Passed(t.face)
    /\ t.member = call[t.face[1]].member /\ t.subject = call[t.face[1]].subject
    /\ t.subject[1] = t.member

OriginInv ==
    /\ \A e \in engine : Taken(e.face) /\ e.subject = call[e.face[1]].subject
    /\ \A f \in store : Taken(f)
    /\ \A t \in rows : RowOK(t)
    /\ \A r \in Req :
          /\ call[r].pc \in EnrolPC => /\ call[r].op = "enrol"
                                       /\ call[r].subject[1] = call[r].member
          /\ call[r].pc \in ErasePC => Erasing(call[r].op)
          /\ \A t \in call[r].templates : RowOK(t) /\ t.member = call[r].member
          /\ call[r].pc = "new" => call[r].templates = {}
          /\ call[r].pc = "engine" => call[r].templates # {}
    /\ rows # {} \/ (\E r \in Req : call[r].pc \in EnrolPC \/ call[r].templates # {})
          => apiKey

Known(f) == \E e \in engine : e.face = f

\* The face of a row, or of one that is about to be written, is known to the
\* engine or was forgotten for an erasure.
BackedInv ==
    /\ \A t \in rows : Known(t.face) \/ t.face \in lost
    /\ \A r \in Req : call[r].pc \in {"putImage", "createRow"} =>
          Known(Capture(r)) \/ Capture(r) \in lost

\* One subject for each member: nothing changes its code.
SubjectInv ==
    /\ \A t \in rows : t.subject = <<t.member, code[t.member]>>
    /\ \A r \in Req :
          /\ call[r].pc \in EnrolPC =>
                call[r].subject = <<call[r].member, code[call[r].member]>>
          /\ \A t \in call[r].templates : t.subject = <<t.member, code[t.member]>>

\* The images an erasure is about to delete are of faces the engine no longer
\* knows; an image is there before its row is.
ImageInv ==
    /\ \A t \in rows : t.image => t.face \in store \/ ~Known(t.face)
    /\ \A r \in Req :
          /\ call[r].pc = "createRow" /\ storeImages => Capture(r) \in store
          /\ call[r].pc = "images" =>
                \A t \in call[r].templates : ~Known(t.face)

\* Serial requests and a store that does not fail: no two requests are under
\* way, and each place holds what the rows say, but for the capture at hand.
Alone == \A q, r \in Req : InFlight(q) /\ InFlight(r) => q = r

PlacesInv ==
    /\ \A e \in engine :
          \/ \E t \in rows : t.face = e.face
          \/ \E r \in Req : call[r].pc \in {"putImage", "createRow"}
                            /\ e.face = Capture(r)
    /\ \A f \in store :
          \/ \E t \in rows : t.face = f /\ t.image
          \/ \E r \in Req : call[r].pc = "createRow" /\ f = Capture(r)
    /\ store # {} \/ (\E r \in Req : call[r].pc = "putImage") => storeImages

\* How far request r has got, and what that means for its member.
PhaseOK(r) ==
    LET m == call[r].member IN
    /\ call[r].pc \in EnrolPC => m \in consent
    /\ call[r].pc = "engine" => call[r].templates = RowsOf(m)
    /\ call[r].pc = "images" =>
          /\ EngineOf(m) = {}
          /\ \A f \in ImagesOf(m) :
                \E t \in call[r].templates : t.image /\ t.face = f
    /\ call[r].pc \in {"flag", "clearConsent"} => Gone(m)

SerialInv == Alone /\ PlacesInv /\ \A r \in Req : PhaseOK(r)

\* Requests only go on: what one has set out to do stays, its captures are
\* counted down and its rows to erase get fewer.
Onward ==
    \A q \in Req : call[q].pc # "new" =>
        /\ call'[q].pc # "new"
        /\ call'[q].op = call[q].op
        /\ call'[q].member = call[q].member
        /\ call'[q].subject = call[q].subject
        /\ call'[q].templates \subseteq call[q].templates
        /\ call'[q].left <= call[q].left
        /\ call'[q].pc = "addFace" /\ call'[q].left = call[q].left =>
              call[q].pc = "addFace"
        /\ call'[q].pc \in EnrolPC => call[q].pc \in EnrolPC
        /\ call'[q].pc \in ErasePC => call[q].pc \in ErasePC

\* What a request is when it has started.
Starts ==
    \A q \in Req : call[q].pc = "new" =>
        \/ call'[q].pc = "new" /\ call'[q].templates = call[q].templates
        \/ /\ call'[q].pc = "addFace" /\ call'[q].op = "enrol"
           /\ call'[q].member \in consent /\ apiKey
           /\ call'[q].subject = <<call'[q].member, code[call'[q].member]>>
           /\ call'[q].templates = call[q].templates
        \/ call'[q].pc = "failed" /\ call'[q].templates = call[q].templates
        \/ /\ call'[q].pc = IF RowsOf(call'[q].member) = {}
                            THEN AfterErase(call'[q].op) ELSE "engine"
           /\ Erasing(call'[q].op)
           /\ call'[q].templates = RowsOf(call'[q].member)

\* How a request gets from one call to the next.
Enters ==
    \A q \in Req :
        /\ call'[q].pc = "putImage" =>
              /\ call'[q].left = call[q].left
              /\ call[q].pc = "putImage" \/ Known(Capture(q))'
        /\ call'[q].pc = "createRow" =>
              /\ call'[q].left = call[q].left
              /\ \/ call[q].pc = "createRow"
                 \/ call[q].pc = "putImage" /\ Capture(q) \in store'
                 \/ call[q].pc = "addFace" /\ ~storeImages /\ Known(Capture(q))'
        /\ call'[q].pc = "engine" /\ call[q].pc # "new" =>
              call[q].pc = "engine" /\ call'[q].templates = call[q].templates
        /\ call'[q].pc = "images" =>
              \/ call[q].pc = "images"
              \/ /\ call[q].pc = "engine"
                 /\ apiKey => \E t \in call[q].templates :
                                 engine' = WithoutSubject(t.subject)

\* Who wrote what is new in a store.
Writes ==
    /\ \A e \in engine' \ engine : \E r \in Req :
          /\ call[r].pc = "addFace" /\ call[r].left > 0
          /\ e = [face |-> Capture(r), subject |-> call[r].subject]
          /\ call'[r].left < call[r].left \/ call'[r].pc \in {"putImage", "createRow"}
    /\ \A f \in store' \ store : \E r \in Req :
          /\ call[r].pc = "putImage" /\ f = Capture(r)
          /\ call'[r].left < call[r].left \/ call'[r].pc = "createRow"
    /\ \A t \in rows' \ rows : \E r \in Req :
          /\ call[r].pc = "createRow" /\ t = RowFor(r)
          /\ call'[r].left < call[r].left

\* Who removed what is gone from a store.
Removes ==
    /\ \A e \in engine \ engine' : \E r \in Req :
          /\ call[r].pc = "engine" /\ call'[r].pc \notin {"new", "engine"}
          /\ \E t \in call[r].templates : e.subject = t.subject
    /\ \A f \in store \ store' : \E r \in Req :
          /\ call[r].pc = "images"
          /\ \E t \in call[r].templates : t.image /\ t.face = f
    /\ \A e \in engine \ engine' : e.face \in lost'
    /\ \A f \in lost \ lost' : \E m \in Member :
          /\ \E t \in rows : t.member = m /\ t.face = f
          /\ rows' = {t \in rows : t.member # m}

Same == /\ apiKey => apiKey'
        /\ storeImages' = storeImages
        /\ \A m \in Member : CodesChange \/ code'[m] = code[m]

StepFacts == Onward /\ Starts /\ Enters /\ Writes /\ Removes /\ Same

\* A request whose record changes alone.
Others(r) == \A q \in Req \ {r} : call'[q] = call[q]

LEMMA GotoFacts ==
    ASSUME TypeInv, NEW r \in Req, NEW pc, Goto(r, pc)
    PROVE  /\ Others(r) /\ call'[r].pc = pc
           /\ call'[r].op = call[r].op /\ call'[r].member = call[r].member
           /\ call'[r].subject = call[r].subject /\ call'[r].left = call[r].left
           /\ call'[r].templates = call[r].templates
           /\ call'[r].count = call[r].count /\ call'[r].cleared = call[r].cleared
  BY DEF Goto, Others, TypeInv, TypeOK, Call

LEMMA NextImageFacts ==
    ASSUME TypeInv, NEW r \in Req, NEW ok, NextImage(r, ok)
    PROVE  /\ Others(r) /\ call'[r].pc = "addFace"
           /\ call'[r].op = call[r].op /\ call'[r].member = call[r].member
           /\ call'[r].subject = call[r].subject
           /\ call'[r].left = call[r].left - 1
           /\ call'[r].templates = call[r].templates
  BY DEF NextImage, Others, TypeInv, TypeOK, Call

LEMMA LeftType ==
    ASSUME TypeInv, NEW r \in Req
    PROVE  /\ call[r].left \in Nat
           /\ call[r].pc \in {"putImage", "createRow"} => call[r].left > 0
  BY FaceDataAssumption DEF TypeInv, TypeOK, LoopOK, Call

\* The faces and the images a member may have change only with the stores.
LEMMA StepOfOne ==
    ASSUME TypeInv, NEW r \in Req, Others(r),
           call[r].pc # "new",
           call'[r].pc # "new", call'[r].op = call[r].op,
           call'[r].member = call[r].member, call'[r].subject = call[r].subject,
           call'[r].templates \subseteq call[r].templates,
           \/ call'[r].left = call[r].left /\ call'[r].pc # "addFace"
           \/ call'[r].left = call[r].left - 1 /\ call'[r].pc = "addFace"
              /\ call[r].pc \in EnrolPC,
           call'[r].pc \in EnrolPC => call[r].pc \in EnrolPC,
           call'[r].pc \in ErasePC => call[r].pc \in ErasePC
    PROVE  Onward /\ Starts
  <1>1. \A q \in Req : call[q].left \in Nat
    BY LeftType
  <1>2. Onward
    <2> SUFFICES ASSUME NEW q \in Req, call[q].pc # "new"
                 PROVE  /\ call'[q].pc # "new"
                        /\ call'[q].op = call[q].op
                        /\ call'[q].member = call[q].member
                        /\ call'[q].subject = call[q].subject
                        /\ call'[q].templates \subseteq call[q].templates
                        /\ call'[q].left <= call[q].left
                        /\ call'[q].pc = "addFace" /\ call'[q].left = call[q].left =>
                              call[q].pc = "addFace"
                        /\ call'[q].pc \in EnrolPC => call[q].pc \in EnrolPC
                        /\ call'[q].pc \in ErasePC => call[q].pc \in ErasePC
      BY DEF Onward
    <2>1. CASE q = r
      BY <1>1, <2>1
    <2>2. CASE q # r
      BY <1>1, <2>2 DEF Others
    <2>3. QED
      BY <2>1, <2>2
  <1>3. Starts
    BY DEF Starts, Others
  <1>4. QED
    BY <1>2, <1>3

LEMMA StartFacts ==
    ASSUME TypeInv, NEW r \in Req, Start(r)
    PROVE  StepFacts
  <1> USE DEF memberVars, tenantVars, faceVars
  <1>1. ASSUME NEW m \in Member, NEW n \in MIN_IMAGES .. MaxImages,
               EnrolStart(r, m, n)
        PROVE  /\ Others(r) /\ call[r].pc = "new"
               /\ UNCHANGED <<memberVars, tenantVars, faceVars>>
               /\ call'[r].pc = "addFace" /\ call'[r].op = "enrol"
               /\ call'[r].member \in consent /\ apiKey
               /\ call'[r].subject = <<call'[r].member, code[call'[r].member]>>
               /\ call'[r].templates = call[r].templates
    BY <1>1 DEF EnrolStart, MayStart, Others, TypeInv, TypeOK, Call
  <1>2. ASSUME NEW m \in Member, EnrolRefused(r, m)
        PROVE  /\ Others(r) /\ call[r].pc = "new"
               /\ UNCHANGED <<memberVars, tenantVars, faceVars>>
               /\ call'[r].pc = "failed" /\ call'[r].templates = call[r].templates
    BY <1>2 DEF EnrolRefused, MayStart, Others, TypeInv, TypeOK, Call
  <1>3. ASSUME NEW m \in Member, NEW op \in {"erase", "withdraw"},
               EraseStart(r, m, op)
        PROVE  /\ Others(r) /\ call[r].pc = "new"
               /\ UNCHANGED <<memberVars, tenantVars, faceVars>>
               /\ call'[r].pc = IF RowsOf(call'[r].member) = {}
                                THEN AfterErase(call'[r].op) ELSE "engine"
               /\ call'[r].op \in {"erase", "withdraw"}
               /\ call'[r].templates = RowsOf(call'[r].member)
    <2>1. /\ Others(r) /\ call[r].pc = "new"
          /\ UNCHANGED <<memberVars, tenantVars, faceVars>>
          /\ call'[r].member = m /\ call'[r].op = op
          /\ call'[r].templates = RowsOf(m)
          /\ call'[r].pc = IF RowsOf(m) = {} THEN AfterErase(op) ELSE "engine"
      BY <1>3 DEF EraseStart, MayStart, Others, TypeInv, TypeOK, Call
    <2>2. QED
      BY <2>1
  <1>4. /\ Others(r) /\ call[r].pc = "new"
        /\ UNCHANGED <<memberVars, tenantVars, faceVars>>
    BY <1>1, <1>2, <1>3 DEF Start
  <1>5. call'[r].pc \in {"addFace", "failed", "clearConsent", "done", "engine"}
    BY <1>1, <1>2, <1>3 DEF Start, AfterErase
  <1>6. \A q \in Req : call[q].left \in Nat
    BY LeftType
  <1>7. Onward /\ Writes /\ Removes /\ Same
    BY <1>4, <1>6 DEF Onward, Writes, Removes, Same, Others
  <1>8. Enters
    BY <1>4, <1>5 DEF Enters, Others
  <1>9. Starts
    BY <1>1, <1>2, <1>3, <1>4 DEF Start, Starts, Others, Erasing
  <1>10. QED
    BY <1>7, <1>8, <1>9 DEF StepFacts

LEMMA EnrolFacts ==
    ASSUME TypeInv, NEW r \in Req,
           \/ ImageRejected(r) \/ AddFace(r) \/ AddFaceLate(r) \/ PutImage(r)
           \/ PutImageFails(r) \/ CreateRow(r) \/ CreateRowFails(r)
    PROVE  StepFacts
  <1> USE DEF memberVars, tenantVars, faceVars
  <1>0. call[r].left \in Nat
    BY LeftType
  <1>1. CASE ImageRejected(r)
    <2>1. Others(r) /\ Onward /\ Starts /\ call'[r].pc = "addFace"
      BY <1>1, NextImageFacts, StepOfOne DEF ImageRejected, AtImage, EnrolPC, ErasePC
    <2>2. QED
      BY <1>1, <2>1
         DEF ImageRejected, StepFacts, Enters, Writes, Removes, Same, Others
  <1>2. CASE AddFace(r)
    <2>1. /\ Others(r) /\ Onward /\ Starts
          /\ call'[r].pc = IF storeImages THEN "putImage" ELSE "createRow"
          /\ call'[r].left = call[r].left
      BY <1>2, GotoFacts, StepOfOne DEF AddFace, AtImage, EnrolPC, ErasePC
    <2>2. Known(Capture(r))'
      <3>1. [face |-> Capture(r), subject |-> call[r].subject] \in engine'
        BY <1>2 DEF AddFace, AddToEngine
      <3>2. Capture(r)' = Capture(r)
        BY <2>1 DEF Capture
      <3>3. QED
        BY <3>1, <3>2 DEF Known
    <2>3. Enters
      BY <1>2, <2>1, <2>2 DEF AddFace, AtImage, Enters, Others
    <2>4. Writes
      BY <1>2, <2>1 DEF AddFace, AtImage, AddToEngine, Writes
    <2>5. QED
      BY <1>2, <2>1, <2>3, <2>4 DEF AddFace, AddToEngine, StepFacts, Removes, Same
  <1>3. CASE AddFaceLate(r)
    <2>1. /\ Others(r) /\ Onward /\ Starts /\ call'[r].pc = "addFace"
          /\ call'[r].left < call[r].left
      <3>1. NextImage(r, FALSE) /\ call[r].pc = "addFace"
        BY <1>3 DEF AddFaceLate, AtImage
      <3>2. /\ Others(r) /\ call'[r].pc = "addFace"
            /\ call'[r].op = call[r].op /\ call'[r].member = call[r].member
            /\ call'[r].subject = call[r].subject
            /\ call'[r].left = call[r].left - 1
            /\ call'[r].templates = call[r].templates
        BY <3>1, NextImageFacts
      <3>3. Onward /\ Starts
        BY <3>1, <3>2, StepOfOne DEF EnrolPC, ErasePC
      <3>4. QED
        BY <1>0, <3>2, <3>3
    <2>2. Enters
      BY <2>1 DEF Enters, Others
    <2>3. Writes
      BY <1>3, <2>1 DEF AddFaceLate, AtImage, AddToEngine, Writes
    <2>4. QED
      BY <1>3, <2>1, <2>2, <2>3 DEF AddFaceLate, AddToEngine, StepFacts, Removes, Same
  <1>4. CASE PutImage(r)
    <2>1. /\ Others(r) /\ Onward /\ Starts /\ call'[r].pc = "createRow"
          /\ call'[r].left = call[r].left
      BY <1>4, GotoFacts, StepOfOne DEF PutImage, EnrolPC, ErasePC
    <2>2. Enters
      BY <1>4, <2>1 DEF PutImage, Enters, Others
    <2>3. Writes
      BY <1>4, <2>1 DEF PutImage, Writes
    <2>4. QED
      BY <1>4, <2>1, <2>2, <2>3 DEF PutImage, StepFacts, Removes, Same
  <1>5. CASE PutImageFails(r)
    <2>1. /\ Others(r) /\ Onward /\ Starts /\ call'[r].pc = "addFace"
          /\ call'[r].left < call[r].left
      <3>1. NextImage(r, FALSE) /\ call[r].pc = "putImage"
        BY <1>5 DEF PutImageFails
      <3>2. /\ Others(r) /\ call'[r].pc = "addFace"
            /\ call'[r].op = call[r].op /\ call'[r].member = call[r].member
            /\ call'[r].subject = call[r].subject
            /\ call'[r].left = call[r].left - 1
            /\ call'[r].templates = call[r].templates
        BY <3>1, NextImageFacts
      <3>3. Onward /\ Starts
        BY <3>1, <3>2, StepOfOne DEF EnrolPC, ErasePC
      <3>4. QED
        BY <1>0, <3>2, <3>3
    <2>2. Enters
      BY <2>1 DEF Enters, Others
    <2>3. Writes
      BY <1>5, <2>1 DEF PutImageFails, Writes
    <2>4. QED
      BY <1>5, <2>1, <2>2, <2>3 DEF PutImageFails, StepFacts, Removes, Same
  <1>6. CASE CreateRow(r)
    <2>1. /\ Others(r) /\ Onward /\ Starts /\ call'[r].pc = "addFace"
          /\ call'[r].left < call[r].left
      <3>1. NextImage(r, TRUE) /\ call[r].pc = "createRow"
        BY <1>6 DEF CreateRow
      <3>2. /\ Others(r) /\ call'[r].pc = "addFace"
            /\ call'[r].op = call[r].op /\ call'[r].member = call[r].member
            /\ call'[r].subject = call[r].subject
            /\ call'[r].left = call[r].left - 1
            /\ call'[r].templates = call[r].templates
        BY <3>1, NextImageFacts
      <3>3. Onward /\ Starts
        BY <3>1, <3>2, StepOfOne DEF EnrolPC, ErasePC
      <3>4. QED
        BY <1>0, <3>2, <3>3
    <2>2. Enters
      BY <2>1 DEF Enters, Others
    <2>3. Writes
      BY <1>6, <2>1 DEF CreateRow, Writes
    <2>4. QED
      BY <1>6, <2>1, <2>2, <2>3 DEF CreateRow, StepFacts, Removes, Same
  <1>7. CASE CreateRowFails(r)
    <2>1. /\ Others(r) /\ Onward /\ Starts /\ call'[r].pc = "addFace"
          /\ call'[r].left < call[r].left
      <3>1. NextImage(r, FALSE) /\ call[r].pc = "createRow"
        BY <1>7 DEF CreateRowFails
      <3>2. /\ Others(r) /\ call'[r].pc = "addFace"
            /\ call'[r].op = call[r].op /\ call'[r].member = call[r].member
            /\ call'[r].subject = call[r].subject
            /\ call'[r].left = call[r].left - 1
            /\ call'[r].templates = call[r].templates
        BY <3>1, NextImageFacts
      <3>3. Onward /\ Starts
        BY <3>1, <3>2, StepOfOne DEF EnrolPC, ErasePC
      <3>4. QED
        BY <1>0, <3>2, <3>3
    <2>2. Enters
      BY <2>1 DEF Enters, Others
    <2>3. Writes
      BY <1>7, <2>1 DEF CreateRowFails, Writes
    <2>4. QED
      BY <1>7, <2>1, <2>2, <2>3 DEF CreateRowFails, StepFacts, Removes, Same
  <1>8. QED
    BY <1>1, <1>2, <1>3, <1>4, <1>5, <1>6, <1>7

LEMMA EraseFacts ==
    ASSUME TypeInv, NEW r \in Req,
           \/ EraseEngine(r) \/ EraseEngineFails(r)
           \/ \E t \in call[r].templates : EraseImage(r, t)
    PROVE  StepFacts
  <1> USE DEF memberVars, tenantVars, faceVars
  <1>1. CASE EraseEngine(r)
    <2>1. /\ Others(r) /\ call'[r].pc = "images"
          /\ call'[r].op = call[r].op /\ call'[r].member = call[r].member
          /\ call'[r].subject = call[r].subject /\ call'[r].left = call[r].left
          /\ call'[r].templates = call[r].templates
      BY <1>1 DEF EraseEngine, Others, TypeInv, TypeOK, Call
    <2>2. Onward /\ Starts
      BY <1>1, <2>1, StepOfOne DEF EraseEngine, EnrolPC, ErasePC
    <2>3. Enters /\ Removes
      BY <1>1, <2>1 DEF EraseEngine, DeleteSubject, WithoutSubject, Enters, Removes, Others
    <2>4. QED
      BY <1>1, <2>2, <2>3 DEF EraseEngine, DeleteSubject, WithoutSubject, StepFacts, Writes, Same
  <1>2. CASE EraseEngineFails(r)
    <2>1. Others(r) /\ Onward /\ Starts /\ call'[r].pc = "failed"
      BY <1>2, GotoFacts, StepOfOne DEF EraseEngineFails, EnrolPC, ErasePC
    <2>2. Enters
      BY <2>1 DEF Enters, Others
    <2>3. QED
      BY <1>2, <2>1, <2>2
         DEF EraseEngineFails, DeleteSubject, WithoutSubject, StepFacts, Writes,
             Removes, Same
  <1>3. ASSUME NEW t \in call[r].templates, EraseImage(r, t)
        PROVE  StepFacts
    <2>1. /\ Others(r) /\ call'[r].pc = call[r].pc
          /\ call'[r].op = call[r].op /\ call'[r].member = call[r].member
          /\ call'[r].subject = call[r].subject /\ call'[r].left = call[r].left
          /\ call'[r].templates = call[r].templates \ {t}
          /\ call[r].pc = "images"
      BY <1>3 DEF EraseImage, Others, TypeInv, TypeOK, Call
    <2>2. Onward /\ Starts
      BY <2>1, StepOfOne DEF EnrolPC, ErasePC
    <2>3. Enters /\ Removes
      BY <1>3, <2>1 DEF EraseImage, Enters, Removes, Others
    <2>4. QED
      BY <1>3, <2>2, <2>3 DEF EraseImage, StepFacts, Writes, Same
  <1>4. QED
    BY <1>1, <1>2, <1>3

\* A request that goes on without touching engine or images, and writes no row.
LEMMA QuietFacts ==
    ASSUME TypeInv, NEW r \in Req,
           \/ EnrolDone(r) \/ EnrolNone(r) \/ EraseRows(r) \/ EraseFlag(r)
           \/ WithdrawConsent(r) \/ StatementFails(r)
    PROVE  StepFacts
  <1> USE DEF memberVars, tenantVars, faceVars
  <1>1. /\ UNCHANGED <<code, apiKey, storeImages, engine, store>>
        /\ rows' \subseteq rows
        /\ \E pc \in {"done", "failed", "flag", "clearConsent"} : Goto(r, pc)
        /\ call[r].pc # "new"
        /\ call'[r].pc \in ErasePC => call[r].pc \in ErasePC
    <2>1. CASE EraseRows(r)
      BY <2>1, GotoFacts DEF EraseRows, AtEraseRows, ErasePC
    <2>2. CASE EraseFlag(r)
      BY <2>2 DEF EraseFlag, AfterErase, ErasePC
    <2>3. CASE WithdrawConsent(r) \/ StatementFails(r)
      <3>1. /\ UNCHANGED <<code, apiKey, storeImages, engine, store, rows>>
            /\ Goto(r, "done") \/ Goto(r, "failed")
            /\ call[r].pc # "new"
        BY <2>3 DEF WithdrawConsent, StatementFails, AtEnrolEnd, AtEraseRows
      <3>2. call'[r].pc \notin ErasePC
        BY <3>1, GotoFacts DEF ErasePC
      <3>3. QED
        BY <3>1, <3>2
    <2>4. CASE EnrolDone(r) \/ EnrolNone(r)
      <3>1. /\ UNCHANGED <<code, apiKey, storeImages, engine, store, rows>>
            /\ Goto(r, "done") \/ Goto(r, "failed")
            /\ call[r].pc # "new"
        BY <2>4 DEF EnrolDone, EnrolNone, AtEnrolEnd
      <3>2. call'[r].pc \notin ErasePC
        BY <3>1, GotoFacts DEF ErasePC
      <3>3. QED
        BY <3>1, <3>2
    <2>5. QED
      BY <2>1, <2>2, <2>3, <2>4
  <1>2. PICK pc \in {"done", "failed", "flag", "clearConsent"} : Goto(r, pc)
    BY <1>1
  <1>3. Others(r) /\ Onward /\ Starts /\ call'[r].pc = pc
    BY <1>1, <1>2, GotoFacts, StepOfOne DEF EnrolPC
  <1>4. Enters
    BY <1>3 DEF Enters, Others
  <1>5. \A f \in lost \ lost' : \E m \in Member :
            /\ \E t \in rows : t.member = m /\ t.face = f
            /\ rows' = {t \in rows : t.member # m}
    <2>1. CASE EraseRows(r)
      BY <2>1 DEF EraseRows, RowsOf, TypeInv, TypeOK, Call
    <2>2. CASE ~EraseRows(r)
      BY <2>2 DEF EnrolDone, EnrolNone, EraseFlag, WithdrawConsent, StatementFails
    <2>3. QED
      BY <2>1, <2>2
  <1>6. QED
    BY <1>1, <1>3, <1>4, <1>5 DEF StepFacts, Writes, Removes, Same

\* The records of all requests stay, but for those that a crash ends.
LEMMA AroundFacts ==
    ASSUME TypeInv, Edit \/ Crash \/ UNCHANGED vars
    PROVE  StepFacts
  <1> USE DEF memberVars, tenantVars, faceVars
  <1>1. /\ UNCHANGED <<storeImages, engine, store, rows, lost>> /\ (apiKey => apiKey')
        /\ \A m \in Member : CodesChange \/ code'[m] = code[m]
    BY DEF Edit, RecordConsent, UpdateMember, Provision, Crash, vars, TypeInv, TypeOK
  <1>3. \A q \in Req : /\ \/ call'[q].pc = call[q].pc
                          \/ call[q].pc # "new" /\ call'[q].pc = "failed"
                       /\ call'[q].op = call[q].op
                       /\ call'[q].member = call[q].member
                       /\ call'[q].subject = call[q].subject
                       /\ call'[q].left = call[q].left
                       /\ call'[q].templates = call[q].templates
    <2>1. CASE Crash
      BY <2>1 DEF Crash, InFlight, TypeInv, TypeOK, Call
    <2>2. CASE Edit \/ UNCHANGED vars
      BY <2>2 DEF Edit, RecordConsent, UpdateMember, Provision, vars
    <2>3. QED
      BY <2>1, <2>2
  <1>4. \A q \in Req : call[q].left \in Nat
    BY LeftType
  <1>5. Onward /\ Starts
    BY <1>3, <1>4 DEF Onward, Starts, EnrolPC, ErasePC
  <1>6. Enters
    BY <1>3 DEF Enters
  <1>7. QED
    BY <1>1, <1>5, <1>6 DEF StepFacts, Writes, Removes, Same

LEMMA NextFacts ==
    ASSUME TypeInv, [Next]_vars
    PROVE  StepFacts
  <1>1. ASSUME NEW r \in Req, Start(r) \/ Step(r) \/ Fail(r)
        PROVE  StepFacts
    BY <1>1, StartFacts, EnrolFacts, EraseFacts, QuietFacts DEF Step, Fail
  <1>2. QED
    BY <1>1, AroundFacts DEF Next


-----------------------------------------------------------------------------
\* What is behind a request stays behind it.
LEMMA TakenStays ==
    ASSUME TypeInv, TypeInv', StepFacts, NEW f \in Face, Taken(f)
    PROVE  Taken(f)' /\ (Passed(f) => Passed(f)')
  <1> DEFINE r == f[1]
  <1>1. r \in Req /\ f[2] \in Nat
    BY DEF Face
  <1>2. call[r].left \in Nat /\ call'[r].left \in Nat
    BY <1>1, FaceDataAssumption DEF TypeInv, TypeOK, Call
  <1>3. /\ call'[r].pc # "new" /\ call'[r].left <= call[r].left
        /\ call'[r].pc = "addFace" /\ call'[r].left = call[r].left =>
              call[r].pc = "addFace"
        /\ call'[r].pc \in EnrolPC => call[r].pc \in EnrolPC
    BY <1>1 DEF StepFacts, Onward, Taken
  <1>4. Taken(f)'
    BY <1>1, <1>2, <1>3 DEF Taken
  <1>5. Passed(f) => Passed(f)'
    BY <1>1, <1>2, <1>3, <1>4 DEF Passed
  <1>6. QED
    BY <1>4, <1>5

LEMMA RowStays ==
    ASSUME TypeInv, TypeInv', StepFacts, NEW t \in Row, RowOK(t)
    PROVE  RowOK(t)'
  <1>1. t.face \in Face /\ t.face[1] \in Req
    BY DEF Row, Face
  <1>2. Passed(t.face)'
    BY <1>1, TakenStays DEF RowOK, Passed
  <1>3. /\ call'[t.face[1]].member = call[t.face[1]].member
        /\ call'[t.face[1]].subject = call[t.face[1]].subject
    BY <1>1 DEF RowOK, Passed, Taken, StepFacts, Onward
  <1>4. QED
    BY <1>2, <1>3 DEF RowOK

\* The capture at hand, once the request has gone on.
LEMMA CaptureTaken ==
    ASSUME TypeInv, TypeInv', StepFacts, NEW r \in Req, call[r].pc # "new",
           call[r].pc = "addFace" => call'[r].left < call[r].left
                                     \/ call'[r].pc \in {"putImage", "createRow"},
           call[r].left > 0,
           NEW f, f = Capture(r)
    PROVE  /\ f \in Face /\ f[1] = r /\ Taken(f)'
           /\ call[r].pc # "addFace" => Taken(f)
           /\ call'[r].left < call[r].left => Passed(f)'
  <1>1. /\ call[r].left \in 1 .. MaxImages /\ call'[r].left \in Nat
    BY FaceDataAssumption DEF TypeInv, TypeOK, Call
  <1>2. /\ call'[r].pc # "new" /\ call'[r].left <= call[r].left
        /\ call'[r].pc = "addFace" /\ call'[r].left = call[r].left =>
              call[r].pc = "addFace"
    BY DEF StepFacts, Onward
  <1>3. f \in Face /\ f[1] = r /\ f[2] = call[r].left
    BY <1>1 DEF Capture, Face
  <1>4. Taken(f)'
    BY <1>1, <1>2, <1>3 DEF Taken
  <1>5. call[r].pc # "addFace" => Taken(f)
    BY <1>1, <1>3 DEF Taken
  <1>6. call'[r].left < call[r].left => Passed(f)'
    BY <1>1, <1>3, <1>4 DEF Passed
  <1>7. QED
    BY <1>3, <1>4, <1>5, <1>6

LEMMA OriginInit == Init => OriginInv
  <1> SUFFICES ASSUME Init PROVE OriginInv
    OBVIOUS
  <1>1. \A r \in Req : call[r].pc = "new" /\ call[r].templates = {}
    BY DEF Init, NoCall
  <1>2. engine = {} /\ rows = {} /\ store = {}
    BY DEF Init
  <1>3. QED
    BY <1>1, <1>2 DEF OriginInv, EnrolPC, ErasePC

LEMMA OriginNext ==
    ASSUME TypeInv, TypeInv', OriginInv, StepFacts
    PROVE  OriginInv'
  <1>1. \A e \in engine' : Taken(e.face)' /\ e.subject = call'[e.face[1]].subject
    <2> SUFFICES ASSUME NEW e \in engine'
                 PROVE  Taken(e.face)' /\ e.subject = call'[e.face[1]].subject
      OBVIOUS
    <2>1. CASE e \in engine
      <3>1. e.face \in Face /\ e.face[1] \in Req
        BY <2>1 DEF TypeInv, TypeOK, EngineFace, Face
      <3>2. Taken(e.face) /\ e.subject = call[e.face[1]].subject
        BY <2>1 DEF OriginInv
      <3>3. call'[e.face[1]].subject = call[e.face[1]].subject
        BY <3>1, <3>2 DEF Taken, StepFacts, Onward
      <3>4. QED
        BY <3>1, <3>2, <3>3, TakenStays
    <2>2. CASE e \notin engine
      <3>1. PICK r \in Req :
              /\ call[r].pc = "addFace" /\ call[r].left > 0
              /\ e = [face |-> Capture(r), subject |-> call[r].subject]
              /\ \/ call'[r].left < call[r].left
                 \/ call'[r].pc \in {"putImage", "createRow"}
        BY <2>2 DEF StepFacts, Writes
      <3>2. e.face = Capture(r) /\ e.subject = call[r].subject
        BY <3>1
      <3>3. e.face[1] = r /\ Taken(e.face)'
        BY <3>1, <3>2, CaptureTaken
      <3>4. call'[r].subject = call[r].subject
        BY <3>1 DEF StepFacts, Onward
      <3>5. QED
        BY <3>2, <3>3, <3>4
    <2>3. QED
      BY <2>1, <2>2
  <1>2. \A f \in store' : Taken(f)'
    <2> SUFFICES ASSUME NEW f \in store' PROVE Taken(f)'
      OBVIOUS
    <2>1. CASE f \in store
      BY <2>1, TakenStays DEF OriginInv, TypeInv, TypeOK
    <2>2. CASE f \notin store
      <3>1. PICK r \in Req :
              /\ call[r].pc = "putImage" /\ f = Capture(r)
              /\ call'[r].left < call[r].left \/ call'[r].pc = "createRow"
        BY <2>2 DEF StepFacts, Writes
      <3>2. call[r].left > 0
        BY <3>1, LeftType
      <3>3. QED
        BY <3>1, <3>2, CaptureTaken
    <2>3. QED
      BY <2>1, <2>2
  <1>3. \A t \in rows' : RowOK(t)'
    <2> SUFFICES ASSUME NEW t \in rows' PROVE RowOK(t)'
      OBVIOUS
    <2>1. CASE t \in rows
      BY <2>1, RowStays DEF OriginInv, TypeInv, TypeOK
    <2>2. CASE t \notin rows
      <3>1. PICK r \in Req : /\ call[r].pc = "createRow" /\ t = RowFor(r)
                             /\ call'[r].left < call[r].left
        BY <2>2 DEF StepFacts, Writes
      <3>2. /\ t.face = Capture(r) /\ t.member = call[r].member
            /\ t.subject = call[r].subject
        BY <3>1 DEF RowFor
      <3>3. call[r].left > 0
        BY <3>1, LeftType
      <3>4. t.face[1] = r /\ Passed(t.face)'
        BY <3>1, <3>2, <3>3, CaptureTaken
      <3>5. /\ call'[r].member = call[r].member
            /\ call'[r].subject = call[r].subject
        BY <3>1 DEF StepFacts, Onward
      <3>6. call[r].subject[1] = call[r].member
        BY <3>1 DEF OriginInv, EnrolPC
      <3>7. QED
        BY <3>2, <3>4, <3>5, <3>6 DEF RowOK
    <2>3. QED
      BY <2>1, <2>2
  <1>4. ASSUME NEW r \in Req
        PROVE  /\ call'[r].pc \in EnrolPC =>
                     /\ call'[r].op = "enrol"
                     /\ call'[r].subject[1] = call'[r].member
                     /\ call[r].pc = "new" => apiKey
               /\ call'[r].pc \in ErasePC => Erasing(call'[r].op)
               /\ call'[r].pc = "new" => call'[r].templates = {}
               /\ call'[r].pc = "engine" => call'[r].templates # {}
    <2>1. CASE call[r].pc = "new"
      <3>1. call[r].templates = {}
        BY <2>1 DEF OriginInv
      <3>2. QED
        BY <2>1, <3>1 DEF StepFacts, Starts, EnrolPC, ErasePC, AfterErase
    <2>2. CASE call[r].pc # "new"
      BY <2>2 DEF StepFacts, Onward, Enters, OriginInv
    <2>3. QED
      BY <2>1, <2>2
  <1>5. ASSUME NEW r \in Req, NEW t \in call'[r].templates
        PROVE  /\ RowOK(t)' /\ t.member = call'[r].member
               /\ t \in rows \/ t \in call[r].templates
    <2>1. CASE call[r].pc = "new"
      <3>1. call'[r].templates = RowsOf(call'[r].member)
        BY <1>5, <2>1 DEF StepFacts, Starts, OriginInv
      <3>2. t \in rows /\ t.member = call'[r].member
        BY <1>5, <3>1 DEF RowsOf
      <3>3. QED
        BY <3>2, RowStays DEF OriginInv, TypeInv, TypeOK
    <2>2. CASE call[r].pc # "new"
      <3>1. t \in call[r].templates /\ call'[r].member = call[r].member
        BY <1>5, <2>2 DEF StepFacts, Onward
      <3>2. t \in Row
        BY <3>1 DEF TypeInv, TypeOK, Call
      <3>3. QED
        BY <3>1, <3>2, RowStays DEF OriginInv
    <2>3. QED
      BY <2>1, <2>2
  <1>6. rows' # {} \/ (\E r \in Req : \/ call'[r].pc \in EnrolPC
                                      \/ call'[r].templates # {})
            => apiKey'
    <2>1. apiKey => apiKey'
      BY DEF StepFacts, Same
    <2>2. ASSUME NEW t \in rows' PROVE apiKey
      <3>1. CASE t \in rows
        BY <3>1 DEF OriginInv
      <3>2. CASE t \notin rows
        BY <3>2 DEF StepFacts, Writes, OriginInv, EnrolPC
      <3>3. QED
        BY <3>1, <3>2
    <2>3. ASSUME NEW r \in Req, call'[r].pc \in EnrolPC PROVE apiKey
      BY <1>4, <2>3 DEF StepFacts, Onward, OriginInv
    <2>4. ASSUME NEW r \in Req, NEW t \in call'[r].templates PROVE apiKey
      BY <1>5, <2>4 DEF OriginInv
    <2>5. QED
      BY <2>1, <2>2, <2>3, <2>4
  <1>7. QED
    BY <1>1, <1>2, <1>3, <1>4, <1>5, <1>6 DEF OriginInv

-----------------------------------------------------------------------------
(* The face list and the engine.                                           *)

\* The engine forgets a face only when an erasure asks it to.
LEMMA KnownStays ==
    ASSUME StepFacts, NEW f, Known(f)
    PROVE  Known(f)' \/ f \in lost'
  BY DEF Known, StepFacts, Removes

\* An erasure that deletes rows settles the faces they list, not those of the
\* captures that are still under way.
LEMMA CaptureStaysLost ==
    ASSUME TypeInv, OriginInv, StepFacts, NEW r \in Req,
           call[r].pc \in {"putImage", "createRow"}, NEW f \in lost, f = Capture(r)
    PROVE  f \in lost'
  <1> SUFFICES ASSUME f \notin lost' PROVE FALSE
    OBVIOUS
  <1>1. PICK t \in rows : t.face = f
    BY DEF StepFacts, Removes
  <1>2. Passed(f)
    BY <1>1 DEF OriginInv, RowOK
  <1>3. f[1] = r /\ f[2] = call[r].left /\ call[r].left \in Nat
    BY LeftType DEF Capture
  <1>4. QED
    BY <1>2, <1>3 DEF Passed, EnrolPC

\* It deletes every row that lists such a face.
LEMMA RowStaysLost ==
    ASSUME OriginInv, StepFacts, NEW t \in rows, t \in rows', t.face \in lost
    PROVE  t.face \in lost'
  <1> SUFFICES ASSUME t.face \notin lost' PROVE FALSE
    OBVIOUS
  <1>1. PICK m \in Member : /\ \E u \in rows : u.member = m /\ u.face = t.face
                            /\ rows' = {u \in rows : u.member # m}
    BY DEF StepFacts, Removes
  <1>2. t.member = m
    BY <1>1 DEF OriginInv, RowOK
  <1>3. QED
    BY <1>1, <1>2

LEMMA BackedInit == Init => BackedInv
  <1> SUFFICES ASSUME Init PROVE BackedInv
    OBVIOUS
  <1>1. \A r \in Req : call[r].pc = "new"
    BY DEF Init, NoCall
  <1>2. rows = {}
    BY DEF Init
  <1>3. QED
    BY <1>1, <1>2 DEF BackedInv

LEMMA BackedNext ==
    ASSUME TypeInv, OriginInv, BackedInv, StepFacts
    PROVE  BackedInv'
  <1>1. ASSUME NEW r \in Req, call[r].pc \in {"putImage", "createRow"},
               NEW f, f = Capture(r)
        PROVE  Known(f)' \/ f \in lost'
    <2>1. Known(f) \/ f \in lost
      BY <1>1 DEF BackedInv
    <2>2. QED
      BY <1>1, <2>1, KnownStays, CaptureStaysLost
  <1>2. ASSUME NEW t \in rows'
        PROVE  Known(t.face)' \/ t.face \in lost'
    <2>1. CASE t \in rows
      <3>1. Known(t.face) \/ t.face \in lost
        BY <2>1 DEF BackedInv
      <3>2. QED
        BY <2>1, <3>1, KnownStays, RowStaysLost
    <2>2. CASE t \notin rows
      <3>1. PICK r \in Req : call[r].pc = "createRow" /\ t = RowFor(r)
        BY <1>2, <2>2 DEF StepFacts, Writes
      <3>2. t.face = Capture(r)
        BY <3>1 DEF RowFor
      <3>3. QED
        BY <1>1, <3>1, <3>2
    <2>3. QED
      BY <2>1, <2>2
  <1>3. ASSUME NEW r \in Req, call'[r].pc \in {"putImage", "createRow"}
        PROVE  Known(Capture(r))' \/ Capture(r)' \in lost'
    <2>1. /\ Capture(r)' = Capture(r)
          /\ call[r].pc \in {"putImage", "createRow"} \/ Known(Capture(r))'
      BY <1>3 DEF StepFacts, Enters, Capture
    <2>2. ASSUME NEW f, f = Capture(r), call[r].pc \in {"putImage", "createRow"}
          PROVE  Known(f)' \/ f \in lost'
      BY <1>1, <2>2
    <2>3. QED
      BY <2>1, <2>2
  <1>4. QED
    BY <1>2, <1>3 DEF BackedInv

LEMMA BackedImplies == BackedInv => RowBacked
  BY DEF BackedInv, RowBacked, Known

\* The face list shows no face the engine does not hold, but those an erasure
\* made it forget and whose row is still to be deleted, whatever requests
\* overlap, fail or die (face-data.service.ts:162-176,
\* enrolment.service.ts:111-161).
THEOREM RowsAreBacked == Spec => []RowBacked
  <1>1. TypeInv /\ OriginInv /\ BackedInv /\ [Next]_vars
            => (TypeInv /\ OriginInv /\ BackedInv)'
    <2> SUFFICES ASSUME TypeInv, OriginInv, BackedInv, [Next]_vars
                 PROVE  (TypeInv /\ OriginInv /\ BackedInv)'
      OBVIOUS
    <2>1. TypeInv' /\ StepFacts
      BY TypeNext, NextFacts
    <2>2. QED
      BY <2>1, OriginNext, BackedNext
  <1>2. Spec => [](TypeInv /\ OriginInv /\ BackedInv)
    BY <1>1, TypeInit, OriginInit, BackedInit, PTL DEF Spec
  <1>3. QED
    BY <1>2, BackedImplies, PTL

-----------------------------------------------------------------------------
(* The engine before the images.                                           *)

LEMMA SubjectInit == Init => SubjectInv
  <1> SUFFICES ASSUME Init PROVE SubjectInv
    OBVIOUS
  <1>1. \A r \in Req : call[r].pc = "new" /\ call[r].templates = {}
    BY DEF Init, NoCall
  <1>2. rows = {}
    BY DEF Init
  <1>3. QED
    BY <1>1, <1>2 DEF SubjectInv, EnrolPC

LEMMA SubjectNext ==
    ASSUME ~CodesChange, TypeInv, TypeInv', OriginInv, SubjectInv, StepFacts
    PROVE  SubjectInv'
  <1>1. \A m \in Member : code'[m] = code[m]
    BY DEF StepFacts, Same
  <1>2. ASSUME NEW t \in rows'
        PROVE  t.subject = <<t.member, code'[t.member]>>
    <2>1. t.member \in Member
      BY DEF TypeInv, TypeOK, Row
    <2>2. CASE t \in rows
      BY <1>1, <2>1, <2>2 DEF SubjectInv
    <2>3. CASE t \notin rows
      <3>1. PICK r \in Req : call[r].pc = "createRow" /\ t = RowFor(r)
        BY <1>2, <2>3 DEF StepFacts, Writes
      <3>2. t.subject = call[r].subject /\ t.member = call[r].member
        BY <3>1 DEF RowFor
      <3>3. QED
        BY <1>1, <2>1, <3>1, <3>2 DEF SubjectInv, EnrolPC
    <2>4. QED
      BY <2>2, <2>3
  <1>3. ASSUME NEW r \in Req, call'[r].pc \in EnrolPC
        PROVE  call'[r].subject = <<call'[r].member, code'[call'[r].member]>>
    <2>1. call'[r].member \in Member
      BY DEF TypeInv, TypeOK, Call
    <2>2. CASE call[r].pc = "new"
      BY <1>1, <1>3, <2>1, <2>2
         DEF StepFacts, Starts, EnrolPC, AfterErase
    <2>3. CASE call[r].pc # "new"
      BY <1>1, <1>3, <2>1, <2>3 DEF StepFacts, Onward, SubjectInv
    <2>4. QED
      BY <2>2, <2>3
  <1>4. ASSUME NEW r \in Req, NEW t \in call'[r].templates
        PROVE  t.subject = <<t.member, code'[t.member]>>
    <2>1. t.member \in Member
      BY DEF TypeInv, TypeOK, Call, Row
    <2>2. t \in rows \/ t \in call[r].templates
      <3>1. CASE call[r].pc = "new"
        BY <1>4, <3>1 DEF StepFacts, Starts, OriginInv, RowsOf
      <3>2. CASE call[r].pc # "new"
        BY <1>4, <3>2 DEF StepFacts, Onward
      <3>3. QED
        BY <3>1, <3>2
    <2>3. QED
      BY <1>1, <2>1, <2>2 DEF SubjectInv
  <1>5. QED
    BY <1>2, <1>3, <1>4 DEF SubjectInv

\* A face that the engine has forgotten, or never knew, stays unknown.
LEMMA UnknownStays ==
    ASSUME TypeInv, StepFacts, NEW f \in Face, Taken(f), ~Known(f)
    PROVE  ~Known(f)'
  <1> SUFFICES ASSUME NEW e \in engine', e.face = f PROVE FALSE
    BY DEF Known
  <1>1. PICK r \in Req : /\ call[r].pc = "addFace" /\ call[r].left > 0
                         /\ e = [face |-> Capture(r), subject |-> call[r].subject]
    BY DEF Known, StepFacts, Writes
  <1>2. f = <<r, call[r].left>>
    BY <1>1 DEF Capture
  <1>3. call[r].left \in Nat
    BY LeftType
  <1>4. QED
    BY <1>1, <1>2, <1>3 DEF Taken

LEMMA ImageInit == Init => ImageInv
  <1> SUFFICES ASSUME Init PROVE ImageInv
    OBVIOUS
  <1>1. \A r \in Req : call[r].pc = "new"
    BY DEF Init, NoCall
  <1>2. rows = {}
    BY DEF Init
  <1>3. QED
    BY <1>1, <1>2 DEF ImageInv

LEMMA ImageNext ==
    ASSUME TypeInv, TypeInv', OriginInv, SubjectInv, ImageInv, StepFacts
    PROVE  ImageInv'
  <1>1. ASSUME NEW f, f \in store, f \notin store'
        PROVE  f \in Face /\ Passed(f) /\ ~Known(f)'
    <2>1. PICK r \in Req : /\ call[r].pc = "images"
                           /\ \E t \in call[r].templates : t.image /\ t.face = f
      BY <1>1 DEF StepFacts, Removes
    <2>2. PICK t \in call[r].templates : t.face = f
      BY <2>1
    <2>3. Passed(f) /\ ~Known(f)
      BY <2>1, <2>2 DEF OriginInv, RowOK, ImageInv
    <2>4. f \in Face
      BY <1>1 DEF TypeInv, TypeOK
    <2>5. QED
      BY <2>3, <2>4, UnknownStays DEF Passed
  <1>2. ASSUME NEW r \in Req, call[r].pc = "createRow", storeImages,
               NEW f, f = Capture(r)
        PROVE  f \in store'
    <2>1. f \in store
      BY <1>2 DEF ImageInv
    <2>2. ~Passed(f)
      <3>1. f[1] = r /\ f[2] = call[r].left /\ call[r].left \in Nat
        BY <1>2, LeftType DEF Capture
      <3>2. QED
        BY <1>2, <3>1 DEF Passed, EnrolPC
    <2>3. QED
      BY <1>1, <2>1, <2>2
  <1>3. ASSUME NEW t \in rows', t.image
        PROVE  t.face \in store' \/ ~Known(t.face)'
    <2>1. CASE t \in rows
      <3>1. t.face \in store \/ ~Known(t.face)
        BY <1>3, <2>1 DEF ImageInv
      <3>2. t.face \in Face /\ Taken(t.face)
        BY <2>1 DEF TypeInv, TypeOK, Row, OriginInv, RowOK, Passed
      <3>3. QED
        BY <1>1, <3>1, <3>2, UnknownStays
    <2>2. CASE t \notin rows
      <3>1. PICK r \in Req : call[r].pc = "createRow" /\ t = RowFor(r)
        BY <1>3, <2>2 DEF StepFacts, Writes
      <3>2. t.face = Capture(r) /\ t.image = storeImages
        BY <3>1 DEF RowFor
      <3>3. QED
        BY <1>2, <1>3, <3>1, <3>2
    <2>3. QED
      BY <2>1, <2>2
  <1>4. ASSUME NEW r \in Req, call'[r].pc = "createRow", storeImages'
        PROVE  Capture(r)' \in store'
    <2>1. /\ Capture(r)' = Capture(r)
          /\ \/ call[r].pc = "createRow"
             \/ Capture(r) \in store'
             \/ ~storeImages
      BY <1>4 DEF StepFacts, Enters, Capture
    <2>2. storeImages
      BY <1>4 DEF StepFacts, Same
    <2>3. QED
      BY <1>2, <2>1, <2>2
  <1>5. ASSUME NEW r \in Req, call'[r].pc = "images", NEW t \in call'[r].templates
        PROVE  ~Known(t.face)'
    <2>1. \/ call[r].pc = "images"
          \/ /\ call[r].pc = "engine"
             /\ apiKey => \E u \in call[r].templates :
                             engine' = WithoutSubject(u.subject)
      BY <1>5 DEF StepFacts, Enters
    <2>2. t \in call[r].templates
      BY <1>5, <2>1 DEF StepFacts, Onward
    <2>3. RowOK(t) /\ t.member = call[r].member
      BY <2>2 DEF OriginInv
    <2>4. CASE call[r].pc = "images"
      <3>1. ~Known(t.face)
        BY <2>2, <2>4 DEF ImageInv
      <3>2. t.face \in Face /\ Taken(t.face)
        BY <2>2, <2>3 DEF TypeInv, TypeOK, Call, Row, RowOK, Passed
      <3>3. QED
        BY <3>1, <3>2, UnknownStays
    <2>5. CASE call[r].pc = "engine"
      <3>1. apiKey
        BY <2>2 DEF OriginInv
      <3>2. PICK u \in call[r].templates : engine' = WithoutSubject(u.subject)
        BY <2>1, <2>5, <3>1
      <3>3. u.subject = t.subject
        BY <2>2, <2>3, <3>2 DEF SubjectInv, OriginInv
      <3>4. ASSUME NEW e \in engine', e.face = t.face PROVE FALSE
        <4>1. e \in engine /\ e.subject # t.subject
          BY <3>2, <3>3, <3>4 DEF WithoutSubject
        <4>2. e.subject = t.subject
          BY <2>3, <3>4, <4>1 DEF OriginInv, RowOK
        <4>3. QED
          BY <4>1, <4>2
      <3>5. QED
        BY <3>4 DEF Known
    <2>6. QED
      BY <2>1, <2>4, <2>5
  <1>6. QED
    BY <1>3, <1>4, <1>5 DEF ImageInv

LEMMA ImageImplies == ImageInv => FaceGoneBeforeImage
  BY DEF ImageInv, FaceGoneBeforeImage, Known

\* With codes that stay put, the image a row points at goes only after the
\* engine has forgotten that face, for any interleaving and any faults
\* (face-data.service.ts:22-26, 66-100).
THEOREM ImagesGoLast ==
    ASSUME ~CodesChange
    PROVE  Spec => []FaceGoneBeforeImage
  <1> DEFINE Inv == TypeInv /\ OriginInv /\ SubjectInv /\ ImageInv
  <1>1. Inv /\ [Next]_vars => Inv'
    <2> SUFFICES ASSUME Inv, [Next]_vars PROVE Inv'
      OBVIOUS
    <2>1. TypeInv' /\ StepFacts
      BY TypeNext, NextFacts
    <2>2. QED
      BY <2>1, OriginNext, SubjectNext, ImageNext
  <1>2. Init => Inv
    BY TypeInit, OriginInit, SubjectInit, ImageInit
  <1>3. Spec => []Inv
    <2> HIDE DEF Inv
    <2>1. QED
      BY <1>1, <1>2, PTL DEF Spec
  <1>4. QED
    BY <1>3, ImageImplies, PTL

-----------------------------------------------------------------------------
(* One request at a time, and nothing fails but the engine, cleanly.       *)

\* The other requests are not under way, before and after a step of r.
LEMMA SoleActor ==
    ASSUME Serial, Alone, NEW r \in Req, Others(r), MayStart(r) \/ InFlight(r)
    PROVE  /\ \A q \in Req \ {r} :
                 /\ call[q].pc \notin EnrolPC \union ErasePC
                 /\ call'[q].pc \notin EnrolPC \union ErasePC
                 /\ PhaseOK(q)'
           /\ TypeInv' => Alone'
  <1>1. \A q \in Req \ {r} : ~InFlight(q)
    BY DEF Alone, MayStart
  <1>2. \A q \in Req \ {r} :
            /\ call[q].pc \notin EnrolPC \union ErasePC
            /\ call'[q].pc \notin EnrolPC \union ErasePC
            /\ ~InFlight(q)'
    BY <1>1 DEF Others, InFlight, EnrolPC, ErasePC, EndPC
  <1>3. \A q \in Req \ {r} : PhaseOK(q)'
    BY <1>2 DEF PhaseOK, EnrolPC, ErasePC
  <1>4. Alone'
    BY <1>2 DEF Alone
  <1>5. QED
    BY <1>2, <1>3, <1>4

\* Without a capture at hand, what the engine and the storage hold is what
\* the rows say.
LEMMA PlacesFollowRows ==
    ASSUME OriginInv, PlacesInv,
           \A q \in Req : call[q].pc \notin {"putImage", "createRow"}
    PROVE  /\ \A e \in engine : \E t \in rows :
                 t.face = e.face /\ t.subject = e.subject /\ t.member = e.subject[1]
           /\ \A f \in store : \E t \in rows :
                 t.face = f /\ t.image /\ t.member = call[f[1]].member
  <1>1. ASSUME NEW e \in engine
        PROVE  \E t \in rows :
                 t.face = e.face /\ t.subject = e.subject /\ t.member = e.subject[1]
    <2>1. PICK t \in rows : t.face = e.face
      BY DEF PlacesInv
    <2>2. t.subject = e.subject /\ t.member = t.subject[1]
      BY <2>1 DEF OriginInv, RowOK
    <2>3. QED
      BY <2>1, <2>2
  <1>2. ASSUME NEW f \in store
        PROVE  \E t \in rows : t.face = f /\ t.image /\ t.member = call[f[1]].member
    <2>1. PICK t \in rows : t.face = f /\ t.image
      BY DEF PlacesInv
    <2>2. t.member = call[f[1]].member
      BY <2>1 DEF OriginInv, RowOK
    <2>3. QED
      BY <2>1, <2>2
  <1>3. QED
    BY <1>1, <1>2

LEMMA NoRowsGone ==
    ASSUME OriginInv, PlacesInv, NEW m, RowsOf(m) = {},
           \A q \in Req : call[q].pc \notin {"putImage", "createRow"}
    PROVE  Gone(m)
  BY PlacesFollowRows DEF Gone, RowsOf, EngineOf, ImagesOf

\* Who an image is of does not change while it is kept.
LEMMA OwnerStays ==
    ASSUME TypeInv, OriginInv, StepFacts
    PROVE  \A f \in store : call'[f[1]].member = call[f[1]].member
  BY DEF TypeInv, TypeOK, Face, OriginInv, Taken, StepFacts, Onward

LEMMA GoneStays ==
    ASSUME TypeInv, OriginInv, StepFacts, NEW m, Gone(m),
           engine' \subseteq engine, store' \subseteq store, rows' \subseteq rows
    PROVE  Gone(m)'
  BY OwnerStays DEF Gone, EngineOf, RowsOf, ImagesOf

\* No request is in the middle of a capture.
Idle == \A q \in Req : call[q].pc \notin {"putImage", "createRow"}

LEMMA SerialStart ==
    ASSUME Serial, TypeInv, TypeInv', OriginInv, SerialInv, StepFacts,
           NEW r \in Req, Start(r)
    PROVE  SerialInv' /\ (\A m \in Member : RowsOf(m) = {} => Gone(m)')
  <1> USE DEF memberVars, tenantVars, faceVars
  <1>1. /\ MayStart(r) /\ Others(r)
        /\ UNCHANGED <<consent, storeImages, engine, store, rows>>
        /\ call'[r].pc \in EnrolPC => call'[r].member \in consent
        /\ call'[r].pc = "engine" => call'[r].templates = RowsOf(call'[r].member)
        /\ call'[r].pc \in {"clearConsent"} => RowsOf(call'[r].member) = {}
        /\ call'[r].pc \in {"addFace", "failed", "clearConsent", "done", "engine"}
    <2>1. ASSUME NEW m \in Member, NEW n \in MIN_IMAGES .. MaxImages,
                 EnrolStart(r, m, n)
          PROVE  /\ MayStart(r) /\ Others(r)
                 /\ UNCHANGED <<consent, storeImages, engine, store, rows>>
                 /\ call'[r].pc = "addFace" /\ call'[r].member \in consent
      BY <2>1 DEF EnrolStart, Others, TypeInv, TypeOK, Call
    <2>2. ASSUME NEW m \in Member, EnrolRefused(r, m)
          PROVE  /\ MayStart(r) /\ Others(r)
                 /\ UNCHANGED <<consent, storeImages, engine, store, rows>>
                 /\ call'[r].pc = "failed"
      BY <2>2 DEF EnrolRefused, Others, TypeInv, TypeOK, Call
    <2>3. ASSUME NEW m \in Member, NEW op \in {"erase", "withdraw"},
                 EraseStart(r, m, op)
          PROVE  /\ MayStart(r) /\ Others(r)
                 /\ UNCHANGED <<consent, storeImages, engine, store, rows>>
                 /\ call'[r].pc = IF RowsOf(m) = {} THEN AfterErase(op) ELSE "engine"
                 /\ call'[r].templates = RowsOf(m) /\ call'[r].member = m
      BY <2>3 DEF EraseStart, Others, TypeInv, TypeOK, Call
    <2>4. QED
      BY <2>1, <2>2, <2>3 DEF Start, AfterErase, EnrolPC
  <1>2. Idle
    BY <1>1 DEF Idle, MayStart, InFlight, EndPC
  <1>3. \A m \in Member : RowsOf(m) = {} => Gone(m)'
    BY <1>1, <1>2, NoRowsGone, GoneStays DEF Idle, SerialInv
  <1>4. Alone' /\ \A q \in Req \ {r} : PhaseOK(q)'
    BY <1>1, SoleActor DEF SerialInv
  <1>5. PlacesInv'
    <2>1. \A q \in Req : call'[q].pc \notin {"putImage", "createRow"}
      BY <1>1, <1>2 DEF Idle, Others
    <2>2. QED
      BY <1>1, <1>2, <2>1 DEF Idle, SerialInv, PlacesInv
  <1>6. PhaseOK(r)'
    <2>1. call'[r].member \in Member
      BY DEF TypeInv, TypeOK, Call
    <2>2. RowsOf(call[r].member)' = RowsOf(call'[r].member)
      BY <1>1 DEF RowsOf
    <2>3. call'[r].pc = "clearConsent" => Gone(call[r].member)'
      BY <1>1, <1>3, <2>1
    <2>4. QED
      BY <1>1, <2>2, <2>3 DEF PhaseOK
  <1>7. QED
    BY <1>3, <1>4, <1>5, <1>6 DEF SerialInv

LEMMA SerialEnrol ==
    ASSUME Serial, TypeInv, TypeInv', OriginInv, SerialInv, ImageInv, StepFacts,
           NEW r \in Req,
           \/ ImageRejected(r) \/ AddFace(r) \/ PutImage(r) \/ CreateRow(r)
           \/ EnrolDone(r) \/ EnrolNone(r)
    PROVE  SerialInv'
  <1> USE DEF memberVars, tenantVars, faceVars
  <1>1. /\ call[r].pc \in EnrolPC /\ consent' = consent
        /\ storeImages' = storeImages
        /\ (\E pc \in EnrolPC \union EndPC : Goto(r, pc))
           \/ (\E ok \in BOOLEAN : NextImage(r, ok))
    BY DEF ImageRejected, AddFace, PutImage, CreateRow, EnrolDone, EnrolNone,
           AtImage, AtEnrolEnd, EnrolPC, EndPC
  <1>2. /\ Others(r) /\ call'[r].member = call[r].member
        /\ call'[r].pc \in EnrolPC \union EndPC
    BY <1>1, GotoFacts, NextImageFacts DEF EnrolPC
  <1>3. InFlight(r)
    BY <1>1 DEF InFlight, EnrolPC, EndPC
  <1>4. /\ Alone'
        /\ \A q \in Req \ {r} : /\ PhaseOK(q)'
                                /\ call[q].pc \notin {"putImage", "createRow"}
                                /\ call'[q].pc \notin {"putImage", "createRow"}
    BY <1>2, <1>3, SoleActor DEF SerialInv, EnrolPC
  <1>5. PhaseOK(r)'
    BY <1>1, <1>2 DEF SerialInv, PhaseOK, EnrolPC, EndPC
  <1>6. PlacesInv'
    <2>1. CASE ImageRejected(r) \/ EnrolDone(r) \/ EnrolNone(r)
      <3>1. /\ UNCHANGED <<engine, store, rows>> /\ call[r].pc = "addFace"
            /\ call'[r].pc \notin {"putImage", "createRow"}
        <4>1. CASE ImageRejected(r)
          BY <4>1, NextImageFacts DEF ImageRejected, AtImage
        <4>2. CASE EnrolDone(r)
          BY <4>2, GotoFacts DEF EnrolDone, AtEnrolEnd
        <4>3. CASE EnrolNone(r)
          BY <4>3, GotoFacts DEF EnrolNone, AtEnrolEnd
        <4>4. QED
          BY <2>1, <4>1, <4>2, <4>3
      <3>2. QED
        BY <1>1, <1>4, <3>1 DEF SerialInv, PlacesInv
    <2>2. CASE AddFace(r)
      <3>1. /\ UNCHANGED <<store, rows>> /\ call[r].pc = "addFace"
            /\ engine' = engine \union
                   {[face |-> Capture(r), subject |-> call[r].subject]}
            /\ call'[r].pc = IF storeImages THEN "putImage" ELSE "createRow"
            /\ Capture(r)' = Capture(r)
        BY <2>2, GotoFacts DEF AddFace, AtImage, AddToEngine, Capture
      <3>2. QED
        BY <1>1, <1>4, <3>1 DEF SerialInv, PlacesInv
    <2>3. CASE PutImage(r)
      <3>1. /\ UNCHANGED <<engine, rows>> /\ call[r].pc = "putImage"
            /\ store' = store \union {Capture(r)}
            /\ call'[r].pc = "createRow" /\ Capture(r)' = Capture(r)
        BY <2>3, GotoFacts DEF PutImage, Capture
      <3>2. QED
        BY <1>1, <1>4, <3>1 DEF SerialInv, PlacesInv
    <2>4. CASE CreateRow(r)
      <3>1. /\ UNCHANGED <<engine, store>> /\ call[r].pc = "createRow"
            /\ rows' = rows \union {RowFor(r)}
            /\ call'[r].pc = "addFace"
        BY <2>4, NextImageFacts DEF CreateRow
      <3>2. RowFor(r).face = Capture(r) /\ RowFor(r).image = storeImages
        BY DEF RowFor
      <3>3. QED
        BY <1>1, <1>4, <3>1, <3>2 DEF SerialInv, PlacesInv
    <2>5. QED
      BY <2>1, <2>2, <2>3, <2>4
  <1>7. QED
    BY <1>4, <1>5, <1>6 DEF SerialInv

LEMMA SerialErase ==
    ASSUME Serial, TypeInv, TypeInv', OriginInv, SubjectInv, SerialInv, StepFacts,
           NEW r \in Req,
           \/ EraseEngine(r) \/ EraseRows(r) \/ EraseFlag(r) \/ WithdrawConsent(r)
           \/ \E t \in call[r].templates : EraseImage(r, t)
           \/ EraseEngineFails(r)
           \/ StatementFails(r),
           Faults \subseteq {"engine_down"}
    PROVE  SerialInv'
  <1> USE DEF memberVars, tenantVars, faceVars
  <1> DEFINE m == call[r].member
  <1>1. /\ call[r].pc \in ErasePC /\ storeImages' = storeImages
        /\ engine' \subseteq engine /\ store' \subseteq store /\ rows' \subseteq rows
    BY DEF EraseEngine, EraseRows, EraseFlag, WithdrawConsent, EraseImage,
           EraseEngineFails, StatementFails, DeleteSubject, WithoutSubject,
           AtEraseRows, ErasePC
  <1>2. Others(r) /\ call'[r].member = m /\ call'[r].pc \in ErasePC \union EndPC
    <2>1. CASE EraseEngine(r)
      BY <2>1 DEF EraseEngine, Others, TypeInv, TypeOK, Call, ErasePC
    <2>2. CASE \E t \in call[r].templates : EraseImage(r, t)
      BY <2>2 DEF EraseImage, Others, TypeInv, TypeOK, Call, ErasePC
    <2>3. CASE EraseRows(r) \/ EraseFlag(r)
      BY <2>3, GotoFacts
         DEF EraseRows, EraseFlag, AfterErase, ErasePC, EndPC
    <2>4. CASE WithdrawConsent(r) \/ EraseEngineFails(r)
      BY <2>4, GotoFacts DEF WithdrawConsent, EraseEngineFails, EndPC
    <2>5. ~StatementFails(r)
      BY DEF StatementFails
    <2>6. QED
      BY <2>1, <2>2, <2>3, <2>4, <2>5
  <1>3. InFlight(r)
    BY <1>1 DEF InFlight, ErasePC, EndPC
  <1>4. /\ Alone'
        /\ \A q \in Req \ {r} : /\ PhaseOK(q)'
                                /\ call[q].pc \notin {"putImage", "createRow"}
                                /\ call'[q].pc \notin {"putImage", "createRow"}
    BY <1>2, <1>3, SoleActor DEF SerialInv, EnrolPC
  <1>5. Idle /\ Idle'
    BY <1>1, <1>2, <1>4 DEF Idle, ErasePC, EndPC
  <1>6. /\ \A e \in engine : \E t \in rows :
              t.face = e.face /\ t.subject = e.subject /\ t.member = e.subject[1]
        /\ \A f \in store : \E t \in rows :
              t.face = f /\ t.image /\ t.member = call[f[1]].member
        /\ store # {} => storeImages
    BY <1>5, PlacesFollowRows DEF Idle, SerialInv, PlacesInv
  <1>7. \A f \in store : call'[f[1]].member = call[f[1]].member
    BY OwnerStays
  <1>8. PhaseOK(r)
    BY DEF SerialInv
  <1>9. CASE EraseEngine(r)
    <2>1. PICK t \in call[r].templates :
              engine' = IF apiKey THEN WithoutSubject(t.subject) ELSE engine
      BY <1>9 DEF EraseEngine, DeleteSubject
    <2>2. /\ UNCHANGED <<store, rows>> /\ call[r].pc = "engine"
          /\ call'[r].pc = "images" /\ call'[r].templates = call[r].templates
      BY <1>9 DEF EraseEngine, TypeInv, TypeOK, Call
    <2>3. apiKey
      BY <2>1 DEF OriginInv
    <2>4. call[r].templates = RowsOf(m)
      BY <1>8, <2>2 DEF PhaseOK
    <2>5. t.member = m /\ t.subject = <<m, code[m]>>
      BY <2>1 DEF OriginInv, SubjectInv
    <2>6. \A e \in engine' : e.subject[1] # m
      <3> SUFFICES ASSUME NEW e \in engine', e.subject[1] = m PROVE FALSE
        OBVIOUS
      <3>1. e \in engine /\ e.subject # t.subject
        BY <2>1, <2>3 DEF WithoutSubject
      <3>2. PICK u \in rows : u.subject = e.subject /\ u.member = m
        BY <1>6, <3>1
      <3>3. u.subject = <<m, code[m]>>
        BY <3>2 DEF SubjectInv
      <3>4. QED
        BY <2>5, <3>1, <3>2, <3>3
    <2>7. \A f \in store' : call'[f[1]].member = m =>
             \E u \in call'[r].templates : u.image /\ u.face = f
      BY <1>6, <1>7, <2>2, <2>4 DEF RowsOf
    <2>8. PhaseOK(r)'
      BY <1>2, <2>2, <2>6, <2>7 DEF PhaseOK, EngineOf, ImagesOf, EnrolPC
    <2>9. PlacesInv'
      BY <1>1, <1>5, <1>6, <2>2 DEF PlacesInv, Idle
    <2>10. QED
      BY <1>4, <2>8, <2>9 DEF SerialInv
  <1>10. ASSUME NEW t \in call[r].templates, EraseImage(r, t)
         PROVE  SerialInv'
    <2>1. /\ UNCHANGED <<engine, rows>> /\ call[r].pc = "images"
          /\ call'[r].pc = "images" /\ call'[r].templates = call[r].templates \ {t}
          /\ store' = IF t.image THEN store \ {t.face} ELSE store
      BY <1>10 DEF EraseImage, TypeInv, TypeOK, Call
    <2>2. \A f \in store' : call'[f[1]].member = m =>
             \E u \in call'[r].templates : u.image /\ u.face = f
      <3> SUFFICES ASSUME NEW f \in store', call'[f[1]].member = m
                   PROVE  \E u \in call'[r].templates : u.image /\ u.face = f
        OBVIOUS
      <3>1. f \in store /\ call[f[1]].member = m
        BY <1>1, <1>7
      <3>2. PICK u \in call[r].templates : u.image /\ u.face = f
        BY <1>8, <2>1, <3>1 DEF PhaseOK, ImagesOf
      <3>3. u # t
        BY <2>1, <3>2
      <3>4. QED
        BY <2>1, <3>2, <3>3
    <2>3. PhaseOK(r)'
      BY <1>2, <1>8, <2>1, <2>2 DEF PhaseOK, EngineOf, ImagesOf, EnrolPC
    <2>4. PlacesInv'
      BY <1>1, <1>5, <1>6, <2>1 DEF PlacesInv, Idle
    <2>5. QED
      BY <1>4, <2>3, <2>4 DEF SerialInv
  <1>11. CASE EraseRows(r)
    <2>1. /\ UNCHANGED <<engine, store>> /\ call[r].pc = "images"
          /\ call[r].templates = {} /\ call'[r].pc = "flag"
          /\ rows' = {t \in rows : t.member # m}
      BY <1>11, GotoFacts DEF EraseRows, AtEraseRows
    <2>2. EngineOf(m) = {} /\ ImagesOf(m) = {}
      BY <1>8, <2>1 DEF PhaseOK
    <2>3. /\ \A e \in engine' : e.subject[1] # m
          /\ \A f \in store' : call[f[1]].member # m
          /\ \A t \in rows' : t.member # m
      BY <2>1, <2>2 DEF EngineOf, ImagesOf
    <2>4. PhaseOK(r)'
      BY <1>1, <1>2, <1>7, <2>1, <2>3
         DEF PhaseOK, Gone, EngineOf, ImagesOf, RowsOf, EnrolPC
    <2>5. PlacesInv'
      BY <1>1, <1>5, <1>6, <2>1, <2>3 DEF PlacesInv, Idle
    <2>6. QED
      BY <1>4, <2>4, <2>5 DEF SerialInv
  <1>12. CASE EraseFlag(r) \/ WithdrawConsent(r) \/ EraseEngineFails(r)
    <2>1. CASE EraseFlag(r)
      <3>1. /\ UNCHANGED <<engine, store, rows>> /\ call[r].pc = "flag"
            /\ call'[r].pc \in {"clearConsent", "done"}
        BY <2>1, GotoFacts DEF EraseFlag, AfterErase
      <3>2. Gone(m)
        BY <1>8, <3>1 DEF PhaseOK
      <3>3. ASSUME NEW n, n = m PROVE Gone(n)'
        BY <3>1, <3>2, <3>3, GoneStays
      <3>4. Gone(call[r].member)'
        BY <1>2, <3>3
      <3>5. PhaseOK(r)'
        BY <3>1, <3>4 DEF PhaseOK, EnrolPC
      <3>6. PlacesInv'
        BY <1>1, <1>5, <1>6, <3>1 DEF PlacesInv, Idle
      <3>7. QED
        BY <1>4, <3>5, <3>6 DEF SerialInv
    <2>2. CASE WithdrawConsent(r) \/ EraseEngineFails(r)
      <3>1. UNCHANGED <<engine, store, rows>> /\ call'[r].pc \in EndPC
        BY <2>2, GotoFacts DEF WithdrawConsent, EraseEngineFails, EndPC
      <3>2. PhaseOK(r)'
        BY <3>1 DEF PhaseOK, EnrolPC, EndPC
      <3>3. PlacesInv'
        BY <1>1, <1>5, <1>6, <3>1 DEF PlacesInv, Idle
      <3>4. QED
        BY <1>4, <3>2, <3>3 DEF SerialInv
    <2>3. QED
      BY <1>12, <2>1, <2>2
  <1>13. QED
    BY <1>9, <1>10, <1>11, <1>12 DEF StatementFails

LEMMA SerialAround ==
    ASSUME TypeInv, SerialInv, Edit \/ UNCHANGED vars
    PROVE  SerialInv'
  <1> USE DEF memberVars, tenantVars, faceVars
  <1>1. /\ UNCHANGED <<storeImages, engine, store, rows, call>>
        /\ consent \subseteq consent'
    BY DEF Edit, RecordConsent, UpdateMember, Provision, vars
  <1>2. Alone' /\ PlacesInv'
    BY <1>1 DEF SerialInv, Alone, PlacesInv, InFlight, Capture
  <1>3. ASSUME NEW r \in Req PROVE PhaseOK(r)'
    BY <1>1 DEF SerialInv, PhaseOK, Gone, EngineOf, RowsOf, ImagesOf
  <1>4. QED
    BY <1>2, <1>3 DEF SerialInv

LEMMA SerialInit == Init => SerialInv
  <1> SUFFICES ASSUME Init PROVE SerialInv
    OBVIOUS
  <1>1. \A r \in Req : call[r].pc = "new"
    BY DEF Init, NoCall
  <1>2. engine = {} /\ store = {} /\ rows = {}
    BY DEF Init
  <1>3. QED
    BY <1>1, <1>2
       DEF SerialInv, Alone, PlacesInv, PhaseOK, InFlight, EnrolPC

\* What holds at every step when requests are serial and only the engine fails.
WholeInv == TypeInv /\ OriginInv /\ SubjectInv /\ ImageInv /\ SerialInv

\* The deployment the promises of one request are about.
SerialAndSound == Serial /\ ~CodesChange /\ Faults \subseteq {"engine_down"}

LEMMA SerialNext ==
    ASSUME SerialAndSound, WholeInv, [Next]_vars
    PROVE  WholeInv' /\ StepFacts
  <1>1. TypeInv' /\ StepFacts
    BY TypeNext, NextFacts DEF WholeInv
  <1>2. OriginInv' /\ SubjectInv' /\ ImageInv'
    BY <1>1, OriginNext, SubjectNext, ImageNext DEF WholeInv, SerialAndSound
  <1>3. SerialInv'
    <2>1. ASSUME NEW r \in Req, Start(r) PROVE SerialInv'
      BY <1>1, <2>1, SerialStart DEF WholeInv, SerialAndSound
    <2>2. ASSUME NEW r \in Req, Step(r) PROVE SerialInv'
      BY <1>1, <2>2, SerialEnrol, SerialErase DEF Step, WholeInv, SerialAndSound
    <2>3. ASSUME NEW r \in Req, Fail(r) PROVE SerialInv'
      BY <1>1, <2>3, SerialErase
         DEF Fail, AddFaceLate, PutImageFails, CreateRowFails, WholeInv, SerialAndSound
    <2>4. ~Crash
      BY DEF Crash, SerialAndSound
    <2>5. CASE Edit \/ UNCHANGED vars
      BY <2>5, SerialAround DEF WholeInv
    <2>6. QED
      BY <2>1, <2>2, <2>3, <2>4, <2>5 DEF Next
  <1>4. QED
    BY <1>1, <1>2, <1>3 DEF WholeInv

LEMMA WholeAlways ==
    ASSUME SerialAndSound
    PROVE  Spec => []WholeInv
  <1>1. WholeInv /\ [Next]_vars => WholeInv'
    BY SerialNext
  <1>2. Init => WholeInv
    BY TypeInit, OriginInit, SubjectInit, ImageInit, SerialInit DEF WholeInv
  <1>3. QED
    BY <1>1, <1>2, PTL DEF Spec

\* The two ways an erasure comes to its end.
LEMMA EraseEnds ==
    ASSUME SerialAndSound, WholeInv, [Next]_vars, NEW r \in Req,
           Erasing(call'[r].op), call[r].pc # "done", call'[r].pc = "done"
    PROVE  \/ Start(r)
           \/ /\ call[r].pc \in {"flag", "clearConsent"}
              /\ UNCHANGED <<engine, store, rows>>
  <1> USE DEF memberVars, tenantVars, faceVars
  <1>0. TypeInv
    BY DEF WholeInv
  <1>1. ASSUME NEW q \in Req, Start(q) PROVE q = r
    <2>1. Others(q)
      BY <1>0, <1>1
         DEF Start, EnrolStart, EnrolRefused, EraseStart, Others, TypeInv, TypeOK
    <2>2. QED
      BY <2>1 DEF Others
  <1>2. ASSUME NEW q \in Req, Step(q)
        PROVE  /\ call[r].pc \in {"flag", "clearConsent"}
               /\ UNCHANGED <<engine, store, rows>>
    <2>1. CASE ImageRejected(q)
      BY <1>0, <2>1, NextImageFacts DEF ImageRejected, Others
    <2>2. CASE AddFace(q) \/ PutImage(q)
      BY <1>0, <2>2, GotoFacts DEF AddFace, PutImage, Others
    <2>3. CASE CreateRow(q)
      BY <1>0, <2>3, NextImageFacts DEF CreateRow, Others
    <2>4. CASE EnrolDone(q) \/ EnrolNone(q)
      <3>1. Others(q) /\ call'[q].op = call[q].op /\ call[q].pc = "addFace"
        BY <1>0, <2>4, GotoFacts DEF EnrolDone, EnrolNone, AtEnrolEnd
      <3>2. call[q].op = "enrol"
        BY <3>1 DEF WholeInv, OriginInv, EnrolPC
      <3>3. QED
        BY <3>1, <3>2 DEF Others, Erasing
    <2>5. CASE EraseEngine(q) \/ \E t \in call[q].templates : EraseImage(q, t)
      <3>1. Others(q) /\ call'[q].pc = "images"
        <4>1. CASE EraseEngine(q)
          BY <1>0, <4>1 DEF EraseEngine, Others, TypeInv, TypeOK, Call
        <4>2. ASSUME NEW t \in call[q].templates, EraseImage(q, t)
              PROVE  Others(q) /\ call'[q].pc = "images"
          BY <1>0, <4>2 DEF EraseImage, Others, TypeInv, TypeOK, Call
        <4>3. QED
          BY <2>5, <4>1, <4>2
      <3>2. QED
        BY <3>1 DEF Others
    <2>6. CASE EraseRows(q)
      BY <1>0, <2>6, GotoFacts DEF EraseRows, Others
    <2>7. CASE EraseFlag(q) \/ WithdrawConsent(q)
      BY <1>0, <2>7, GotoFacts DEF EraseFlag, WithdrawConsent, Others
    <2>8. QED
      BY <1>2, <2>1, <2>2, <2>3, <2>4, <2>5, <2>6, <2>7 DEF Step
  <1>3. ASSUME NEW q \in Req, Fail(q) PROVE FALSE
    <2>1. EraseEngineFails(q)
      BY <1>3 DEF Fail, AddFaceLate, PutImageFails, CreateRowFails,
                  StatementFails, SerialAndSound
    <2>2. QED
      BY <1>0, <2>1, GotoFacts DEF EraseEngineFails, Others
  <1>4. ~Edit /\ ~Crash /\ ~UNCHANGED vars
    BY DEF Edit, RecordConsent, UpdateMember, Provision, Crash, SerialAndSound, vars
  <1>5. QED
    BY <1>1, <1>2, <1>3, <1>4 DEF Next

LEMMA EraseStep ==
    ASSUME SerialAndSound, WholeInv, [Next]_vars, NEW r \in Req,
           Erasing(call'[r].op), call[r].pc # "done", call'[r].pc = "done"
    PROVE  Gone(call[r].member)'
  <1>1. TypeInv' /\ StepFacts
    BY SerialNext DEF WholeInv
  <1>2. call'[r].member \in Member
    BY <1>1 DEF TypeInv, TypeOK, Call
  <1>3. CASE Start(r)
    <2>1. call[r].pc = "new"
      BY <1>3 DEF Start, EnrolStart, EnrolRefused, EraseStart, MayStart
    <2>2. RowsOf(call'[r].member) = {}
      BY <1>1, <2>1 DEF StepFacts, Starts
    <2>3. \A m \in Member : RowsOf(m) = {} => Gone(m)'
      BY <1>1, <1>3, SerialStart DEF WholeInv, SerialAndSound
    <2>4. QED
      BY <1>2, <2>2, <2>3
  <1>4. CASE /\ call[r].pc \in {"flag", "clearConsent"}
             /\ UNCHANGED <<engine, store, rows>>
    <2>1. Gone(call[r].member)
      BY <1>4 DEF WholeInv, SerialInv, PhaseOK
    <2>2. call'[r].member = call[r].member
      BY <1>1, <1>4 DEF StepFacts, Onward
    <2>3. ASSUME NEW n, n = call[r].member PROVE Gone(n)'
      BY <1>1, <1>4, <2>1, <2>3, GoneStays DEF WholeInv
    <2>4. QED
      BY <2>2, <2>3
  <1>5. QED
    BY <1>3, <1>4, EraseEnds

\* "Deleted has to mean all three" (face-data.service.ts:15-20): if requests
\* come one after the other, codes stay put and nothing but the engine fails,
\* an erasure that reports success leaves nothing of its member, for any
\* number of members, requests and captures.
THEOREM ErasedMeansGone ==
    ASSUME SerialAndSound
    PROVE  Spec => EraseMeansAllThree
  <1>1. WholeInv /\ [Next]_vars =>
            [\A r \in Req :
                /\ Erasing(call'[r].op)
                /\ call[r].pc # "done" /\ call'[r].pc = "done"
                /\ call'[r].cleared
                => Gone(call[r].member)']_vars
    BY EraseStep
  <1>2. Spec => []WholeInv
    BY WholeAlways
  <1>3. QED
    BY <1>1, <1>2, PTL DEF Spec, EraseMeansAllThree

-----------------------------------------------------------------------------
(* FaceData implements BiometricRecord.                                    *)

\* What happens to the faces of each member.
LEMMA FacesGrow ==
    ASSUME TypeInv, NEW r \in Req, call[r].subject[1] = call[r].member,
           call[r].member \in Member, AddToEngine(r)
    PROVE  EngineFaces' = [EngineFaces EXCEPT ![call[r].member] =
                              @ \union {Capture(r)}]
  <1> DEFINE m == call[r].member
             new == [face |-> Capture(r), subject |-> call[r].subject]
  <1>1. engine' = engine \union {new}
    BY DEF AddToEngine
  <1>2. new.face = Capture(r) /\ new.subject[1] = m
    OBVIOUS
  <1> HIDE DEF new
  <1>3. \A n \in Member : {e.face : e \in {d \in engine' : d.subject[1] = n}} =
            {e.face : e \in {d \in engine : d.subject[1] = n}} \union
            (IF n = m THEN {Capture(r)} ELSE {})
    BY <1>1, <1>2
  <1>4. QED
    BY <1>3 DEF EngineFaces, EngineOf

LEMMA FacesGo ==
    ASSUME TypeInv, NEW m \in Member, NEW s, s[1] = m,
           engine' = WithoutSubject(s),
           \A e \in engine : e.subject[1] = m => e.subject = s
    PROVE  EngineFaces' = [EngineFaces EXCEPT ![m] = {}]
  <1>1. \A e \in engine : e \in engine' <=> e.subject[1] # m
    BY DEF WithoutSubject
  <1>2. engine' \subseteq engine
    BY DEF WithoutSubject
  <1>3. \A n \in Member : {e.face : e \in {d \in engine' : d.subject[1] = n}} =
            IF n = m THEN {} ELSE {e.face : e \in {d \in engine : d.subject[1] = n}}
    BY <1>1, <1>2
  <1>4. QED
    BY <1>3 DEF EngineFaces, EngineOf

LEMMA RecordInit == Init => Record!Init
  <1> SUFFICES ASSUME Init PROVE Record!Init
    OBVIOUS
  <1>1. consent \in SUBSET Member /\ engine = {}
    BY DEF Init
  <1>2. \A m \in Member : {e.face : e \in EngineOf(m)} = {}
    BY <1>1 DEF EngineOf
  <1>3. EngineFaces = [m \in Member |-> {}]
    BY <1>2 DEF EngineFaces
  <1>4. QED
    BY <1>1, <1>3 DEF Record!Init

\* Every step is a step of the record, or one it does not see.
LEMMA RecordStep ==
    ASSUME SerialAndSound, WholeInv, [Next]_vars
    PROVE  [Record!Next]_(Record!vars)
  <1> USE DEF memberVars, tenantVars, faceVars
  <1>0. /\ WholeInv' /\ StepFacts /\ TypeInv /\ TypeInv'
        /\ OriginInv /\ SubjectInv /\ SerialInv
        /\ \A r \in Req : call[r].member \in Member
    BY SerialNext DEF WholeInv, TypeInv, TypeOK, Call
  <1>1. CASE UNCHANGED <<consent, engine>>
    BY <1>1 DEF Record!vars, EngineFaces, EngineOf
  <1>2. ASSUME NEW m \in Member, UNCHANGED engine, consent' = consent \union {m}
        PROVE  Record!Next
    <2>1. EngineFaces' = EngineFaces
      BY <1>2 DEF EngineFaces, EngineOf
    <2>2. Record!Grant(m)
      BY <1>2, <2>1 DEF Record!Grant
    <2>3. QED
      BY <2>2 DEF Record!Next
  <1>3. ASSUME NEW r \in Req, AddFace(r)
        PROVE  Record!Next
    <2> DEFINE m == call[r].member
    <2>1. /\ call[r].pc = "addFace" /\ call[r].left > 0 /\ AddToEngine(r)
          /\ UNCHANGED consent
      BY <1>3 DEF AddFace, AtImage
    <2>2. call[r].subject[1] = m /\ m \in consent
      BY <1>0, <2>1 DEF OriginInv, SerialInv, PhaseOK, EnrolPC
    <2>3. Capture(r) \in Face
      BY <1>0, <2>1, FaceDataAssumption DEF Capture, Face, TypeInv, TypeOK, Call
    <2>4. Record!Enrol(m, Capture(r))
      BY <1>0, <2>1, <2>2, FacesGrow DEF Record!Enrol
    <2>5. QED
      BY <1>0, <2>3, <2>4 DEF Record!Next
  <1>4. ASSUME NEW r \in Req, EraseEngine(r)
        PROVE  Record!Next
    <2> DEFINE m == call[r].member
    <2>1. PICK t \in call[r].templates :
              engine' = IF apiKey THEN WithoutSubject(t.subject) ELSE engine
      BY <1>4 DEF EraseEngine, DeleteSubject
    <2>2. call[r].pc = "engine" /\ UNCHANGED consent
      BY <1>4 DEF EraseEngine
    <2>3. apiKey /\ t.member = m /\ t.subject = <<m, code[m]>>
      BY <1>0, <2>1 DEF OriginInv, SubjectInv
    <2>4. Idle
      <3>1. InFlight(r)
        BY <2>2 DEF InFlight, EndPC
      <3>2. \A q \in Req : InFlight(q) => q = r
        BY <1>0, <3>1 DEF SerialInv, Alone
      <3>3. QED
        BY <2>2, <3>2 DEF Idle, InFlight, EndPC
    <2>5. \A e \in engine : e.subject[1] = m => e.subject = t.subject
      <3> SUFFICES ASSUME NEW e \in engine, e.subject[1] = m
                   PROVE  e.subject = t.subject
        OBVIOUS
      <3>1. PICK u \in rows : u.subject = e.subject /\ u.member = m
        BY <1>0, <2>4, PlacesFollowRows DEF Idle, SerialInv
      <3>2. QED
        BY <1>0, <2>3, <3>1 DEF SubjectInv
    <2>6. EngineFaces' = [EngineFaces EXCEPT ![m] = {}]
      BY <1>0, <2>1, <2>3, <2>5, FacesGo
    <2>7. Record!Erase(m)
      BY <2>2, <2>6 DEF Record!Erase
    <2>8. QED
      BY <1>0, <2>7 DEF Record!Next
  <1>5. ASSUME NEW r \in Req, WithdrawConsent(r)
        PROVE  Record!Next
    <2> DEFINE m == call[r].member
    <2>1. call[r].pc = "clearConsent" /\ consent' = consent \ {m} /\ UNCHANGED engine
      BY <1>5 DEF WithdrawConsent
    <2>2. EngineOf(m) = {}
      BY <1>0, <2>1 DEF SerialInv, PhaseOK, Gone
    <2>3. EngineFaces[m] = {}
      BY <1>0, <2>2 DEF EngineFaces
    <2>4. EngineFaces' = EngineFaces
      BY <2>1 DEF EngineFaces, EngineOf
    <2>5. Record!Withdraw(m)
      BY <2>1, <2>3, <2>4 DEF Record!Withdraw
    <2>6. QED
      BY <1>0, <2>5 DEF Record!Next
  <1>6. ASSUME NEW r \in Req, Start(r)
        PROVE  UNCHANGED <<consent, engine>>
    BY <1>6 DEF Start, EnrolStart, EnrolRefused, EraseStart
  <1>7. ASSUME NEW r \in Req, Step(r)
        PROVE  \/ AddFace(r) \/ EraseEngine(r) \/ WithdrawConsent(r)
               \/ UNCHANGED <<consent, engine>>
    BY <1>7 DEF Step, ImageRejected, PutImage, CreateRow, EnrolDone, EnrolNone,
                EraseImage, EraseRows, EraseFlag
  <1>8. ASSUME NEW r \in Req, Fail(r)
        PROVE  UNCHANGED <<consent, engine>>
    BY <1>8 DEF Fail, AddFaceLate, PutImageFails, CreateRowFails,
                EraseEngineFails, StatementFails, SerialAndSound
  <1>9. CASE Edit
    <2>1. ASSUME NEW m \in Member, RecordConsent(m)
          PROVE  Record!Next
      BY <1>2, <2>1 DEF RecordConsent
    <2>2. ASSUME NEW m \in Member, NEW c \in Code, NEW granted \in BOOLEAN,
                 UpdateMember(m, c, granted)
          PROVE  Record!Next \/ UNCHANGED <<consent, engine>>
      BY <1>2, <2>2 DEF UpdateMember
    <2>3. CASE Provision
      BY <1>1, <2>3 DEF Provision
    <2>4. QED
      BY <1>1, <1>9, <2>1, <2>2, <2>3 DEF Edit
  <1>10. CASE Crash \/ UNCHANGED vars
    BY <1>1, <1>10 DEF Crash, vars
  <1>11. QED
    BY <1>1, <1>3, <1>4, <1>5, <1>6, <1>7, <1>8, <1>9, <1>10 DEF Next

\* One request at a time keeps the record's promise: every behaviour is one of
\* BiometricRecord, in which a face is added only under consent and consent
\* goes only when no face is left (face-data.service.ts:103-109).
THEOREM KeepsTheRecord ==
    ASSUME SerialAndSound
    PROVE  Spec => RecordSpec
  <1>1. Spec => []WholeInv
    BY WholeAlways
  <1>2. WholeInv /\ [Next]_vars => [Record!Next]_(Record!vars)
    BY RecordStep
  <1>3. QED
    BY <1>1, <1>2, RecordInit, PTL DEF Spec, RecordSpec, Record!Spec

-----------------------------------------------------------------------------
(* Consent and the three places.                                           *)

CoverInv == \A m \in Member : m \notin consent => Gone(m)

LEMMA ConsentGoesWithFaces ==
    ASSUME SerialAndSound, WholeInv, [Next]_vars,
           NEW m \in Member, m \in consent, m \notin consent'
    PROVE  Gone(m) /\ UNCHANGED <<engine, store, rows>>
  <1> USE DEF memberVars, tenantVars, faceVars
  <1>1. PICK r \in Req : WithdrawConsent(r)
    <2>1. ASSUME NEW r \in Req, Start(r) \/ Step(r) \/ Fail(r)
          PROVE  WithdrawConsent(r)
      BY <2>1 DEF Start, EnrolStart, EnrolRefused, EraseStart, Step, ImageRejected,
                  AddFace, PutImage, CreateRow, EnrolDone, EnrolNone, EraseEngine,
                  EraseImage, EraseRows, EraseFlag, Fail, AddFaceLate,
                  PutImageFails, CreateRowFails, EraseEngineFails, StatementFails
    <2>2. ~Edit /\ ~Crash /\ ~UNCHANGED vars
      BY DEF Edit, RecordConsent, UpdateMember, Provision, Crash, vars
    <2>3. QED
      BY <2>1, <2>2 DEF Next
  <1>2. call[r].pc = "clearConsent" /\ call[r].member = m
    BY <1>1 DEF WithdrawConsent
  <1>3. QED
    BY <1>1, <1>2 DEF WithdrawConsent, WholeInv, SerialInv, PhaseOK

LEMMA CoverNext ==
    ASSUME SerialAndSound, WholeInv, CoverInv, [Next]_vars
    PROVE  CoverInv'
  <1>0. /\ StepFacts /\ TypeInv /\ OriginInv /\ SerialInv
        /\ \A q \in Req : call[q].pc \in EnrolPC => call[q].member \in consent
    BY SerialNext DEF WholeInv, SerialInv, PhaseOK
  <1> SUFFICES ASSUME NEW m \in Member, m \notin consent' PROVE Gone(m)'
    BY DEF CoverInv
  <1>1. CASE m \in consent
    BY <1>0, <1>1, ConsentGoesWithFaces, GoneStays
  <1>2. CASE m \notin consent
    <2>1. Gone(m)
      BY <1>2 DEF CoverInv
    <2>2. \A e \in engine' : e.subject[1] # m
      <3> SUFFICES ASSUME NEW e \in engine', e \notin engine PROVE e.subject[1] # m
        BY <2>1 DEF Gone, EngineOf
      <3>1. PICK r \in Req :
              /\ call[r].pc = "addFace"
              /\ e = [face |-> Capture(r), subject |-> call[r].subject]
        BY <1>0 DEF StepFacts, Writes
      <3>2. QED
        BY <1>0, <1>2, <3>1 DEF OriginInv, EnrolPC
    <2>3. \A t \in rows' : t.member # m
      <3> SUFFICES ASSUME NEW t \in rows', t \notin rows PROVE t.member # m
        BY <2>1 DEF Gone, RowsOf
      <3>1. PICK r \in Req : call[r].pc = "createRow" /\ t = RowFor(r)
        BY <1>0 DEF StepFacts, Writes
      <3>2. QED
        BY <1>0, <1>2, <3>1 DEF RowFor, EnrolPC
    <2>4. \A f \in store' : call'[f[1]].member # m
      <3> SUFFICES ASSUME NEW f \in store', f \notin store
                   PROVE  call'[f[1]].member # m
        BY <1>0, <2>1, OwnerStays DEF Gone, ImagesOf
      <3>1. PICK r \in Req : call[r].pc = "putImage" /\ f = Capture(r)
        BY <1>0 DEF StepFacts, Writes
      <3>2. f[1] = r /\ call'[r].member = call[r].member
        BY <1>0, <3>1 DEF Capture, StepFacts, Onward
      <3>3. QED
        BY <1>0, <1>2, <3>1, <3>2 DEF EnrolPC
    <2>5. QED
      BY <2>2, <2>3, <2>4 DEF Gone, EngineOf, RowsOf, ImagesOf
  <1>3. QED
    BY <1>1, <1>2

\* What two overlapping requests can break (the run FaceConsentRace) holds when
\* they come one after the other: a member without consent has no face in the
\* engine, no row and no image (face-data.service.ts:106-108).
THEOREM SerialConsentCovers ==
    ASSUME SerialAndSound
    PROVE  Spec => []ConsentCoversFaces
  <1>1. Init => CoverInv
    BY DEF Init, CoverInv, Gone, EngineOf, RowsOf, ImagesOf
  <1>2. Spec => []WholeInv
    BY WholeAlways
  <1>3. WholeInv /\ CoverInv /\ [Next]_vars => CoverInv'
    BY CoverNext
  <1>4. CoverInv => ConsentCoversFaces
    BY DEF CoverInv, ConsentCoversFaces
  <1>5. QED
    BY <1>1, <1>2, <1>3, <1>4, PTL DEF Spec
=============================================================================
