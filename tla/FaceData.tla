------------------------------ MODULE FaceData ------------------------------
(***************************************************************************)
(* The biometric data of one tenant: enrolment (enrolment.service.ts),     *)
(* erasure and consent (face-data.service.ts), the ordinary member edit    *)
(* that changes a code or adds consent (members.service.ts), and the three *)
(* stores a face lives in: the CompreFace collection, the image storage    *)
(* and the face_templates table.                                           *)
(*                                                                         *)
(* Each HTTP request is a process.  Between two of its steps there is an   *)
(* `await`, so other requests run there; a step is one call to a store or  *)
(* to the engine.  Request r gives its i-th capture the identifier         *)
(* <<r, i>>, which stands both for the image_id the engine answers with    *)
(* and for the randomUUID of its storage key: both are fresh.              *)
(***************************************************************************)
EXTENDS Naturals

CONSTANTS
    Member,      \* the members of the tenant; member rows are never deleted
    Code,        \* member codes
    Req,         \* the requests that will be made, each at most once
    MaxImages,   \* bound on the captures of one enrolment (MAX_IMAGES is 8)
    Serial,      \* TRUE: a request is made only when none is in flight
    CodesChange, \* TRUE: an edit may give a member another code
    Faults       \* the kinds of failure that may happen

MIN_IMAGES == 2

\* engine_down: the engine refuses or cannot be reached, nothing happened.
\* engine_late: the call times out (REQUEST_TIMEOUT_MS) after it took effect.
\* storage, database: a call to the storage driver or a statement fails.
\* crash: the API process dies with every request in it.
FaultKind == {"engine_down", "engine_late", "storage", "database", "crash"}

ASSUME FaceDataAssumption ==
    /\ Member # {}
    /\ Code # {}
    /\ MaxImages \in Nat
    /\ MaxImages >= MIN_IMAGES
    /\ Serial \in BOOLEAN
    /\ CodesChange \in BOOLEAN
    /\ Faults \subseteq FaultKind

VARIABLES
    code,         \* Member.code
    consent,      \* the members with consentAt set
    withdrawn,    \* the members with consentWithdrawnAt set
    enrolled,     \* the members with faceEnrolledAt set
    apiKey,       \* Tenant.comprefaceApiKeyEnc is set
    storeImages,  \* not TenantSettings.storeEmbeddingOnly
    engine,       \* the faces in the tenant's CompreFace collection
    store,        \* the enrolment images in storage
    rows,         \* face_templates
    call,         \* request -> its local variables
    everConsented,\* history: the members whose consent was ever on record
    lost          \* history: the faces an erasure made the engine forget,
                  \* until one has deleted their rows too

memberVars == <<code, consent, withdrawn, enrolled, everConsented>>
tenantVars == <<apiKey, storeImages>>
faceVars == <<engine, store, rows, lost>>
vars == <<memberVars, tenantVars, faceVars, call>>

Face == Req \X (1 .. MaxImages)
Subject == Member \X Code
EngineFace == [face : Face, subject : Subject]
Row == [face : Face, member : Member, subject : Subject, image : BOOLEAN]

EnrolPC == {"addFace", "putImage", "createRow"}
ErasePC == {"engine", "images", "flag", "clearConsent"}
EndPC == {"done", "failed"}

Call == [pc        : {"new"} \union EnrolPC \union ErasePC \union EndPC,
         op        : {"none", "enrol", "erase", "withdraw"},
         member    : Member,
         subject   : Subject,
         left      : 0 .. MaxImages,   \* captures not yet looked at
         count     : 0 .. MaxImages,   \* the local `enrolled`
         templates : SUBSET Row,       \* rows whose image is still to delete
         cleared   : BOOLEAN]          \* comprefaceCleared

NoCall == [pc |-> "new", op |-> "none", member |-> CHOOSE m \in Member : TRUE,
           subject |-> CHOOSE s \in Subject : TRUE, left |-> 0, count |-> 0,
           templates |-> {}, cleared |-> FALSE]

InFlight(r) == call[r].pc \notin {"new"} \union EndPC
InFlightFor(m) == \E r \in Req : InFlight(r) /\ call[r].member = m

\* The faces of member m in each of the three places.
EngineOf(m) == {e \in engine : e.subject[1] = m}
RowsOf(m) == {t \in rows : t.member = m}
ImagesOf(m) == {f \in store : call[f[1]].member = m}
Gone(m) == EngineOf(m) = {} /\ RowsOf(m) = {} /\ ImagesOf(m) = {}

-----------------------------------------------------------------------------
Init ==
    /\ code \in {c \in [Member -> Code] :
                    \A m, n \in Member : c[m] = c[n] => m = n}
    /\ consent \in SUBSET Member
    /\ withdrawn = {}
    /\ enrolled = {}
    /\ everConsented = consent
    /\ apiKey \in BOOLEAN
    /\ storeImages \in BOOLEAN
    /\ engine = {}
    /\ store = {}
    /\ rows = {}
    /\ lost = {}
    /\ call = [r \in Req |-> NoCall]

-----------------------------------------------------------------------------
(* The member record, outside the face module.                             *)

\* FaceDataService.recordConsent.  The controller drops the body's `granted`.
RecordConsent(m) ==
    /\ consent' = consent \union {m}
    /\ everConsented' = everConsented \union {m}
    /\ withdrawn' = withdrawn \ {m}
    /\ UNCHANGED <<code, enrolled, tenantVars, faceVars, call>>

\* MembersService.update, as far as it matters here: the code, which the
\* unique index keeps free of clashes, and consent, only ever added.
UpdateMember(m, c, granted) ==
    /\ c = code[m] \/ (CodesChange /\ \A n \in Member : code[n] # c)
    /\ code' = [code EXCEPT ![m] = c]
    /\ consent' = IF granted THEN consent \union {m} ELSE consent
    /\ everConsented' = everConsented \union consent'
    /\ UNCHANGED <<withdrawn, enrolled, tenantVars, faceVars, call>>

\* The tenant's collection appears and its key is stored.
Provision ==
    /\ ~apiKey
    /\ apiKey' = TRUE
    /\ UNCHANGED <<memberVars, storeImages, faceVars, call>>

-----------------------------------------------------------------------------
(* EnrolmentService.enrol                                                  *)

MayStart(r) == call[r].pc = "new" /\ (Serial => \A q \in Req : ~InFlight(q))

Goto(r, pc) == call' = [call EXCEPT ![r].pc = pc]

\* Mutant: the loop never moves on to the next capture.
NextImageStuck(r, ok) ==
    LET now == call[r] IN
    call' = [call EXCEPT ![r] =
        [@ EXCEPT !.pc = "addFace",
                  !.count = IF ok THEN now.count + 1 ELSE now.count]]

\* A capture the request is done with: counted as enrolled or as failed.
NextImage(r, ok) ==
    LET now == call[r] IN
    call' = [call EXCEPT ![r] =
        [@ EXCEPT !.pc = "addFace",
                  !.left = now.left - 1,
                  !.count = IF ok THEN now.count + 1 ELSE now.count]]

\* Mutant: the consent gate is gone.
EnrolStartUngated(r, m, n) ==
    /\ MayStart(r)
    /\ apiKey
    /\ call' = [call EXCEPT ![r] = [@ EXCEPT !.pc = "addFace", !.op = "enrol",
                                             !.member = m,
                                             !.subject = <<m, code[m]>>,
                                             !.left = n]]
    /\ UNCHANGED <<memberVars, tenantVars, faceVars>>

\* The member is read once: both the consent gate and the subject name, which
\* carries the member's present code, come from this read.
EnrolStart(r, m, n) ==
    /\ MayStart(r)
    /\ m \in consent
    /\ apiKey
    /\ call' = [call EXCEPT ![r] = [@ EXCEPT !.pc = "addFace", !.op = "enrol",
                                             !.member = m,
                                             !.subject = <<m, code[m]>>,
                                             !.left = n]]
    /\ UNCHANGED <<memberVars, tenantVars, faceVars>>

\* CONSENT_REQUIRED or FACE_ENGINE_NOT_PROVISIONED.
EnrolRefused(r, m) ==
    /\ MayStart(r)
    /\ m \notin consent \/ ~apiKey
    /\ call' = [call EXCEPT ![r] = [@ EXCEPT !.pc = "failed", !.op = "enrol",
                                             !.member = m]]
    /\ UNCHANGED <<memberVars, tenantVars, faceVars>>

Capture(r) == <<r, call[r].left>>
AtImage(r) == call[r].pc = "addFace" /\ call[r].left > 0

\* Mutant: the row is written for a capture the engine refused.
ImageRejectedKept(r) ==
    /\ AtImage(r)
    /\ Goto(r, "createRow")
    /\ UNCHANGED <<memberVars, tenantVars, faceVars>>

\* Too large, above the spoof threshold, no face found, or the engine is down.
ImageRejected(r) ==
    /\ AtImage(r)
    /\ NextImage(r, FALSE)
    /\ UNCHANGED <<memberVars, tenantVars, faceVars>>

AddToEngine(r) ==
    engine' = engine \union {[face |-> Capture(r), subject |-> call[r].subject]}

AddFace(r) ==
    /\ AtImage(r)
    /\ AddToEngine(r)
    /\ Goto(r, IF storeImages THEN "putImage" ELSE "createRow")
    /\ UNCHANGED <<memberVars, tenantVars, store, rows, lost>>

\* The engine took the face and answered too late: the catch block counts the
\* capture as failed, and no row will point at the face.
AddFaceLate(r) ==
    /\ "engine_late" \in Faults
    /\ AtImage(r)
    /\ AddToEngine(r)
    /\ NextImage(r, FALSE)
    /\ UNCHANGED <<memberVars, tenantVars, store, rows, lost>>

PutImage(r) ==
    /\ call[r].pc = "putImage"
    /\ store' = store \union {Capture(r)}
    /\ Goto(r, "createRow")
    /\ UNCHANGED <<memberVars, tenantVars, engine, rows, lost>>

\* The catch block again: the face added a moment ago stays in the engine.
PutImageFails(r) ==
    /\ "storage" \in Faults
    /\ call[r].pc = "putImage"
    /\ store' \in {store, store \union {Capture(r)}}
    /\ NextImage(r, FALSE)
    /\ UNCHANGED <<memberVars, tenantVars, engine, rows, lost>>

RowFor(r) == [face |-> Capture(r), member |-> call[r].member,
              subject |-> call[r].subject, image |-> storeImages]

CreateRow(r) ==
    /\ call[r].pc = "createRow"
    /\ rows' = rows \union {RowFor(r)}
    /\ NextImage(r, TRUE)
    /\ UNCHANGED <<memberVars, tenantVars, engine, store, lost>>

CreateRowFails(r) ==
    /\ "database" \in Faults
    /\ call[r].pc = "createRow"
    /\ rows' \in {rows, rows \union {RowFor(r)}}
    /\ NextImage(r, FALSE)
    /\ UNCHANGED <<memberVars, tenantVars, engine, store, lost>>

AtEnrolEnd(r) == call[r].pc = "addFace" /\ call[r].left = 0

EnrolDone(r) ==
    /\ AtEnrolEnd(r)
    /\ call[r].count > 0
    /\ enrolled' = enrolled \union {call[r].member}
    /\ Goto(r, "done")
    /\ UNCHANGED <<code, consent, withdrawn, everConsented, tenantVars, faceVars>>

\* ENROLMENT_FAILED
EnrolNone(r) ==
    /\ AtEnrolEnd(r)
    /\ call[r].count = 0
    /\ Goto(r, "failed")
    /\ UNCHANGED <<memberVars, tenantVars, faceVars>>

-----------------------------------------------------------------------------
(* FaceDataService.eraseMemberFaces, on its own and inside withdrawConsent *)

AfterErase(op) == IF op = "withdraw" THEN "clearConsent" ELSE "done"

\* Mutant: withdrawal only clears the consent columns.
EraseStartFlagOnly(r, m, op) ==
    /\ MayStart(r)
    /\ LET none == RowsOf(m) = {} \/ op = "withdraw" IN
       call' = [call EXCEPT ![r] =
           [@ EXCEPT !.pc = IF none THEN AfterErase(op) ELSE "engine",
                     !.op = op, !.member = m, !.templates = RowsOf(m),
                     !.cleared = none]]
    /\ UNCHANGED <<memberVars, tenantVars, faceVars>>

\* With no row the erasure returns at once, and reports the engine cleared.
EraseStart(r, m, op) ==
    /\ MayStart(r)
    /\ LET none == RowsOf(m) = {} IN
       call' = [call EXCEPT ![r] =
           [@ EXCEPT !.pc = IF none THEN AfterErase(op) ELSE "engine",
                     !.op = op, !.member = m, !.templates = RowsOf(m),
                     !.cleared = none]]
    /\ UNCHANGED <<memberVars, tenantVars, faceVars>>

WithoutSubject(s) == {e \in engine : e.subject # s}

DeleteSubject(s) ==
    /\ engine' = WithoutSubject(s)
    /\ lost' = lost \union {e.face : e \in engine \ engine'}

\* deleteSubject, with the subject of whichever row was found first.  Without
\* a key there is no collection, and every row has an image_id, so cleared is
\* reported FALSE.
EraseEngine(r) ==
    /\ call[r].pc = "engine"
    /\ \E t \in call[r].templates :
          IF apiKey THEN DeleteSubject(t.subject) ELSE UNCHANGED <<engine, lost>>
    /\ call' = [call EXCEPT ![r] = [@ EXCEPT !.pc = "images",
                                             !.cleared = apiKey]]
    /\ UNCHANGED <<memberVars, tenantVars, store, rows>>

\* Mutant: the engine's error is logged and the erasure carries on.
EraseEngineFailsLogged(r) ==
    /\ call[r].pc = "engine"
    /\ "engine_down" \in Faults
    /\ Goto(r, "images")
    /\ UNCHANGED <<memberVars, tenantVars, faceVars>>

\* COMPREFACE_ERROR or COMPREFACE_UNREACHABLE: the error leaves the request.
EraseEngineFails(r) ==
    /\ call[r].pc = "engine"
    /\ \/ "engine_down" \in Faults /\ UNCHANGED <<engine, lost>>
       \/ /\ "engine_late" \in Faults
          /\ \E t \in call[r].templates : DeleteSubject(t.subject)
    /\ Goto(r, "failed")
    /\ UNCHANGED <<memberVars, tenantVars, store, rows>>

\* Mutant: the images are left where they are.
EraseImageKept(r, t) ==
    /\ call[r].pc = "images"
    /\ t \in call[r].templates
    /\ call' = [call EXCEPT ![r].templates = @ \ {t}]
    /\ UNCHANGED <<memberVars, tenantVars, faceVars>>

\* Mutant: the loop over the images never advances.
EraseImageStuck(r, t) ==
    /\ call[r].pc = "images"
    /\ t \in call[r].templates
    /\ store' = IF t.image THEN store \ {t.face} ELSE store
    /\ UNCHANGED <<memberVars, tenantVars, engine, rows, call, lost>>

\* Images one by one; a failure is logged and the loop goes on.
EraseImage(r, t) ==
    /\ call[r].pc = "images"
    /\ t \in call[r].templates
    /\ \/ store' = IF t.image THEN store \ {t.face} ELSE store
       \/ "storage" \in Faults /\ t.image /\ UNCHANGED store
    /\ call' = [call EXCEPT ![r].templates = @ \ {t}]
    /\ UNCHANGED <<memberVars, tenantVars, engine, rows, lost>>

AtEraseRows(r) == call[r].pc = "images" /\ call[r].templates = {}

\* deleteMany by memberId: all the member's rows, not only those read before.
EraseRows(r) ==
    /\ AtEraseRows(r)
    /\ rows' = {t \in rows : t.member # call[r].member}
    /\ lost' = lost \ {t.face : t \in RowsOf(call[r].member)}
    /\ Goto(r, "flag")
    /\ UNCHANGED <<memberVars, tenantVars, engine, store>>

EraseFlag(r) ==
    /\ call[r].pc = "flag"
    /\ enrolled' = enrolled \ {call[r].member}
    /\ Goto(r, AfterErase(call[r].op))
    /\ UNCHANGED <<code, consent, withdrawn, everConsented, tenantVars, faceVars>>

WithdrawConsent(r) ==
    /\ call[r].pc = "clearConsent"
    /\ consent' = consent \ {call[r].member}
    /\ withdrawn' = withdrawn \union {call[r].member}
    /\ Goto(r, "done")
    /\ UNCHANGED <<code, enrolled, everConsented, tenantVars, faceVars>>

-----------------------------------------------------------------------------
(* Failures outside every try block                                        *)

\* A statement outside the loop's try block fails and the request with it.
StatementFails(r) ==
    /\ "database" \in Faults
    /\ \/ AtEnrolEnd(r) /\ call[r].count > 0
       \/ AtEraseRows(r)
       \/ call[r].pc \in {"flag", "clearConsent"}
    /\ Goto(r, "failed")
    /\ UNCHANGED <<memberVars, tenantVars, faceVars>>

\* The process dies: every request in it stops where it stands.
Crash ==
    /\ "crash" \in Faults
    /\ \E r \in Req : InFlight(r)
    /\ call' = [r \in Req |->
                  [call[r] EXCEPT !.pc = IF InFlight(r) THEN "failed" ELSE @]]
    /\ UNCHANGED <<memberVars, tenantVars, faceVars>>

-----------------------------------------------------------------------------
\* What a request does once it has started, by itself and without a fault.
Step(r) ==
    \/ ImageRejected(r)
    \/ AddFace(r)
    \/ PutImage(r)
    \/ CreateRow(r)
    \/ EnrolDone(r)
    \/ EnrolNone(r)
    \/ EraseEngine(r)
    \/ \E t \in call[r].templates : EraseImage(r, t)
    \/ EraseRows(r)
    \/ EraseFlag(r)
    \/ WithdrawConsent(r)

Start(r) ==
    \E m \in Member :
        \/ \E n \in MIN_IMAGES .. MaxImages : EnrolStart(r, m, n)
        \/ EnrolRefused(r, m)
        \/ \E op \in {"erase", "withdraw"} : EraseStart(r, m, op)

Fail(r) ==
    \/ AddFaceLate(r)
    \/ PutImageFails(r)
    \/ CreateRowFails(r)
    \/ EraseEngineFails(r)
    \/ StatementFails(r)

Edit ==
    \/ \E m \in Member : RecordConsent(m)
    \/ \E m \in Member, c \in Code, granted \in BOOLEAN :
          UpdateMember(m, c, granted)
    \/ Provision

Next ==
    \/ \E r \in Req : Start(r) \/ Step(r) \/ Fail(r)
    \/ Edit
    \/ Crash

\* Node resumes every awaited call sooner or later: the engine's are bounded
\* by REQUEST_TIMEOUT_MS, and a failure is a step of the request too.
Spec ==
    /\ Init
    /\ [][Next]_vars
    /\ \A r \in Req : WF_vars(Step(r))
-----------------------------------------------------------------------------
(* Properties.  TypeOK and the three invariants after it are meant for any *)
(* interleaving and any fault; those of the second group need the requests *)
(* to be serial, and the code of a member to stay put.                     *)

\* Every variable has its type.
TypeOK ==
    /\ code \in [Member -> Code]
    /\ consent \subseteq Member
    /\ withdrawn \subseteq Member
    /\ enrolled \subseteq Member
    /\ everConsented \subseteq Member
    /\ apiKey \in BOOLEAN
    /\ storeImages \in BOOLEAN
    /\ engine \subseteq EngineFace
    /\ store \subseteq Face
    /\ rows \subseteq Row
    /\ lost \subseteq Face
    /\ call \in [Req -> Call]

\* "Consent, before a single byte of biometric data is processed"
\* (enrolment.service.ts:53): a member who never consented has nothing in any
\* of the three places, whatever requests overlap, fail or die half way.
NeverConsentedNothingStored ==
    \A m \in Member : m \notin everConsented => Gone(m)

\* "CompreFace first, then storage" (face-data.service.ts:22-26): the image a
\* row points at goes only after the engine has forgotten that very face.
FaceGoneBeforeImage ==
    \A t \in rows :
        t.image /\ t.face \notin store => \A e \in engine : e.face # t.face

Erasing(op) == op \in {"erase", "withdraw"}

\* The face list shows no face the engine does not hold, but for those that an
\* erasure made the engine forget and whose rows are still to go: the erasure
\* that died on the way, and the capture it overtook
\* (face-data.service.ts:162-176).
RowBacked == \A t \in rows : t.face \in lost \/ \E e \in engine : e.face = t.face

\* Every request that starts comes to an end: no capture, image or failure
\* makes it loop (enrolment.service.ts:111-161, face-data.service.ts:75-86).
RequestsEnd == \A r \in Req : InFlight(r) ~> call[r].pc \in EndPC

\* "Deleted has to mean all three" (face-data.service.ts:15-20): when an
\* erasure reports success and a cleared engine, nothing of the member is left
\* in the engine, in the table or in storage.
EraseMeansAllThree ==
    [][\A r \in Req :
          /\ Erasing(call'[r].op)
          /\ call[r].pc # "done" /\ call'[r].pc = "done"
          /\ call'[r].cleared
          => Gone(call[r].member)']_vars

\* Withdrawal is not a flag (face-data.service.ts:106-108): once no request is
\* at work on a member without consent, none of its biometric data is kept.
ConsentCoversFaces ==
    \A m \in Member : m \notin consent /\ ~InFlightFor(m) => Gone(m)

\* The promise of BiometricRecord, with the engine's faces as the faces by
\* which a member can be recognised.
EngineFaces == [m \in Member |-> {e.face : e \in EngineOf(m)}]
Record == INSTANCE BiometricRecord WITH faces <- EngineFaces
RecordSpec == Record!Spec
=============================================================================
