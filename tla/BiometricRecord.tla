-------------------------- MODULE BiometricRecord --------------------------
(***************************************************************************)
(* What the face subsystem promises, with the three places a face lives    *)
(* collapsed into one: the set of faces by which a member can be           *)
(* recognised.  A face is added only under consent, and consent is         *)
(* withdrawn only when no face is left (PROJECT_DESCRIPTION.md section 12, *)
(* face-data.service.ts:15-27 and 103-109).                                *)
(***************************************************************************)
CONSTANTS Member,  \* the members of one tenant
          Face     \* the identifiers the face engine gives to captures

VARIABLES consent, \* the members whose consent is on record
          faces    \* member -> the faces the engine would match to it

vars == <<consent, faces>>

Init ==
    /\ consent \in SUBSET Member
    /\ faces = [m \in Member |-> {}]

\* Consent is put on record.
Grant(m) ==
    /\ consent' = consent \union {m}
    /\ UNCHANGED faces

\* One capture becomes recognisable.
Enrol(m, f) ==
    /\ m \in consent
    /\ faces' = [faces EXCEPT ![m] = @ \union {f}]
    /\ UNCHANGED consent

\* Everything recognisable about a member goes at once.
Erase(m) ==
    /\ faces' = [faces EXCEPT ![m] = {}]
    /\ UNCHANGED consent

\* Consent goes, and only when nothing depends on it any more.
Withdraw(m) ==
    /\ faces[m] = {}
    /\ consent' = consent \ {m}
    /\ UNCHANGED faces

Next ==
    \E m \in Member :
        \/ Grant(m)
        \/ \E f \in Face : Enrol(m, f)
        \/ Erase(m)
        \/ Withdraw(m)

Spec == Init /\ [][Next]_vars

\* No member is recognisable without consent on record.
Lawful == \A m \in Member : faces[m] # {} => m \in consent
============================================================================
