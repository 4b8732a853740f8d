------------------------------ MODULE Console ------------------------------
(***************************************************************************)
(* The screens of an organization's console and the API under them: the    *)
(* field manager with its form for a new field, the form for a new member  *)
(* with the archive button of the page that follows it, and the import     *)
(* wizard.                                                                 *)
(*                                                                         *)
(* A screen shows what the server rendered last, and every click is a      *)
(* request made from that.  Requests of several screens overlap; when the  *)
(* connection breaks the screen sees an error while the API goes on, and   *)
(* the user may click again.  What a field or a member holds is in         *)
(* MemberFields; here a field has a place and a required flag, and a       *)
(* request says which fields its values cover.                             *)
(***************************************************************************)
EXTENDS Naturals, Sequences, SequencesExt

CONSTANTS
    Fields,     \* how many fields there may be
    Initial,    \* with how many of them the organization starts
    Code,       \* members, by code
    Manager,    \* tabs at the field manager
    Enroller,   \* tabs at the form for a new member
    Importing,  \* tabs at the import wizard
    MaxClicks   \* bound on the requests that users make

ASSUME ConsoleAssumption ==
    /\ Fields \in Nat \ {0} /\ Initial \in 0 .. Fields
    /\ MaxClicks \in Nat
    /\ Code \cap (1 .. Fields) = {}

\* A tab is at one screen.
ASSUME TabAssumption ==
    /\ Manager \union Enroller \union Importing # {}
    /\ Importing \cap (Manager \union Enroller) = {}

VARIABLES
    db,      \* the organization's fields and members
    job,     \* request -> where the API is with it
    waits,   \* slot -> the request its buttons wait for, or 0
    screen,  \* tab -> what it shows
    clicks,  \* how many of MaxClicks have been made
    past     \* history: what was committed

vars == <<db, job, waits, screen, clicks, past>>

-----------------------------------------------------------------------------
Tab == Manager \union Enroller \union Importing

\* Every form has a `pending` of its own: the manager's table and its form for
\* a new field do not wait for one another.
Slot == (Manager \X {"table", "form"}) \union (Enroller \X {"member"})
            \union (Importing \X {"wizard"})
Id == 1 .. MaxClicks

\* A field's id; its key is as good.
Field == 1 .. Fields

\* order: sortOrder, in tens.
FieldRec == [state : {"none", "active", "archived"}, required : BOOLEAN,
             order : Nat]
Db == [fields : [Field -> FieldRec],
       members : [Code -> {"none", "active", "archived"}]]

\* ids: the fields a request names, flag: what it sets, or dryRun; codes: the
\* members it names; covers: the fields it has values for.
Lists == UNION {[1 .. n -> Field] : n \in 0 .. Fields}
Op == [kind : {"none", "required", "archive", "add", "reorder", "save",
               "archiveMember", "import"},
       ids : Lists, flag : BOOLEAN, codes : SUBSET Code, covers : SUBSET Field]
NoOp == [kind |-> "none", ids |-> <<>>, flag |-> FALSE, codes |-> {}, covers |-> {}]

\* done: rows that a reordering has updated; last: the sortOrder that was last.
JobRec == [pc : {"none", "sent", "looked", "rows", "answer", "over"},
           slot : Slot, op : Op, done : 0 .. Fields, last : Nat,
           result : {"none", "ok", "clean", "problems", "failed"}]
NoJob == [pc |-> "none", slot |-> CHOOSE s \in Slot : TRUE, op |-> NoOp,
          done |-> 0, last |-> 0, result |-> "none"]

\* page, codes: what it shows, about which members; to: the page it goes to, or
\* the same; stale: on the way, or a refresh is under way.
Page == {"start", "member", "members"}
ScreenRec == [seen : Db, stale : BOOLEAN, page : Page, codes : SUBSET Code,
              to : [page : Page, codes : SUBSET Code],
              report : {"none", "clean", "problems"}]

\* made: the slots whose requests created a field or a member; order: the list
\* of the last reordering; op: the last change of any kind.
Past == [made : [Field \union Code -> Seq(Slot)], order : Op, op : Op]

Db0 == [fields |-> [f \in Field |->
            [state |-> IF f <= Initial THEN "active" ELSE "none",
             required |-> FALSE, order |-> IF f <= Initial THEN f ELSE 0]],
        members |-> [c \in Code |-> "none"]]

Init ==
    /\ db = Db0
    /\ job = [i \in Id |-> NoJob]
    /\ waits = [s \in Slot |-> 0]
    /\ screen = [t \in Tab |-> [seen |-> Db0, stale |-> FALSE, page |-> "start",
                                codes |-> {}, to |-> [page |-> "start", codes |-> {}],
                                report |-> "none"]]
    /\ clicks = 0
    /\ past = [made |-> [x \in Field \union Code |-> <<>>],
               order |-> NoOp, op |-> NoOp]

Active(fields) == {f \in Field : fields[f].state = "active"}
Required(fields) == {f \in Active(fields) : fields[f].required}

-----------------------------------------------------------------------------
(* The screens                                                             *)

Send(s, op) ==
    /\ waits[s] = 0 /\ clicks < MaxClicks
    /\ clicks' = clicks + 1
    /\ waits' = [waits EXCEPT ![s] = clicks + 1]
    /\ job' = [job EXCEPT ![clicks + 1] =
                  [NoJob EXCEPT !.pc = "sent", !.slot = s, !.op = op]]
    /\ UNCHANGED <<db, screen, past>>

Shown(t) == screen[t].seen.fields

\* The buttons of a row: the opposite of what it shows.
ToggleRequired(t, f) ==
    /\ Shown(t)[f].state = "active"
    /\ Send(<<t, "table">>, [NoOp EXCEPT !.kind = "required", !.ids = <<f>>,
                                         !.flag = ~Shown(t)[f].required])

ArchiveOrRestore(t, f) ==
    /\ Shown(t)[f].state # "none"
    /\ Send(<<t, "table">>, [NoOp EXCEPT !.kind = "archive", !.ids = <<f>>,
                                         !.flag = Shown(t)[f].state = "active"])

\* The list has the active fields in the order in which they are shown; ties
\* go by label.
InOrder(list, fields) ==
    LET Before(f, g) == fields[f].order < fields[g].order
                            \/ (fields[f].order = fields[g].order /\ f < g)
    IN  /\ ToSet(list) = Active(fields)
        /\ \A i, j \in DOMAIN list : i < j => Before(list[i], list[j])

move(t, list, i) ==
    /\ InOrder(list, Shown(t)) /\ i + 1 \in DOMAIN list
    /\ Send(<<t, "table">>,
            [NoOp EXCEPT !.kind = "reorder",
                !.ids = [list EXCEPT ![i] = list[i + 1], ![i + 1] = list[i]]])

\* With the box for a required field ticked: an optional one is in nobody's way.
AddField(t, f) ==
    Send(<<t, "form">>, [NoOp EXCEPT !.kind = "add", !.ids = <<f>>,
                                     !.flag = TRUE])

\* Users fill in what the form they see requires.  After a success the form
\* stays disabled until it is left.
SaveMember(t, c) ==
    /\ screen[t].page = "start" /\ ~screen[t].stale
    /\ Send(<<t, "member">>, [NoOp EXCEPT !.kind = "save", !.codes = {c},
                                          !.covers = Required(Shown(t))])

ArchiveMember(t) ==
    /\ screen[t].page = "member"
    /\ Send(<<t, "member">>,
            [NoOp EXCEPT !.kind = "archiveMember", !.codes = screen[t].codes,
                !.flag = \A c \in screen[t].codes :
                            screen[t].seen.members[c] = "active"])

\* A file may be chosen at any time, also while a request is under way; one
\* without rows leaves those of the file before.
onFile(t, codes) ==
    /\ screen[t].page = "start"
    /\ screen' = [screen EXCEPT ![t].codes = IF codes = {} THEN @ ELSE codes,
                                ![t].report = "none"]
    /\ UNCHANGED <<db, job, waits, clicks, past>>

\* The button that imports is there once a report without problems is.
run(t, dryRun) ==
    /\ screen[t].page = "start" /\ screen[t].codes # {}
    /\ dryRun \/ screen[t].report = "clean"
    /\ Send(<<t, "wizard">>,
            [NoOp EXCEPT !.kind = "import", !.codes = screen[t].codes,
                         !.flag = dryRun, !.covers = Required(Shown(t))])

Leave(rec, page, codes) ==
    [rec EXCEPT !.to = [page |-> page, codes |-> codes], !.stale = TRUE]

\* Mutant: the wizard shows whatever comes back as a report.
AfterReport(rec, op, result) ==
    CASE result = "failed" -> rec
      [] op.kind = "import" /\ result # "failed" -> [rec EXCEPT !.report = result]
      [] op.kind = "save" /\ result = "ok" -> Leave(rec, "member", op.codes)
      [] OTHER -> [rec EXCEPT !.stale = TRUE]

\* The screen after an answer; only a success navigates or refreshes.  Until
\* the wizard is left it shows the report of the import, without problems.
After(rec, op, result) ==
    CASE result = "failed" -> rec
      [] op.kind = "import" /\ result \in {"clean", "problems"} ->
             [rec EXCEPT !.report = result]
      [] op.kind = "import" /\ result = "ok" ->
             Leave([rec EXCEPT !.report = "clean"], "members", op.codes)
      [] op.kind = "save" /\ result = "ok" -> Leave(rec, "member", op.codes)
      [] OTHER -> [rec EXCEPT !.stale = TRUE]

\* Mutant: pending is cleared after a success only.
AnsweredWell(i) ==
    LET s == job[i].slot IN
    /\ job[i].pc = "answer" /\ waits[s] = i
    /\ job' = [job EXCEPT ![i] = [NoJob EXCEPT !.pc = "over"]]
    /\ waits' = IF job[i].result = "failed" THEN waits
                ELSE [waits EXCEPT ![s] = 0]
    /\ screen' = [screen EXCEPT ![s[1]] =
                     After(@, job[i].op, job[i].result)]
    /\ UNCHANGED <<db, clicks, past>>

Answered(i) ==
    LET s == job[i].slot IN
    /\ job[i].pc = "answer" /\ waits[s] = i
    /\ job' = [job EXCEPT ![i] = [NoJob EXCEPT !.pc = "over"]]
    /\ waits' = [waits EXCEPT ![s] = 0]
    /\ screen' = [screen EXCEPT ![s[1]] =
                     After(@, job[i].op, job[i].result)]
    /\ UNCHANGED <<db, clicks, past>>

\* The connection breaks: an error is shown, and the buttons work again.  The
\* request may have been served, be served now, later or never.
Break(s) ==
    /\ waits[s] # 0
    /\ waits' = [waits EXCEPT ![s] = 0]
    /\ job' = [job EXCEPT ![waits[s]] =
                  IF @.pc = "answer" THEN [NoJob EXCEPT !.pc = "over"] ELSE @]
    /\ UNCHANGED <<db, screen, clicks, past>>

Refreshed(t) ==
    LET rec == screen[t] IN
    /\ rec.stale
    /\ screen' = [screen EXCEPT ![t] =
                     [rec EXCEPT !.stale = FALSE, !.seen = db, !.page = rec.to.page,
                                 !.codes = IF rec.to.page = rec.page THEN rec.codes
                                           ELSE rec.to.codes]]
    /\ UNCHANGED <<db, job, waits, clicks, past>>

-----------------------------------------------------------------------------
(* The API                                                                 *)

\* Nobody may wait for the answer any more.
Result(i, result) ==
    job' = [job EXCEPT ![i] =
               IF waits[@.slot] = i THEN [@ EXCEPT !.pc = "answer", !.result = result]
               ELSE [NoJob EXCEPT !.pc = "over"]]

\* The request ends without a change, or with one.
Ends(i, result) ==
    /\ Result(i, result)
    /\ UNCHANGED <<db, waits, screen, clicks, past>>

Commits(i, fields, members) ==
    LET op == job[i].op
        new(x) == \/ op.kind = "add" /\ x = op.ids[1]
                  \/ op.kind \in {"save", "import"} /\ x \in op.codes
    IN
    /\ db' = [fields |-> fields, members |-> members]
    /\ Result(i, "ok")
    /\ past' = [made |-> [x \in Field \union Code |->
                            IF new(x) THEN Append(past.made[x], job[i].slot)
                            ELSE past.made[x]],
                order |-> IF op.kind = "reorder" THEN op ELSE past.order,
                op |-> op]
    /\ UNCHANGED <<waits, screen, clicks>>

\* Rows that the transaction of a reordering has updated and not committed.
Locked(i) == IF job[i].pc = "rows" THEN ToSet(SubSeq(job[i].op.ids, 1, job[i].done))
             ELSE {}
Free(i, f) == \A j \in Id \ {i} : f \notin Locked(j)

\* Mutant: PATCH turns the flag over.
UpdateFlips(i) ==
    LET op == job[i].op  f == op.ids[1] IN
    /\ job[i].pc = "sent" /\ op.kind = "required" /\ Free(i, f)
    /\ Commits(i, [db.fields EXCEPT ![f].required = ~@], db.members)

Update(i) ==
    LET op == job[i].op  f == op.ids[1] IN
    /\ job[i].pc = "sent" /\ op.kind = "required" /\ Free(i, f)
    /\ Commits(i, [db.fields EXCEPT ![f].required = op.flag], db.members)

Archive(i) ==
    LET op == job[i].op  f == op.ids[1] IN
    /\ job[i].pc = "sent" /\ op.kind = "archive" /\ Free(i, f)
    /\ Commits(i, [db.fields EXCEPT
                     ![f].state = IF op.flag THEN "archived" ELSE "active",
                     ![f].required = IF op.flag THEN FALSE ELSE @],
               db.members)

ArchiveOfMember(i) ==
    LET op == job[i].op IN
    /\ job[i].pc = "sent" /\ op.kind = "archiveMember"
    /\ Commits(i, db.fields,
               [c \in Code |-> IF c \in op.codes
                               THEN IF op.flag THEN "archived" ELSE "active"
                               ELSE db.members[c]])

ReorderBegins(i) ==
    /\ job[i].pc = "sent" /\ job[i].op.kind = "reorder"
    /\ job' = [job EXCEPT ![i].pc = "rows"]
    /\ UNCHANGED <<db, waits, screen, clicks, past>>

NextRow(i) == job[i].op.ids[job[i].done + 1]

\* Mutant: the rows are updated without a transaction.
ReorderRowAlone(i) ==
    LET f == NextRow(i)  d == job[i].done IN
    /\ job[i].pc = "rows" /\ d < Len(job[i].op.ids)
    /\ db' = [db EXCEPT !.fields[f].order = d + 1]
    /\ job' = [job EXCEPT ![i].done = d + 1]
    /\ UNCHANGED <<waits, screen, clicks, past>>

ReorderRow(i) ==
    /\ job[i].pc = "rows" /\ job[i].done < Len(job[i].op.ids)
    /\ Free(i, NextRow(i))
    /\ job' = [job EXCEPT ![i].done = @ + 1]
    /\ UNCHANGED <<db, waits, screen, clicks, past>>

ReorderCommits(i) ==
    LET ids == job[i].op.ids IN
    /\ job[i].pc = "rows" /\ job[i].done = Len(ids)
    /\ Commits(i, [f \in Field |->
                      IF f \in ToSet(ids)
                      THEN [db.fields[f] EXCEPT !.order =
                               CHOOSE n \in DOMAIN ids : ids[n] = f]
                      ELSE db.fields[f]],
               db.members)

\* A deadlock of two lists that cross, or the transaction's time is over.
ReorderFails(i) == job[i].pc = "rows" /\ Ends(i, "failed")

Exists(op) ==
    \/ op.kind = "add" /\ db.fields[op.ids[1]].state # "none"
    \/ \E c \in op.codes : db.members[c] # "none"

\* The schema and the look-up of what there is, before anything is written.
Look(i) ==
    LET op == job[i].op
        bad == Exists(op) \/ (op.kind # "add" /\ ~(Required(db.fields) \subseteq op.covers))
    IN
    /\ job[i].pc = "sent" /\ op.kind \in {"add", "save", "import"}
    /\ IF bad THEN Ends(i, IF op.kind = "import" THEN "problems" ELSE "failed")
       ELSE IF op.kind = "import" /\ op.flag THEN Ends(i, "clean")
       ELSE /\ \E f \in Field :
                 /\ \A g \in Field : db.fields[g].order <= db.fields[f].order
                 /\ job' = [job EXCEPT ![i].pc = "looked",
                                      ![i].last = db.fields[f].order]
            /\ UNCHANGED <<db, waits, screen, clicks, past>>

\* Mutant: no unique index is behind the look-up.
InsertWithoutIndex(i) ==
    LET op == job[i].op IN
    /\ job[i].pc = "looked"
    /\ Commits(i, [f \in Field |->
                     IF op.kind = "add" /\ f = op.ids[1]
                     THEN [state |-> "active", required |-> op.flag,
                           order |-> job[i].last + 1]
                     ELSE db.fields[f]],
               [c \in Code |-> IF c \in op.codes THEN "active" ELSE db.members[c]])

\* The unique indexes have the last word.
Insert(i) ==
    LET op == job[i].op IN
    /\ job[i].pc = "looked"
    /\ IF Exists(op) THEN Ends(i, "failed")
       ELSE /\ Commits(i, [f \in Field |->
                             IF op.kind = "add" /\ f = op.ids[1]
                             THEN [state |-> "active", required |-> op.flag,
                                   order |-> job[i].last + 1]
                             ELSE db.fields[f]],
                       [c \in Code |-> IF c \in op.codes THEN "active"
                                       ELSE db.members[c]])

-----------------------------------------------------------------------------
Click ==
    \/ \E t \in Manager, f \in Field :
          ToggleRequired(t, f) \/ ArchiveOrRestore(t, f) \/ AddField(t, f)
             \/ \E list \in Lists : move(t, list, f)
    \/ \E t \in Enroller : ArchiveMember(t) \/ \E c \in Code : SaveMember(t, c)
    \/ \E t \in Importing :
          \/ \E codes \in SUBSET Code : onFile(t, codes)
          \/ \E dryRun \in BOOLEAN : run(t, dryRun)

Serve(i) ==
    \/ Update(i) \/ Archive(i) \/ ArchiveOfMember(i) \/ Look(i) \/ Insert(i)
    \/ ReorderBegins(i) \/ ReorderRow(i) \/ ReorderCommits(i)

Next ==
    \/ Click
    \/ \E i \in Id : Serve(i) \/ ReorderFails(i) \/ Answered(i)
    \/ \E s \in Slot : Break(s)
    \/ \E t \in Tab : Refreshed(t)

\* The API serves what reached it, PostgreSQL or the time limit ends what is
\* blocked, and an answer arrives.
Blocked(i) ==
    /\ job[i].done < Len(job[i].op.ids) /\ ~Free(i, NextRow(i))
    /\ ReorderFails(i)
Goes(i) ==
    /\ job[i].pc \notin {"none", "over"}
    /\ Serve(i) \/ Answered(i) \/ Blocked(i)

Spec == Init /\ [][Next]_vars /\ \A i \in Id : WF_vars(Goes(i))

-----------------------------------------------------------------------------
(* Properties                                                              *)

\* The types of the variables.
TypeOK ==
    /\ db \in Db
    /\ job \in [Id -> JobRec]
    /\ waits \in [Slot -> 0 .. MaxClicks]
    /\ screen \in [Tab -> ScreenRec]
    /\ clicks \in 0 .. MaxClicks
    /\ past \in Past

\* "One transaction: a partial reorder would leave the form in an order nobody
\* chose" (field-definitions.service.ts:168): two managers may move fields of
\* different lists at once, and others add, archive and restore; the fields of
\* the list that was committed last are always in the order of that list.
ReorderIsWhole ==
    LET ids == past.order.ids IN
    \A i, j \in DOMAIN ids :
        i < j => db.fields[ids[i]].order < db.fields[ids[j]].order

\* A click is followed by an error when only its answer was lost, and the user
\* clicks the same again: the buttons send what the screen does not show, not
\* "the other way round" (field-manager.tsx:28).  Whatever was served twice,
\* with nothing in between, has changed nothing the second time.
RetryIsHarmless == [][past'.op = past.op => db' = db]_<<db, past>>

\* Look-ups are only a courtesy: two forms, a form and a file, or a retry beside
\* the request it repeats pass them together.  Every field and every member was
\* created by one request, and a wizard that has left for the list has created
\* the rows it sent.
CreatedOnce ==
    /\ \A x \in Field \union Code : Len(past.made[x]) <= 1
    /\ \A t \in Importing : screen[t].page = "members" =>
          \A c \in screen[t].codes : past.made[c] = <<<<t, "wizard">>>>

\* No button stays disabled: "finally { setPending(null) }", whatever becomes of
\* the request, two reorderings that wait for one another included.
ButtonsComeBack == \A s \in Slot : waits[s] # 0 ~> waits[s] = 0

=============================================================================
