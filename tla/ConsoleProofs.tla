---------------------------- MODULE ConsoleProofs ----------------------------
(***************************************************************************)
(* Theorems about Console, for every number of fields, members, tabs and   *)
(* clicks: reorderings are whole, nothing is created twice, and what is    *)
(* sent again is harmless, however stale the screens, and whichever        *)
(* answers are lost.                                                       *)
(***************************************************************************)
EXTENDS Console, TLAPS

-----------------------------------------------------------------------------
(* Types.                                                                  *)

LEMMA SlotFacts ==
    /\ Slot # {}
    /\ \A s \in Slot : s[1] \in Tab
    /\ \A s \in Slot : s[1] \in Importing => s = <<s[1], "wizard">>
    /\ \A t \in Manager : <<t, "table">> \in Slot /\ <<t, "form">> \in Slot
    /\ \A t \in Enroller : <<t, "member">> \in Slot
    /\ \A t \in Importing : <<t, "wizard">> \in Slot
  <1>1. ASSUME NEW s \in Slot
        PROVE  \E t \in Tab, k \in {"table", "form", "member", "wizard"} :
                  /\ s = <<t, k>>
                  /\ k = "wizard" \/ t \in Manager \union Enroller
    BY DEF Slot, Tab
  <1>2. \A s \in Slot : s[1] \in Tab
    BY <1>1
  <1>3. \A s \in Slot : s[1] \in Importing => s = <<s[1], "wizard">>
    BY <1>1, TabAssumption
  <1>4. /\ \A t \in Manager : <<t, "table">> \in Slot /\ <<t, "form">> \in Slot
        /\ \A t \in Enroller : <<t, "member">> \in Slot
        /\ \A t \in Importing : <<t, "wizard">> \in Slot
    BY DEF Slot
  <1>5. Slot # {}
    BY <1>4, TabAssumption
  <1>6. QED
    BY <1>2, <1>3, <1>4, <1>5

LEMMA ListLen ==
    ASSUME NEW list \in Lists
    PROVE  \E n \in 0 .. Fields : /\ list \in [1 .. n -> Field] /\ DOMAIN list = 1 .. n
                                  /\ Len(list) = n /\ n \in Nat
  <1>1. PICK n \in 0 .. Fields : list \in [1 .. n -> Field]
    BY DEF Lists
  <1>2. n \in Nat /\ list \in Seq(Field)
    BY <1>1, ConsoleAssumption
  <1>3. QED
    BY <1>1, <1>2

LEMMA ShortLists == <<>> \in Lists /\ \A f \in Field : <<f>> \in Lists
  <1>1. 0 \in 0 .. Fields /\ 1 \in 0 .. Fields
    BY ConsoleAssumption
  <1>2. <<>> \in [1 .. 0 -> Field]
    OBVIOUS
  <1>3. \A f \in Field : <<f>> \in [1 .. 1 -> Field]
    OBVIOUS
  <1>4. QED
    BY <1>1, <1>2, <1>3 DEF Lists

LEMMA NoOpType == /\ NoOp \in Op /\ NoOp.kind = "none" /\ NoOp.ids = <<>>
                  /\ NoOp.codes = {}
  BY ShortLists DEF NoOp, Op

LEMMA NoJobType ==
    /\ NoJob \in JobRec /\ NoJob.pc = "none" /\ NoJob.op = NoOp /\ NoJob.result = "none"
  <1>1. (CHOOSE s \in Slot : TRUE) \in Slot
    BY SlotFacts
  <1>2. 0 \in 0 .. Fields
    BY ConsoleAssumption
  <1>3. QED
    BY <1>1, <1>2, NoOpType DEF NoJob, JobRec

\* A request that nobody waits for, once it has been served.
Over == [NoJob EXCEPT !.pc = "over"]

LEMMA OverType == Over \in JobRec /\ Over.pc = "over" /\ Over.op = NoOp
  BY NoJobType DEF Over, JobRec

LEMMA TypeInit == Init => TypeOK
  <1> SUFFICES ASSUME Init PROVE TypeOK
    OBVIOUS
  <1>1. Db0 \in Db
    <2>1. \A f \in Field : (IF f <= Initial THEN f ELSE 0) \in Nat
      BY DEF Field
    <2>2. QED
      BY <2>1 DEF Db0, Db, FieldRec
  <1>2. \A t \in Tab : screen[t] \in ScreenRec
    BY <1>1 DEF Init, ScreenRec, Page
  <1>3. past \in Past
    BY NoOpType DEF Init, Past
  <1>4. 0 \in 0 .. MaxClicks
    BY ConsoleAssumption
  <1>5. screen \in [Tab -> ScreenRec] /\ job \in [Id -> JobRec]
    BY <1>2, NoJobType DEF Init
  <1>6. QED
    BY <1>1, <1>3, <1>4, <1>5 DEF Init, TypeOK

-----------------------------------------------------------------------------
(* A click sends a request.                                                *)

LEMMA SendFacts ==
    ASSUME TypeOK, NEW s \in Slot, NEW op \in Op, Send(s, op)
    PROVE  /\ TypeOK' /\ UNCHANGED <<db, screen, past>>
           /\ \E i \in Id : /\ \A j \in Id \ {i} : job'[j] = job[j]
                            /\ job'[i].pc = "sent" /\ job'[i].slot = s
                            /\ job'[i].op = op
  <1> DEFINE i == clicks + 1
             new == [NoJob EXCEPT !.pc = "sent", !.slot = s, !.op = op]
  <1>1. i \in Id /\ i \in 0 .. MaxClicks
    BY ConsoleAssumption DEF Send, TypeOK, Id
  <1>2. new \in JobRec /\ new.pc = "sent" /\ new.slot = s /\ new.op = op
    BY NoJobType DEF JobRec
  <1>3. /\ job' = [job EXCEPT ![i] = new] /\ clicks' = i
        /\ waits' = [waits EXCEPT ![s] = i] /\ UNCHANGED <<db, screen, past>>
    BY DEF Send
  <1> HIDE DEF i, new
  <1>4. job' \in [Id -> JobRec] /\ job'[i] = new /\ \A j \in Id \ {i} : job'[j] = job[j]
    BY <1>1, <1>2, <1>3 DEF TypeOK
  <1>5. QED
    BY <1>1, <1>2, <1>3, <1>4 DEF TypeOK

\* What a field manager shows and sends.
LEMMA OneField ==
    ASSUME NEW kind \in {"required", "archive", "add"}, NEW f \in Field,
           NEW flag \in BOOLEAN
    PROVE  LET op == [NoOp EXCEPT !.kind = kind, !.ids = <<f>>, !.flag = flag] IN
           op \in Op /\ op.kind = kind /\ op.codes = {}
  BY ShortLists, NoOpType DEF Op, NoOp

LEMMA SwapType ==
    ASSUME NEW list \in Lists, NEW i \in Field, i + 1 \in DOMAIN list,
           NEW swap, swap = [list EXCEPT ![i] = list[i + 1], ![i + 1] = list[i]]
    PROVE  /\ swap \in Lists /\ DOMAIN swap = DOMAIN list
           /\ \A n \in DOMAIN swap : swap[n] = IF n = i THEN list[i + 1]
                                               ELSE IF n = i + 1 THEN list[i]
                                               ELSE list[n]
  <1>1. PICK n \in 0 .. Fields : list \in [1 .. n -> Field] /\ n \in Nat
    BY ListLen
  <1>2. i \in 1 .. n /\ i + 1 \in 1 .. n
    BY <1>1 DEF Field
  <1>3. swap \in [1 .. n -> Field]
    BY <1>1, <1>2
  <1>4. QED
    BY <1>1, <1>2, <1>3 DEF Lists

\* The active fields in an order, as a table's row was moved.
LEMMA MoveOp ==
    ASSUME NEW list \in Lists, NEW i \in Field, i + 1 \in DOMAIN list,
           NEW fields \in [Field -> FieldRec], InOrder(list, fields)
    PROVE  LET op == [NoOp EXCEPT !.kind = "reorder",
                !.ids = [list EXCEPT ![i] = list[i + 1], ![i + 1] = list[i]]]
           IN
           /\ op \in Op /\ op.kind = "reorder" /\ op.codes = {}
           /\ \A n \in DOMAIN op.ids : fields[op.ids[n]].state = "active"
           /\ \A n, p \in DOMAIN op.ids : op.ids[n] = op.ids[p] => n = p
  <1> DEFINE swap == [list EXCEPT ![i] = list[i + 1], ![i + 1] = list[i]]
             op == [NoOp EXCEPT !.kind = "reorder", !.ids = swap]
  <1>1. PICK n \in 0 .. Fields : list \in [1 .. n -> Field] /\ DOMAIN list = 1 .. n
    BY ListLen
  <1>2. \A p, q \in DOMAIN list : p < q => list[p] # list[q]
    <2>1. ASSUME NEW p \in DOMAIN list
          PROVE  list[p] \in Nat /\ fields[list[p]].order \in Nat
      <3>1. list[p] \in Field
        BY <1>1
      <3>2. QED
        BY <3>1 DEF Field, FieldRec
    <2>2. ASSUME NEW p \in DOMAIN list, NEW q \in DOMAIN list, p < q, list[p] = list[q]
          PROVE  FALSE
      <3>1. \/ fields[list[p]].order < fields[list[q]].order
            \/ fields[list[p]].order = fields[list[q]].order /\ list[p] < list[q]
        BY <2>2 DEF InOrder
      <3>2. QED
        BY <2>1, <2>2, <3>1
    <2>3. QED
      BY <2>2
  <1>3. \A p, q \in DOMAIN list : list[p] = list[q] => p = q
    BY <1>1, <1>2
  <1>4. \A p \in DOMAIN list : fields[list[p]].state = "active"
    <2>1. \A p \in DOMAIN list : list[p] \in Active(fields)
      BY DEF InOrder, ToSet
    <2>2. QED
      BY <2>1 DEF Active
  <1>5. /\ swap \in Lists /\ DOMAIN swap = DOMAIN list
        /\ \A p \in DOMAIN swap : swap[p] = IF p = i THEN list[i + 1]
                                            ELSE IF p = i + 1 THEN list[i]
                                            ELSE list[p]
    BY SwapType
  <1>6. i \in DOMAIN list
    BY <1>1 DEF Field
  <1> HIDE DEF swap
  <1>7. op \in Op /\ op.kind = "reorder" /\ op.codes = {} /\ op.ids = swap
    BY <1>5, NoOpType DEF Op
  <1> HIDE DEF op
  <1>8. \A p \in DOMAIN swap : fields[swap[p]].state = "active"
    BY <1>4, <1>5, <1>6
  <1>9. \A p, q \in DOMAIN swap : swap[p] = swap[q] => p = q
    BY <1>3, <1>5, <1>6
  <1>10. QED
    BY <1>7, <1>8, <1>9 DEF op, swap

-----------------------------------------------------------------------------
(* The invariant.                                                          *)

\* What a request of a slot asks for: a tab at the wizard imports, and nobody
\* else does; a list has fields that exist, each of them once.
GoodOp(op, s) ==
    /\ op.kind # "none" /\ (op.kind = "import" <=> s[1] \in Importing)
    /\ op.kind \in {"required", "archive", "add"} =>
          op.ids[1] \in Field /\ op.codes = {}
    /\ op.kind \in {"save", "import"} => op.codes # {}
    /\ op.kind = "reorder" =>
          /\ \A n \in DOMAIN op.ids : db.fields[op.ids[n]].state # "none"
          /\ \A n, p \in DOMAIN op.ids : op.ids[n] = op.ids[p] => n = p

Made(codes, s) == \A c \in codes : past.made[c] = <<s>>

JobOK(j) ==
    /\ j.pc \in {"sent", "looked", "rows", "answer"} => GoodOp(j.op, j.slot)
    /\ j.pc = "looked" => j.op.kind \in {"add", "save", "import"}
    /\ j.pc = "rows" => j.op.kind = "reorder"
    /\ j.pc = "answer" /\ j.op.kind = "import" /\ j.result = "ok" =>
          Made(j.op.codes, j.slot)

\* No screen shows a field that was never there.
Exist(fields) ==
    \A f \in Field : fields[f].state # "none" => db.fields[f].state # "none"

ScreenOK(rec, t) ==
    /\ Exist(rec.seen.fields)
    /\ t \in Importing =>
          /\ rec.page = "members" => Made(rec.codes, <<t, "wizard">>)
          /\ rec.to.page = "members" =>
                Made(rec.to.codes, <<t, "wizard">>)

\* What was created once is there, archived or not.
MadeOK ==
    /\ \A x \in Field \union Code : Len(past.made[x]) <= 1
    /\ \A f \in Field : past.made[f] # <<>> => db.fields[f].state # "none"
    /\ \A c \in Code : past.made[c] # <<>> => db.members[c] # "none"

OrderOK ==
    LET ids == past.order.ids IN
    /\ \A n \in DOMAIN ids : db.fields[ids[n]].state # "none"
    /\ \A n, p \in DOMAIN ids :
          n < p => db.fields[ids[n]].order < db.fields[ids[p]].order

\* The last change is still there to be seen.
Effect(op) ==
    LET f == op.ids[1] IN
    /\ op.kind = "required" => db.fields[f].required = op.flag
    /\ op.kind = "archive" =>
          /\ db.fields[f].state = IF op.flag THEN "archived" ELSE "active"
          /\ op.flag => ~db.fields[f].required
    /\ op.kind = "archiveMember" =>
          \A c \in op.codes :
             db.members[c] = IF op.flag THEN "archived" ELSE "active"
    /\ op.kind = "reorder" =>
          \A n \in DOMAIN op.ids : db.fields[op.ids[n]].order = n
    /\ op.kind \in {"add", "save", "import"} => Exists(op)

Inv ==
    /\ \A i \in Id : JobOK(job[i])
    /\ \A t \in Tab : ScreenOK(screen[t], t)
    /\ MadeOK /\ OrderOK /\ Effect(past.op)

LEMMA InvInit == Init => Inv
  <1> SUFFICES ASSUME Init PROVE Inv
    OBVIOUS
  <1>1. \A i \in Id : JobOK(job[i])
    BY NoJobType DEF Init, JobOK
  <1>2. \A t \in Tab : ScreenOK(screen[t], t)
    BY DEF Init, ScreenOK, Exist
  <1>3. MadeOK
    BY DEF Init, MadeOK
  <1>4. past.order = NoOp /\ past.op = NoOp
    BY DEF Init
  <1>5. QED
    BY <1>1, <1>2, <1>3, <1>4, NoOpType DEF Inv, OrderOK, Effect

-----------------------------------------------------------------------------
(* Steps that commit nothing.                                              *)

LEMMA QuietKeeps ==
    ASSUME Inv, UNCHANGED <<db, past>>,
           \A i \in Id : \E j : job'[i] = j /\ JobOK(j),
           \A t \in Tab : \E rec : screen'[t] = rec /\ ScreenOK(rec, t)
    PROVE  Inv'
  <1>1. \A i \in Id : JobOK(job[i])'
    BY DEF JobOK, GoodOp, Made
  <1>2. \A t \in Tab : ScreenOK(screen[t], t)'
    BY DEF ScreenOK, Exist, Made
  <1>3. MadeOK' /\ OrderOK' /\ Effect(past.op)'
    BY DEF Inv, MadeOK, OrderOK, Effect, Exists
  <1>4. QED
    BY <1>1, <1>2, <1>3 DEF Inv

\* One request moves, and no screen.
LEMMA QuietJob ==
    ASSUME TypeOK, Inv, UNCHANGED <<db, past, screen, waits, clicks>>, NEW i \in Id,
           NEW new \in JobRec, JobOK(new), job' = [job EXCEPT ![i] = new]
    PROVE  TypeOK' /\ Inv'
  <1>1. job' \in [Id -> JobRec] /\ job'[i] = new /\ \A j \in Id \ {i} : job'[j] = job[j]
    BY DEF TypeOK
  <1>2. TypeOK'
    BY <1>1 DEF TypeOK
  <1>3. QED
    BY <1>1, <1>2, QuietKeeps DEF Inv

LEMMA OverOK == JobOK(Over)
  BY OverType DEF JobOK

\* A request is answered, or over if nobody waits for it.
LEMMA ResultFacts ==
    ASSUME TypeOK, NEW i \in Id,
           NEW result \in {"ok", "clean", "problems", "failed"}, Result(i, result)
    PROVE  \E new \in JobRec :
              /\ job' = [job EXCEPT ![i] = new]
              /\ new = Over \/ (/\ new.pc = "answer" /\ new.result = result
                                /\ new.op = job[i].op /\ new.slot = job[i].slot)
  <1> DEFINE one == [job[i] EXCEPT !.pc = "answer", !.result = result]
  <1>1. one \in JobRec /\ one.pc = "answer" /\ one.result = result
        /\ one.op = job[i].op /\ one.slot = job[i].slot
    BY DEF TypeOK, JobRec
  <1>2. job' = [job EXCEPT ![i] = one] \/ job' = [job EXCEPT ![i] = Over]
    BY DEF Result, TypeOK, Over
  <1> HIDE DEF one
  <1>3. QED
    BY <1>1, <1>2, OverType

\* ... without a change.
LEMMA EndsKeeps ==
    ASSUME TypeOK, Inv, NEW i \in Id, job[i].pc \in {"sent", "looked", "rows"},
           NEW result \in {"clean", "problems", "failed"}, Ends(i, result)
    PROVE  TypeOK' /\ Inv'
  <1>1. PICK new \in JobRec :
              /\ job' = [job EXCEPT ![i] = new]
              /\ new = Over \/ (/\ new.pc = "answer" /\ new.result = result
                                /\ new.op = job[i].op /\ new.slot = job[i].slot)
    BY ResultFacts DEF Ends
  <1>2. GoodOp(job[i].op, job[i].slot)
    BY DEF Inv, JobOK
  <1>3. JobOK(new)
    BY <1>1, <1>2, OverOK DEF JobOK
  <1>4. QED
    BY <1>1, <1>3, QuietJob DEF Ends

LEMMA SendKeeps ==
    ASSUME TypeOK, Inv, NEW s \in Slot, NEW op \in Op, GoodOp(op, s), Send(s, op)
    PROVE  TypeOK' /\ Inv'
  <1>1. TypeOK' /\ UNCHANGED <<db, screen, past>>
    BY SendFacts
  <1>2. PICK i \in Id : /\ \A j \in Id \ {i} : job'[j] = job[j]
                        /\ job'[i].pc = "sent" /\ job'[i].slot = s /\ job'[i].op = op
    BY SendFacts
  <1>3. \A j \in Id : \E new : job'[j] = new /\ JobOK(new)
    <2>1. \A j \in Id \ {i} : JobOK(job[j])
      BY DEF Inv
    <2>2. ASSUME NEW new, new = job'[i]
          PROVE  JobOK(new)
      BY <1>2, <2>2 DEF JobOK
    <2>3. QED
      BY <1>2, <2>1, <2>2
  <1>4. \A t \in Tab : \E rec : screen'[t] = rec /\ ScreenOK(rec, t)
    BY <1>1 DEF Inv
  <1>5. QED
    BY <1>1, <1>3, <1>4, QuietKeeps

\* Every click sends what its screen can send.
LEMMA ClickKeeps ==
    ASSUME TypeOK, Inv, Click
    PROVE  TypeOK' /\ Inv'
  <1>1. ASSUME NEW t \in Tab
        PROVE  /\ Shown(t) \in [Field -> FieldRec] /\ Exist(Shown(t))
               /\ screen[t].codes \in SUBSET Code
               /\ \A f \in Field : Shown(t)[f].required \in BOOLEAN
    <2>1. screen[t] \in ScreenRec
      BY DEF TypeOK
    <2>2. Shown(t) \in [Field -> FieldRec] /\ screen[t].codes \in SUBSET Code
      BY <2>1 DEF ScreenRec, Db, Shown
    <2>3. \A f \in Field : Shown(t)[f].required \in BOOLEAN
      BY <2>2 DEF FieldRec
    <2>4. QED
      BY <2>2, <2>3 DEF Inv, ScreenOK, Shown
  <1>2. ASSUME NEW t \in Manager, NEW f \in Field,
               NEW kind \in {"required", "archive", "add"}, NEW flag \in BOOLEAN,
               NEW slot \in {"table", "form"},
               Send(<<t, slot>>, [NoOp EXCEPT !.kind = kind, !.ids = <<f>>,
                                              !.flag = flag])
        PROVE  TypeOK' /\ Inv'
    <2> DEFINE op == [NoOp EXCEPT !.kind = kind, !.ids = <<f>>, !.flag = flag]
    <2>1. op \in Op /\ op.kind = kind /\ op.codes = {} /\ op.ids = <<f>>
      BY OneField, NoOpType DEF NoOp
    <2> HIDE DEF op
    <2>2. GoodOp(op, <<t, slot>>)
      BY <2>1, TabAssumption DEF GoodOp
    <2>3. QED
      BY <1>2, <2>1, <2>2, SendKeeps, SlotFacts DEF op
  <1>3. ASSUME NEW t \in Manager, NEW f \in Field, ToggleRequired(t, f)
        PROVE  TypeOK' /\ Inv'
    <2>1. (~Shown(t)[f].required) \in BOOLEAN
      BY <1>1 DEF Tab
    <2>2. QED
      BY <1>2, <1>3, <2>1 DEF ToggleRequired
  <1>4. ASSUME NEW t \in Manager, NEW f \in Field, ArchiveOrRestore(t, f)
        PROVE  TypeOK' /\ Inv'
    BY <1>2, <1>4 DEF ArchiveOrRestore
  <1>5. ASSUME NEW t \in Manager, NEW f \in Field, AddField(t, f)
        PROVE  TypeOK' /\ Inv'
    BY <1>2, <1>5 DEF AddField
  <1>6. ASSUME NEW t \in Manager, NEW list \in Lists, NEW i \in Field, move(t, list, i)
        PROVE  TypeOK' /\ Inv'
    <2> DEFINE op == [NoOp EXCEPT !.kind = "reorder",
                !.ids = [list EXCEPT ![i] = list[i + 1], ![i + 1] = list[i]]]
    <2>1. /\ InOrder(list, Shown(t)) /\ i + 1 \in DOMAIN list
          /\ Send(<<t, "table">>, op)
      BY <1>6 DEF move
    <2>2. Shown(t) \in [Field -> FieldRec] /\ Exist(Shown(t))
      BY <1>1 DEF Tab
    <2>3. /\ op \in Op /\ op.kind = "reorder" /\ op.codes = {}
          /\ \A n \in DOMAIN op.ids : Shown(t)[op.ids[n]].state = "active"
          /\ \A n, p \in DOMAIN op.ids : op.ids[n] = op.ids[p] => n = p
      BY <2>1, <2>2, MoveOp
    <2> HIDE DEF op
    <2>4. \A n \in DOMAIN op.ids : op.ids[n] \in Field
      <3>1. op.ids \in Lists
        BY <2>3 DEF Op
      <3>2. QED
        BY <3>1, ListLen
    <2>5. GoodOp(op, <<t, "table">>)
      BY <2>2, <2>3, <2>4, TabAssumption DEF GoodOp, Exist
    <2>6. QED
      BY <2>1, <2>3, <2>5, SendKeeps, SlotFacts
  <1>7. ASSUME NEW t \in Enroller, NEW c \in Code, SaveMember(t, c)
        PROVE  TypeOK' /\ Inv'
    <2> DEFINE op == [NoOp EXCEPT !.kind = "save", !.codes = {c},
                                  !.covers = Required(Shown(t))]
    <2>1. op \in Op /\ op.kind = "save" /\ op.codes = {c}
      BY NoOpType DEF Op, NoOp, Required, Active
    <2>2. Send(<<t, "member">>, op)
      BY <1>7 DEF SaveMember
    <2> HIDE DEF op
    <2>3. GoodOp(op, <<t, "member">>)
      BY <2>1, TabAssumption DEF GoodOp
    <2>4. QED
      BY <2>1, <2>2, <2>3, SendKeeps, SlotFacts
  <1>8. ASSUME NEW t \in Enroller, ArchiveMember(t)
        PROVE  TypeOK' /\ Inv'
    <2> DEFINE flag == \A c \in screen[t].codes : screen[t].seen.members[c] = "active"
               op == [NoOp EXCEPT !.kind = "archiveMember", !.codes = screen[t].codes,
                                  !.flag = flag]
    <2>1. Send(<<t, "member">>, op)
      BY <1>8 DEF ArchiveMember
    <2>2. op \in Op /\ op.kind = "archiveMember"
      <3>1. flag \in BOOLEAN
        OBVIOUS
      <3> HIDE DEF flag
      <3>2. screen[t].codes \in SUBSET Code
        BY <1>1 DEF Tab
      <3>3. QED
        BY <3>1, <3>2, NoOpType DEF Op, NoOp
    <2> HIDE DEF op
    <2>3. GoodOp(op, <<t, "member">>)
      BY <2>2, TabAssumption DEF GoodOp
    <2>4. QED
      BY <2>1, <2>2, <2>3, SendKeeps, SlotFacts
  <1>9. ASSUME NEW t \in Importing, NEW dryRun \in BOOLEAN, run(t, dryRun)
        PROVE  TypeOK' /\ Inv'
    <2> DEFINE op == [NoOp EXCEPT !.kind = "import", !.codes = screen[t].codes,
                         !.flag = dryRun, !.covers = Required(Shown(t))]
    <2>1. Send(<<t, "wizard">>, op) /\ screen[t].codes # {}
      BY <1>9 DEF run
    <2>2. screen[t].codes \in SUBSET Code
      BY <1>1 DEF Tab
    <2>3. op \in Op /\ op.kind = "import" /\ op.codes = screen[t].codes
      BY <2>2, NoOpType DEF Op, NoOp, Required, Active
    <2> HIDE DEF op
    <2>4. GoodOp(op, <<t, "wizard">>)
      BY <2>1, <2>3 DEF GoodOp
    <2>5. QED
      BY <2>1, <2>3, <2>4, SendKeeps, SlotFacts
  <1>10. ASSUME NEW t \in Importing, NEW codes \in SUBSET Code, onFile(t, codes)
         PROVE  TypeOK' /\ Inv'
    <2> DEFINE new == [screen[t] EXCEPT
                          !.codes = IF codes = {} THEN screen[t].codes ELSE codes,
                          !.report = "none"]
    <2>1. screen[t] \in ScreenRec /\ t \in Tab
      BY DEF TypeOK, Tab
    <2>2. /\ new \in ScreenRec /\ new.seen = screen[t].seen
          /\ new.page = screen[t].page /\ new.to = screen[t].to
      BY <2>1 DEF ScreenRec
    <2>3. screen' = [screen EXCEPT ![t] = new]
      BY <1>10, <2>1 DEF onFile, TypeOK
    <2>4. screen[t].page = "start" /\ UNCHANGED <<db, job, waits, clicks, past>>
      BY <1>10 DEF onFile
    <2> HIDE DEF new
    <2>5. ScreenOK(screen[t], t)
      BY <2>1 DEF Inv
    <2>6. ScreenOK(new, t)
      BY <2>2, <2>4, <2>5 DEF ScreenOK
    <2>7. screen' \in [Tab -> ScreenRec] /\ screen'[t] = new
          /\ \A u \in Tab \ {t} : screen'[u] = screen[u]
      BY <2>1, <2>2, <2>3 DEF TypeOK
    <2>8. TypeOK'
      BY <2>4, <2>7 DEF TypeOK
    <2>9. QED
      BY <2>4, <2>6, <2>7, <2>8, QuietKeeps DEF Inv
  <1>11. QED
    BY <1>3, <1>4, <1>5, <1>6, <1>7, <1>8, <1>9, <1>10 DEF Click

LEMMA AfterFacts ==
    ASSUME NEW rec \in ScreenRec, NEW op \in Op,
           NEW result \in {"none", "ok", "clean", "problems", "failed"}
    PROVE  LET new == After(rec, op, result) IN
           /\ new \in ScreenRec /\ new.seen = rec.seen /\ new.page = rec.page
           /\ new.codes = rec.codes
           /\ op.kind = "import" /\ result = "ok" =>
                 new.to.page = "members" /\ new.to.codes = op.codes
           /\ (op.kind = "import" /\ result # "ok") \/ op.kind \notin {"import", "save"}
                 => new.to = rec.to
  <1> DEFINE new == After(rec, op, result)
  <1>1. ASSUME NEW page \in Page, NEW old \in ScreenRec,
               NEW left, left = Leave(old, page, op.codes)
        PROVE  /\ left \in ScreenRec /\ left.seen = old.seen /\ left.page = old.page
               /\ left.codes = old.codes
               /\ left.to.page = page /\ left.to.codes = op.codes
    BY <1>1 DEF Leave, ScreenRec, Op
  <1>2. CASE result = "failed"
    BY <1>2 DEF After
  <1>3. CASE op.kind = "import" /\ result \in {"clean", "problems"}
    <2>1. new = [rec EXCEPT !.report = result]
      BY <1>3 DEF After
    <2>2. QED
      BY <1>3, <2>1 DEF ScreenRec
  <1>4. CASE op.kind = "import" /\ result = "ok"
    <2> DEFINE old == [rec EXCEPT !.report = "clean"]
    <2>1. new = Leave(old, "members", op.codes)
      BY <1>4 DEF After
    <2>2. /\ old \in ScreenRec /\ old.seen = rec.seen /\ old.page = rec.page
          /\ old.codes = rec.codes
      BY DEF ScreenRec
    <2> HIDE DEF old
    <2>3. QED
      BY <1>1, <1>4, <2>1, <2>2 DEF Page
  <1>5. CASE op.kind = "save" /\ result = "ok"
    <2>1. new = Leave(rec, "member", op.codes)
      BY <1>5 DEF After
    <2>2. QED
      BY <1>1, <1>5, <2>1 DEF Page
  <1>6. CASE /\ result # "failed" /\ ~(op.kind = "save" /\ result = "ok")
             /\ ~(op.kind = "import" /\ result \in {"ok", "clean", "problems"})
    <2>1. new = [rec EXCEPT !.stale = TRUE]
      BY <1>6 DEF After
    <2>2. QED
      BY <1>6, <2>1 DEF ScreenRec
  <1>7. QED
    BY <1>2, <1>3, <1>4, <1>5, <1>6

\* One screen moves.
LEMMA QuietScreen ==
    ASSUME TypeOK, Inv, UNCHANGED <<db, past, clicks>>,
           waits' \in [Slot -> 0 .. MaxClicks], job' \in [Id -> JobRec],
           \A i \in Id : job'[i] = job[i] \/ job'[i] = Over,
           NEW t \in Tab, NEW new \in ScreenRec, ScreenOK(new, t),
           screen' = [screen EXCEPT ![t] = new]
    PROVE  TypeOK' /\ Inv'
  <1>1. /\ screen' \in [Tab -> ScreenRec] /\ screen'[t] = new
        /\ \A u \in Tab \ {t} : screen'[u] = screen[u]
    BY DEF TypeOK
  <1>2. TypeOK'
    BY <1>1 DEF TypeOK
  <1>3. QED
    BY <1>1, <1>2, OverOK, QuietKeeps DEF Inv

LEMMA AnsweredKeeps ==
    ASSUME TypeOK, Inv, NEW i \in Id, Answered(i)
    PROVE  TypeOK' /\ Inv'
  <1> DEFINE s == job[i].slot  op == job[i].op  result == job[i].result  t == s[1]
  <1>1. job[i] \in JobRec
    BY DEF TypeOK
  <1>2. /\ s \in Slot /\ op \in Op
        /\ result \in {"none", "ok", "clean", "problems", "failed"}
    BY <1>1 DEF JobRec
  <1>3. t \in Tab /\ (t \in Importing => s = <<t, "wizard">>)
    BY <1>2, SlotFacts
  <1>4. screen[t] \in ScreenRec /\ ScreenOK(screen[t], t)
    BY <1>3 DEF TypeOK, Inv
  <1>5. GoodOp(op, s) /\ (op.kind = "import" /\ result = "ok" => Made(op.codes, s))
    BY DEF Answered, Inv, JobOK
  <1> DEFINE new == After(screen[t], op, result)
  <1>6. screen' = [screen EXCEPT ![t] = new]
    BY <1>3 DEF Answered, TypeOK
  <1>7. /\ job' = [job EXCEPT ![i] = Over] /\ waits' = [waits EXCEPT ![s] = 0]
        /\ UNCHANGED <<db, clicks, past>>
    BY DEF Answered, Over
  <1> HIDE DEF s, op, result, t
  <1>8. /\ new \in ScreenRec /\ new.seen = screen[t].seen /\ new.page = screen[t].page
        /\ new.codes = screen[t].codes
        /\ op.kind = "import" /\ result = "ok" =>
              new.to.page = "members" /\ new.to.codes = op.codes
        /\ (op.kind = "import" /\ result # "ok") \/ op.kind \notin {"import", "save"}
              => new.to = screen[t].to
    BY <1>2, <1>4, AfterFacts
  <1> HIDE DEF new
  <1>9. ScreenOK(new, t)
    BY <1>3, <1>4, <1>5, <1>8 DEF ScreenOK, GoodOp
  <1>10. waits' \in [Slot -> 0 .. MaxClicks]
    BY <1>2, <1>7, ConsoleAssumption DEF TypeOK
  <1>11. /\ job' \in [Id -> JobRec]
         /\ \A j \in Id : job'[j] = job[j] \/ job'[j] = Over
    BY <1>7, OverType DEF TypeOK
  <1>12. QED
    BY <1>3, <1>8, <1>6, <1>7, <1>9, <1>10, <1>11, QuietScreen

LEMMA BreakKeeps ==
    ASSUME TypeOK, Inv, NEW s \in Slot, Break(s)
    PROVE  TypeOK' /\ Inv'
  <1>1. UNCHANGED <<db, screen, clicks, past>>
    BY DEF Break
  <1>2. waits' \in [Slot -> 0 .. MaxClicks]
    BY ConsoleAssumption DEF Break, TypeOK
  <1>3. waits[s] \in Id
    BY ConsoleAssumption DEF Break, TypeOK, Id
  <1>4. \/ job' = [job EXCEPT ![waits[s]] = Over]
        \/ job' = job
    BY <1>3 DEF Break, TypeOK, Over
  <1>5. /\ job' \in [Id -> JobRec]
        /\ \A i \in Id : job'[i] = job[i] \/ job'[i] = Over
    BY <1>3, <1>4, OverType DEF TypeOK
  <1>6. TypeOK'
    BY <1>1, <1>2, <1>5 DEF TypeOK
  <1>7. QED
    BY <1>1, <1>5, <1>6, OverOK, QuietKeeps DEF Inv

LEMMA RefreshedKeeps ==
    ASSUME TypeOK, Inv, NEW t \in Tab, Refreshed(t)
    PROVE  TypeOK' /\ Inv'
  <1> DEFINE rec == screen[t]
             codes == IF rec.to.page = rec.page THEN rec.codes ELSE rec.to.codes
             new == [rec EXCEPT !.stale = FALSE, !.seen = db, !.page = rec.to.page,
                                !.codes = codes]
  <1>1. rec \in ScreenRec /\ ScreenOK(rec, t)
    BY DEF TypeOK, Inv
  <1>2. /\ rec.to.page \in Page /\ rec.to.codes \in SUBSET Code
        /\ rec.codes \in SUBSET Code
    BY <1>1 DEF ScreenRec
  <1>3. /\ new \in ScreenRec /\ new.seen = db /\ new.page = rec.to.page
        /\ new.codes = codes /\ new.to = rec.to
    BY <1>1, <1>2 DEF ScreenRec, TypeOK
  <1>4. screen' = [screen EXCEPT ![t] = new] /\ UNCHANGED <<db, job, waits, clicks, past>>
    BY DEF Refreshed
  <1> HIDE DEF new
  <1>5. Exist(new.seen.fields)
    BY <1>3 DEF Exist
  <1>6. ScreenOK(new, t)
    BY <1>1, <1>3, <1>5 DEF ScreenOK
  <1>7. QED
    BY <1>3, <1>4, <1>6, QuietScreen DEF TypeOK

\* The API takes a request a step further, or ends it without a change.
LEMMA ServingKeeps ==
    ASSUME TypeOK, Inv, NEW i \in Id,
           ReorderBegins(i) \/ ReorderRow(i) \/ ReorderFails(i)
    PROVE  TypeOK' /\ Inv'
  <1>1. job[i] \in JobRec /\ JobOK(job[i])
    BY DEF TypeOK, Inv
  <1>2. CASE ReorderBegins(i)
    <2> DEFINE new == [job[i] EXCEPT !.pc = "rows"]
    <2>1. new \in JobRec /\ new.pc = "rows" /\ new.op = job[i].op /\ new.slot = job[i].slot
      BY <1>1 DEF JobRec
    <2>2. /\ job' = [job EXCEPT ![i] = new] /\ job[i].pc = "sent"
          /\ job[i].op.kind = "reorder" /\ UNCHANGED <<db, past, screen, waits, clicks>>
      BY <1>2 DEF ReorderBegins
    <2> HIDE DEF new
    <2>3. JobOK(new)
      BY <1>1, <2>1, <2>2 DEF JobOK
    <2>4. QED
      BY <2>1, <2>2, <2>3, QuietJob
  <1>3. CASE ReorderRow(i)
    <2> DEFINE new == [job[i] EXCEPT !.done = job[i].done + 1]
    <2>1. /\ job' = [job EXCEPT ![i] = new] /\ job[i].pc = "rows"
          /\ job[i].done < Len(job[i].op.ids)
          /\ UNCHANGED <<db, past, screen, waits, clicks>>
      BY <1>1, <1>3 DEF ReorderRow, TypeOK
    <2>2. job[i].op.ids \in Lists /\ job[i].done \in 0 .. Fields
      BY <1>1 DEF JobRec, Op
    <2>3. job[i].done + 1 \in 0 .. Fields
      <3>1. PICK n \in 0 .. Fields : Len(job[i].op.ids) = n
        BY <2>2, ListLen
      <3>2. job[i].done < n
        BY <2>1, <3>1
      <3>3. QED
        BY <2>2, <3>2, ConsoleAssumption
    <2>4. new \in JobRec /\ new.pc = "rows" /\ new.op = job[i].op /\ new.slot = job[i].slot
      BY <1>1, <2>1, <2>3 DEF JobRec
    <2> HIDE DEF new
    <2>5. JobOK(new)
      BY <1>1, <2>1, <2>4 DEF JobOK
    <2>6. QED
      BY <2>1, <2>4, <2>5, QuietJob
  <1>4. CASE ReorderFails(i)
    BY <1>4, EndsKeeps DEF ReorderFails
  <1>5. QED
    BY <1>2, <1>3, <1>4

LEMMA LookKeeps ==
    ASSUME TypeOK, Inv, NEW i \in Id, Look(i)
    PROVE  TypeOK' /\ Inv'
  <1>1. job[i] \in JobRec /\ JobOK(job[i])
    BY DEF TypeOK, Inv
  <1>2. job[i].pc = "sent" /\ job[i].op.kind \in {"add", "save", "import"}
    BY DEF Look
  <1>3. CASE \E result \in {"clean", "problems", "failed"} : Ends(i, result)
    BY <1>2, <1>3, EndsKeeps
  <1>4. ASSUME NEW f \in Field,
               job' = [job EXCEPT ![i].pc = "looked", ![i].last = db.fields[f].order],
               UNCHANGED <<db, waits, screen, clicks, past>>
        PROVE  TypeOK' /\ Inv'
    <2> DEFINE new == [job[i] EXCEPT !.pc = "looked", !.last = db.fields[f].order]
    <2>1. db.fields[f].order \in Nat
      BY DEF TypeOK, Db, FieldRec
    <2>2. job' = [job EXCEPT ![i] = new]
      BY <1>1, <1>4 DEF TypeOK
    <2>3. new \in JobRec /\ new.pc = "looked" /\ new.op = job[i].op /\ new.slot = job[i].slot
      BY <1>1, <2>1 DEF JobRec
    <2> HIDE DEF new
    <2>4. JobOK(new)
      BY <1>1, <1>2, <2>3 DEF JobOK
    <2>5. QED
      BY <1>4, <2>2, <2>3, <2>4, QuietJob
  <1>5. QED
    BY <1>3, <1>4 DEF Look

-----------------------------------------------------------------------------
(* Steps that commit.                                                      *)

\* What a request makes of the fields and the members: nothing that was there
\* goes away; only what was not there is created, and only a reordering moves.
Makes(op, fields, members) ==
    /\ fields \in [Field -> FieldRec]
    /\ members \in [Code -> {"none", "active", "archived"}]
    /\ \A f \in Field : db.fields[f].state # "none" =>
          /\ fields[f].state # "none"
          /\ op.kind # "reorder" => fields[f].order = db.fields[f].order
    /\ \A c \in Code : db.members[c] # "none" => members[c] # "none"
    /\ op.kind \in {"add", "save", "import"} => ~Exists(op)
    /\ op.kind = "add" => fields[op.ids[1]].state # "none"
    /\ op.kind \in {"save", "import"} => \A c \in op.codes : members[c] # "none"
    /\ op.kind = "required" => fields[op.ids[1]].required = op.flag
    /\ op.kind = "archive" =>
          /\ fields[op.ids[1]].state = IF op.flag THEN "archived" ELSE "active"
          /\ op.flag => ~fields[op.ids[1]].required
    /\ op.kind = "archiveMember" =>
          \A c \in op.codes : members[c] = IF op.flag THEN "archived" ELSE "active"
    /\ op.kind = "reorder" =>
          \A n \in DOMAIN op.ids : fields[op.ids[n]].order = n

\* What a request creates, by field or by code.
Creates(op, x) == \/ op.kind = "add" /\ x = op.ids[1]
                  \/ op.kind \in {"save", "import"} /\ x \in op.codes

\* The history after a commit: one entry more for what was created.
LEMMA MadeFacts ==
    ASSUME TypeOK, Inv, NEW i \in Id, NEW op, op = job[i].op,
           op.kind \in {"add", "save", "import"} => ~Exists(op),
           GoodOp(op, job[i].slot), NEW fields, NEW members,
           Commits(i, fields, members)
    PROVE  /\ past' \in Past /\ past'.op = op
           /\ past'.order = IF op.kind = "reorder" THEN op ELSE past.order
           /\ \A x \in Field \union Code :
                 IF Creates(op, x)
                 THEN past.made[x] = <<>> /\ past'.made[x] = <<job[i].slot>>
                 ELSE past'.made[x] = past.made[x]
  <1> DEFINE s == job[i].slot
             made == [x \in Field \union Code |->
                         IF Creates(op, x) THEN Append(past.made[x], s)
                         ELSE past.made[x]]
             order == IF op.kind = "reorder" THEN op ELSE past.order
  <1>1. past' = [made |-> made, order |-> order, op |-> op]
    BY DEF Commits, Creates
  <1>2. past.made \in [Field \union Code -> Seq(Slot)] /\ past.order \in Op
        /\ op \in Op /\ s \in Slot
    BY DEF TypeOK, Past, JobRec
  <1>3. ASSUME NEW x \in Field \union Code, Creates(op, x)
        PROVE  past.made[x] = <<>>
    <2>1. CASE op.kind = "add"
      <3>1. x = op.ids[1] /\ x \in Field /\ db.fields[x].state = "none"
        BY <1>3, <2>1 DEF Creates, GoodOp, Exists
      <3>2. QED
        BY <3>1 DEF Inv, MadeOK
    <2>2. CASE op.kind \in {"save", "import"}
      <3>1. x \in op.codes /\ op.codes \in SUBSET Code /\ db.members[x] = "none"
        BY <1>2, <1>3, <2>2 DEF Creates, Exists, Op
      <3>2. QED
        BY <3>1 DEF Inv, MadeOK
    <2>3. QED
      BY <1>3, <2>1, <2>2 DEF Creates
  <1> HIDE DEF s
  <1>4. made \in [Field \union Code -> Seq(Slot)]
    BY <1>2
  <1>5. \A x \in Field \union Code :
           made[x] = IF Creates(op, x) THEN <<s>> ELSE past.made[x]
    <2>1. Append(<<>>, s) = <<s>>
      OBVIOUS
    <2>2. QED
      BY <1>3, <2>1
  <1> HIDE DEF made
  <1>6. QED
    BY <1>1, <1>2, <1>3, <1>4, <1>5 DEF Past, s

LEMMA CommitKeeps ==
    ASSUME TypeOK, Inv, NEW i \in Id, job[i].pc \in {"sent", "looked", "rows"},
           NEW fields, NEW members, Makes(job[i].op, fields, members),
           Commits(i, fields, members)
    PROVE  TypeOK' /\ Inv'
  <1> DEFINE op == job[i].op  s == job[i].slot
  <1>1. GoodOp(op, s) /\ op \in Op /\ s \in Slot
    BY DEF Inv, JobOK, TypeOK, JobRec
  <1>2. /\ past' \in Past /\ past'.op = op
        /\ past'.order = IF op.kind = "reorder" THEN op ELSE past.order
        /\ \A x \in Field \union Code :
              IF Creates(op, x) THEN past.made[x] = <<>> /\ past'.made[x] = <<s>>
              ELSE past'.made[x] = past.made[x]
    BY <1>1, MadeFacts DEF Makes
  <1>3. db' = [fields |-> fields, members |-> members] /\ UNCHANGED <<waits, screen, clicks>>
        /\ Result(i, "ok")
    BY DEF Commits
  <1>4. PICK new \in JobRec :
              /\ job' = [job EXCEPT ![i] = new]
              /\ new = Over \/ (/\ new.pc = "answer" /\ new.result = "ok"
                                /\ new.op = op /\ new.slot = s)
    BY <1>3, ResultFacts
  <1>5. /\ job' \in [Id -> JobRec] /\ job'[i] = new
        /\ \A j \in Id \ {i} : job'[j] = job[j]
    BY <1>4 DEF TypeOK
  <1> HIDE DEF op, s
  <1>6. Makes(op, fields, members)
    BY DEF op
  <1>7. db'.fields = fields /\ db'.members = members
    BY <1>3
  <1>8. TypeOK'
    BY <1>2, <1>3, <1>5, <1>6, <1>7 DEF TypeOK, Db, Makes
  <1>9. /\ \A f \in Field : db.fields[f].state # "none" => db'.fields[f].state # "none"
        /\ \A c \in Code : db.members[c] # "none" => db'.members[c] # "none"
    BY <1>6, <1>7 DEF Makes
  <1>10. \A x \in Field \union Code : past.made[x] # <<>> => past'.made[x] = past.made[x]
    BY <1>2
  <1>11. ASSUME NEW codes \in SUBSET Code, NEW slot, Made(codes, slot)
         PROVE  \A c \in codes : past'.made[c] = <<slot>>
    <2>1. <<slot>> # <<>>
      OBVIOUS
    <2>2. \A c \in codes : past.made[c] = <<slot>> /\ c \in Field \union Code
      BY <1>11 DEF Made
    <2>3. QED
      BY <1>10, <2>1, <2>2
  <1>12. ASSUME NEW j \in JobRec, JobOK(j)
         PROVE  JobOK(j)'
    <2>1. j.op \in Op /\ j.op.codes \in SUBSET Code /\ j.op.ids \in Lists
      BY DEF JobRec, Op
    <2>2. \A n \in DOMAIN j.op.ids : j.op.ids[n] \in Field
      BY <2>1, ListLen
    <2>3. GoodOp(j.op, j.slot) => GoodOp(j.op, j.slot)'
      BY <1>9, <2>2 DEF GoodOp
    <2>4. Made(j.op.codes, j.slot) => Made(j.op.codes, j.slot)'
      BY <1>11, <2>1 DEF Made
    <2>5. QED
      BY <1>12, <2>3, <2>4 DEF JobOK
  <1>13. ASSUME NEW j, j = new
         PROVE  JobOK(j)'
    <2>1. CASE j = Over
      BY <2>1, OverType DEF JobOK
    <2>2. CASE /\ j.pc = "answer" /\ j.result = "ok" /\ j.op = op /\ j.slot = s
      <3>1. j.op.codes \in SUBSET Code /\ j.op.ids \in Lists
        BY <1>1, <2>2 DEF Op
      <3>2. \A n \in DOMAIN j.op.ids : j.op.ids[n] \in Field
        BY <3>1, ListLen
      <3>3. GoodOp(j.op, j.slot)
        BY <1>1, <2>2
      <3>4. GoodOp(j.op, j.slot)'
        BY <1>9, <3>2, <3>3 DEF GoodOp
      <3>5. j.op.kind = "import" => Made(j.op.codes, j.slot)'
        BY <1>2, <2>2, <3>1 DEF Creates, Made
      <3>6. QED
        BY <2>2, <3>4, <3>5 DEF JobOK
    <2>3. QED
      BY <1>4, <1>13, <2>1, <2>2
  <1>14. \A j \in Id : JobOK(job[j])'
    <2>1. ASSUME NEW j \in Id, NEW r, r = job'[j]
          PROVE  JobOK(r)'
      <3>1. CASE j = i
        BY <1>5, <1>13, <2>1, <3>1
      <3>2. CASE j # i
        BY <1>5, <1>12, <2>1, <3>2 DEF TypeOK, Inv
      <3>3. QED
        BY <3>1, <3>2
    <2>2. QED
      BY <2>1 DEF JobOK, GoodOp, Made
  <1>15. ASSUME NEW t \in Tab
         PROVE  ScreenOK(screen[t], t)'
    <2>1. screen'[t] = screen[t] /\ screen[t] \in ScreenRec /\ ScreenOK(screen[t], t)
      BY <1>3 DEF TypeOK, Inv
    <2>2. screen[t].codes \in SUBSET Code /\ screen[t].to.codes \in SUBSET Code
      BY <2>1 DEF ScreenRec
    <2>3. QED
      BY <1>9, <1>11, <2>1, <2>2 DEF ScreenOK, Exist, Made
  <1>16. MadeOK'
    <2>1. \A f \in Field : Creates(op, f) => db'.fields[f].state # "none"
      <3>1. \A f \in Field : f \notin Code
        BY ConsoleAssumption DEF Field
      <3>2. op.codes \in SUBSET Code
        BY <1>1 DEF Op
      <3>3. QED
        BY <1>6, <1>7, <3>1, <3>2 DEF Creates, Makes
    <2>2. \A c \in Code : Creates(op, c) => db'.members[c] # "none"
      <3>1. op.kind = "add" => op.ids[1] \notin Code
        BY <1>1, ConsoleAssumption DEF GoodOp, Field
      <3>2. QED
        BY <1>6, <1>7, <3>1 DEF Creates, Makes
    <2>3. ASSUME NEW x \in Field \union Code
          PROVE  Len(past'.made[x]) <= 1
      <3>1. Len(<<s>>) = 1
        OBVIOUS
      <3>2. Len(past.made[x]) <= 1
        BY DEF Inv, MadeOK
      <3>3. CASE past'.made[x] = <<s>>
        <4>1. Len(past'.made[x]) = 1
          BY <3>1, <3>3
        <4>2. QED
          BY <4>1
      <3>4. CASE past'.made[x] = past.made[x]
        BY <3>2, <3>4
      <3>5. QED
        BY <1>2, <3>3, <3>4
    <2>4. QED
      BY <1>2, <1>9, <2>1, <2>2, <2>3 DEF Inv, MadeOK
  <1>17. OrderOK'
    <2>1. CASE op.kind = "reorder"
      <3>1. past'.order = op
        BY <1>2, <2>1
      <3>2. op.ids \in Lists
        BY <1>1 DEF Op
      <3>3. PICK k \in 0 .. Fields : op.ids \in [1 .. k -> Field] /\ DOMAIN op.ids = 1 .. k
        BY <3>2, ListLen
      <3>4. \A n \in DOMAIN op.ids : /\ db'.fields[op.ids[n]].order = n
                                     /\ db'.fields[op.ids[n]].state # "none"
        BY <1>1, <1>6, <1>7, <1>9, <2>1, <3>3 DEF Makes, GoodOp
      <3>5. QED
        BY <3>1, <3>4 DEF OrderOK
    <2>2. CASE op.kind # "reorder"
      <3>1. past'.order = past.order /\ past.order \in Op
        BY <1>2, <2>2 DEF TypeOK, Past
      <3>2. past.order.ids \in Lists
        BY <3>1 DEF Op
      <3>3. \A n \in DOMAIN past.order.ids : past.order.ids[n] \in Field
        BY <3>2, ListLen
      <3>4. \A n \in DOMAIN past.order.ids :
               LET f == past.order.ids[n] IN
               /\ db.fields[f].state # "none" /\ db'.fields[f].state # "none"
               /\ db'.fields[f].order = db.fields[f].order
        BY <1>6, <1>7, <1>9, <2>2, <3>3 DEF Inv, OrderOK, Makes
      <3>5. QED
        BY <3>1, <3>4 DEF Inv, OrderOK
    <2>3. QED
      BY <2>1, <2>2
  <1>18. Effect(past.op)'
    <2>1. op.codes \in SUBSET Code
      BY <1>1 DEF Op
    <2>2. ASSUME NEW o, o = op
          PROVE  Effect(o)'
      <3>1. /\ o.codes \in SUBSET Code
            /\ o.kind \in {"add", "save", "import"} => ~Exists(o)
            /\ o.kind = "add" => fields[o.ids[1]].state # "none"
            /\ o.kind \in {"save", "import"} =>
                  o.codes # {} /\ \A c \in o.codes : members[c] # "none"
        BY <1>1, <1>6, <2>1, <2>2 DEF Makes, GoodOp
      <3>2. /\ o.kind = "required" => fields[o.ids[1]].required = o.flag
            /\ o.kind = "archive" =>
                  /\ fields[o.ids[1]].state = IF o.flag THEN "archived" ELSE "active"
                  /\ o.flag => ~fields[o.ids[1]].required
        BY <1>6, <2>2 DEF Makes
      <3>3. /\ o.kind = "archiveMember" =>
                  \A c \in o.codes : members[c] = IF o.flag THEN "archived" ELSE "active"
            /\ o.kind = "reorder" =>
                  \A n \in DOMAIN o.ids : fields[o.ids[n]].order = n
        BY <1>6, <2>2 DEF Makes
      <3>4. o.kind \in {"add", "save", "import"} => Exists(o)'
        BY <1>7, <3>1 DEF Exists
      <3>5. QED
        BY <1>7, <3>2, <3>3, <3>4 DEF Effect
    <2>3. QED
      BY <1>2, <2>2 DEF Effect, Exists
  <1>19. QED
    BY <1>8, <1>14, <1>15, <1>16, <1>17, <1>18 DEF Inv

\* A commit of request i, which has no effect if its effect is there already.
Served(i) ==
    \E fields, members :
        /\ job[i].pc \in {"sent", "looked", "rows"}
        /\ Makes(job[i].op, fields, members) /\ Commits(i, fields, members)
        /\ Effect(job[i].op) => fields = db.fields /\ members = db.members

LEMMA DbType ==
    ASSUME TypeOK
    PROVE  /\ db = [fields |-> db.fields, members |-> db.members]
           /\ db.fields \in [Field -> FieldRec]
           /\ db.members \in [Code -> {"none", "active", "archived"}]
  BY DEF TypeOK, Db

LEMMA UpdateServes ==
    ASSUME TypeOK, Inv, NEW i \in Id, Update(i)
    PROVE  Served(i)
  <1> DEFINE op == job[i].op  f == op.ids[1]
             new == [db.fields[f] EXCEPT !.required = op.flag]
             fields == [db.fields EXCEPT ![f] = new]
  <1>1. GoodOp(op, job[i].slot) /\ op \in Op /\ job[i].pc = "sent"
        /\ op.kind = "required" /\ Commits(i, fields, db.members)
    BY DbType DEF Update, Inv, JobOK, TypeOK, JobRec
  <1>2. f \in Field /\ op.flag \in BOOLEAN
    BY <1>1 DEF GoodOp, Op
  <1>3. db.fields[f] \in FieldRec
    BY <1>2, DbType
  <1>4. /\ new \in FieldRec /\ new.required = op.flag
        /\ new.state = db.fields[f].state /\ new.order = db.fields[f].order
        /\ db.fields[f].required = op.flag => new = db.fields[f]
    BY <1>2, <1>3 DEF FieldRec
  <1> HIDE DEF new, f
  <1>5. /\ fields \in [Field -> FieldRec] /\ fields[f] = new
        /\ \A g \in Field \ {f} : fields[g] = db.fields[g]
        /\ db.fields[f].required = op.flag => fields = db.fields
    BY <1>2, <1>4, DbType
  <1> HIDE DEF fields
  <1>6. Makes(op, fields, db.members)
    BY <1>1, <1>2, <1>4, <1>5, DbType DEF Makes, f
  <1>7. Effect(op) => fields = db.fields
    BY <1>1, <1>5 DEF Effect, f
  <1>8. QED
    BY <1>1, <1>6, <1>7 DEF Served

LEMMA ArchiveServes ==
    ASSUME TypeOK, Inv, NEW i \in Id, Archive(i)
    PROVE  Served(i)
  <1> DEFINE op == job[i].op  f == op.ids[1]
             new == [db.fields[f] EXCEPT
                        !.state = IF op.flag THEN "archived" ELSE "active",
                        !.required = IF op.flag THEN FALSE
                                     ELSE db.fields[f].required]
             fields == [db.fields EXCEPT ![f] = new]
  <1>1. GoodOp(op, job[i].slot) /\ op \in Op /\ job[i].pc = "sent" /\ op.kind = "archive"
    BY DEF Archive, Inv, JobOK, TypeOK, JobRec
  <1>2. f \in Field /\ op.flag \in BOOLEAN
    BY <1>1 DEF GoodOp, Op
  <1>3. db.fields[f] \in FieldRec
    BY <1>2, DbType
  <1>4. Commits(i, fields, db.members)
    BY <1>2, DbType DEF Archive
  <1>5. /\ new \in FieldRec /\ new.order = db.fields[f].order
        /\ new.state = IF op.flag THEN "archived" ELSE "active"
        /\ op.flag => ~new.required
    BY <1>2, <1>3 DEF FieldRec
  <1>6. ASSUME db.fields[f].state = IF op.flag THEN "archived" ELSE "active",
               op.flag => ~db.fields[f].required
        PROVE  new = db.fields[f]
    BY <1>2, <1>3, <1>6 DEF FieldRec
  <1> HIDE DEF new, f
  <1>7. /\ fields \in [Field -> FieldRec] /\ fields[f] = new
        /\ \A g \in Field \ {f} : fields[g] = db.fields[g]
        /\ new = db.fields[f] => fields = db.fields
    BY <1>2, <1>5, DbType
  <1> HIDE DEF fields
  <1>8. Makes(op, fields, db.members)
    BY <1>1, <1>2, <1>5, <1>7, DbType DEF Makes, f
  <1>9. Effect(op) => fields = db.fields
    BY <1>1, <1>6, <1>7 DEF Effect, f
  <1>10. QED
    BY <1>1, <1>4, <1>8, <1>9 DEF Served

LEMMA ArchiveOfMemberServes ==
    ASSUME TypeOK, Inv, NEW i \in Id, ArchiveOfMember(i)
    PROVE  Served(i)
  <1> DEFINE op == job[i].op
             members == [c \in Code |->
                            IF c \in op.codes
                            THEN IF op.flag THEN "archived" ELSE "active"
                            ELSE db.members[c]]
  <1>1. op \in Op /\ job[i].pc = "sent" /\ op.kind = "archiveMember"
        /\ Commits(i, db.fields, members)
    BY DEF ArchiveOfMember, TypeOK, JobRec
  <1>2. op.codes \in SUBSET Code
    BY <1>1 DEF Op
  <1>3. /\ members \in [Code -> {"none", "active", "archived"}]
        /\ \A c \in op.codes :
              members[c] = IF op.flag THEN "archived" ELSE "active"
        /\ \A c \in Code \ op.codes : members[c] = db.members[c]
    BY <1>2, DbType
  <1>4. ASSUME \A c \in op.codes :
                  db.members[c] = IF op.flag THEN "archived" ELSE "active"
        PROVE  members = db.members
    BY <1>2, <1>4, DbType
  <1> HIDE DEF members
  <1>5. Makes(op, db.fields, members)
    BY <1>1, <1>2, <1>3, DbType DEF Makes
  <1>6. Effect(op) => members = db.members
    BY <1>1, <1>4 DEF Effect
  <1>7. QED
    BY <1>1, <1>5, <1>6 DEF Served

LEMMA ReorderServes ==
    ASSUME TypeOK, Inv, NEW i \in Id, ReorderCommits(i)
    PROVE  Served(i)
  <1> DEFINE op == job[i].op  ids == op.ids
             Place(f) == CHOOSE n \in DOMAIN ids : ids[n] = f
             fields == [f \in Field |->
                           IF f \in ToSet(ids)
                           THEN [db.fields[f] EXCEPT !.order = Place(f)]
                           ELSE db.fields[f]]
  <1>1. GoodOp(op, job[i].slot) /\ op \in Op /\ job[i].pc = "rows"
        /\ op.kind = "reorder" /\ Commits(i, fields, db.members)
    BY DEF ReorderCommits, Inv, JobOK, TypeOK, JobRec
  <1>2. PICK k \in 0 .. Fields : ids \in [1 .. k -> Field] /\ DOMAIN ids = 1 .. k
    BY <1>1, ListLen DEF Op
  <1>3. \A n \in DOMAIN ids : Place(ids[n]) = n
    BY <1>1 DEF GoodOp
  <1>4. ToSet(ids) = {ids[n] : n \in DOMAIN ids}
    BY DEF ToSet
  <1>5. ASSUME NEW f \in Field
        PROVE  /\ fields[f] \in FieldRec /\ fields[f].state = db.fields[f].state
               /\ f \in ToSet(ids) => fields[f].order = Place(f)
               /\ f \in ToSet(ids) /\ db.fields[f].order = Place(f) =>
                     fields[f] = db.fields[f]
               /\ f \notin ToSet(ids) => fields[f] = db.fields[f]
    <2>1. db.fields[f] \in FieldRec
      BY DbType
    <2>2. f \in ToSet(ids) => Place(f) \in Nat
      BY <1>2, <1>3, <1>4
    <2> HIDE DEF Place
    <2>3. QED
      BY <2>1, <2>2 DEF FieldRec
  <1>6. \A n \in DOMAIN ids : ids[n] \in Field /\ ids[n] \in ToSet(ids)
    BY <1>2, <1>4
  <1>7. fields \in [Field -> FieldRec]
    <2>1. fields = [f \in Field |-> fields[f]]
      OBVIOUS
    <2> HIDE DEF fields
    <2>2. QED
      BY <1>5, <2>1
  <1>8. ASSUME \A n \in DOMAIN ids : db.fields[ids[n]].order = n
        PROVE  fields = db.fields
    <2>1. ASSUME NEW f \in Field PROVE fields[f] = db.fields[f]
      <3>1. ASSUME NEW n \in DOMAIN ids, f = ids[n]
            PROVE  f \in ToSet(ids) /\ db.fields[f].order = Place(f)
        BY <1>3, <1>6, <1>8, <3>1
      <3> HIDE DEF Place, fields
      <3>2. CASE f \in ToSet(ids)
        BY <1>4, <1>5, <3>1, <3>2
      <3>3. QED
        BY <1>5, <3>2
    <2> HIDE DEF fields
    <2>2. QED
      BY <1>7, <2>1, DbType
  <1> HIDE DEF fields, Place
  <1>9. \A n \in DOMAIN ids : fields[ids[n]].order = n
    BY <1>3, <1>5, <1>6
  <1>10. Makes(op, fields, db.members)
    BY <1>1, <1>5, <1>7, <1>9, DbType DEF Makes
  <1>11. Effect(op) => fields = db.fields
    BY <1>1, <1>8 DEF Effect
  <1>12. QED
    BY <1>1, <1>10, <1>11 DEF Served

LEMMA InsertServes ==
    ASSUME TypeOK, Inv, NEW i \in Id, Insert(i)
    PROVE  Ends(i, "failed") \/ Served(i)
  <1> DEFINE op == job[i].op  f == op.ids[1]
             new == [state |-> "active", required |-> op.flag,
                     order |-> job[i].last + 1]
             fields == [g \in Field |-> IF op.kind = "add" /\ g = f THEN new
                                        ELSE db.fields[g]]
             members == [c \in Code |-> IF c \in op.codes THEN "active"
                                        ELSE db.members[c]]
  <1> SUFFICES ASSUME ~Exists(op), Commits(i, fields, members)
               PROVE  Served(i)
    BY DEF Insert
  <1>1. GoodOp(op, job[i].slot) /\ op \in Op /\ job[i].pc = "looked"
        /\ op.kind \in {"add", "save", "import"} /\ job[i].last \in Nat
    BY DEF Insert, Inv, JobOK, TypeOK, JobRec
  <1>2. op.flag \in BOOLEAN /\ op.codes \in SUBSET Code
    BY <1>1 DEF Op
  <1>3. new \in FieldRec /\ new.state = "active"
    BY <1>1, <1>2 DEF FieldRec
  <1> HIDE DEF new
  <1>4. /\ fields \in [Field -> FieldRec]
        /\ op.kind = "add" /\ f \in Field => fields[f] = new
        /\ \A g \in Field : g = f \/ fields[g] = db.fields[g]
        /\ op.kind # "add" => \A g \in Field : fields[g] = db.fields[g]
    BY <1>3, DbType
  <1>5. /\ members \in [Code -> {"none", "active", "archived"}]
        /\ \A c \in op.codes : members[c] = "active"
        /\ \A c \in Code \ op.codes : members[c] = db.members[c]
    BY <1>2, DbType
  <1> HIDE DEF fields, members
  <1>6. op.kind = "add" => f \in Field /\ db.fields[f].state = "none" /\ op.codes = {}
    BY <1>1 DEF GoodOp, Exists
  <1>7. Makes(op, fields, members)
    BY <1>1, <1>2, <1>3, <1>4, <1>5, <1>6, DbType DEF Makes
  <1>8. ~Effect(op)
    BY <1>1 DEF Effect
  <1>9. QED
    BY <1>1, <1>7, <1>8 DEF Served

-----------------------------------------------------------------------------
LEMMA Steps ==
    ASSUME TypeOK, Inv, Next
    PROVE  \/ TypeOK' /\ Inv' /\ UNCHANGED <<db, past>>
           \/ \E i \in Id : Served(i)
  <1>1. CASE Click
    <2>1. \A s, op : Send(s, op) => db' = db /\ past' = past
      BY DEF Send
    <2>2. \A t, f : ToggleRequired(t, f) => db' = db /\ past' = past
      BY <2>1, Zenon DEF ToggleRequired
    <2>3. \A t, f : ArchiveOrRestore(t, f) => db' = db /\ past' = past
      BY <2>1, Zenon DEF ArchiveOrRestore
    <2>4. \A t, f : AddField(t, f) => db' = db /\ past' = past
      BY <2>1, Zenon DEF AddField
    <2>5. \A t, list, f : move(t, list, f) => db' = db /\ past' = past
      BY <2>1, Zenon DEF move
    <2>6. \A t : ArchiveMember(t) => db' = db /\ past' = past
      BY <2>1, Zenon DEF ArchiveMember
    <2>7. \A t, c : SaveMember(t, c) => db' = db /\ past' = past
      BY <2>1, Zenon DEF SaveMember
    <2>8. \A t, codes : onFile(t, codes) => db' = db /\ past' = past
      BY Zenon DEF onFile
    <2>9. \A t, dryRun : run(t, dryRun) => db' = db /\ past' = past
      BY <2>1, Zenon DEF run
    <2>10. db' = db /\ past' = past
      BY <1>1, <2>2, <2>3, <2>4, <2>5, <2>6, <2>7, <2>8, <2>9, Zenon DEF Click
    <2>11. QED
      BY <1>1, <2>10, ClickKeeps
  <1>2. ASSUME NEW i \in Id, Answered(i)
        PROVE  TypeOK' /\ Inv' /\ UNCHANGED <<db, past>>
    BY <1>2, AnsweredKeeps DEF Answered
  <1>3. ASSUME NEW s \in Slot, Break(s)
        PROVE  TypeOK' /\ Inv' /\ UNCHANGED <<db, past>>
    BY <1>3, BreakKeeps DEF Break
  <1>4. ASSUME NEW t \in Tab, Refreshed(t)
        PROVE  TypeOK' /\ Inv' /\ UNCHANGED <<db, past>>
    BY <1>4, RefreshedKeeps DEF Refreshed
  <1>5. ASSUME NEW i \in Id, ReorderBegins(i) \/ ReorderRow(i) \/ ReorderFails(i)
        PROVE  TypeOK' /\ Inv' /\ UNCHANGED <<db, past>>
    BY <1>5, ServingKeeps DEF ReorderBegins, ReorderRow, ReorderFails, Ends
  <1>6. ASSUME NEW i \in Id, Look(i)
        PROVE  TypeOK' /\ Inv' /\ UNCHANGED <<db, past>>
    BY <1>6, LookKeeps DEF Look, Ends
  <1>7. ASSUME NEW i \in Id, Insert(i), Ends(i, "failed")
        PROVE  TypeOK' /\ Inv' /\ UNCHANGED <<db, past>>
    BY <1>7, EndsKeeps DEF Insert, Ends
  <1>8. ASSUME NEW i \in Id,
               Update(i) \/ Archive(i) \/ ArchiveOfMember(i) \/ ReorderCommits(i)
        PROVE  Served(i)
    BY <1>8, UpdateServes, ArchiveServes, ArchiveOfMemberServes, ReorderServes
  <1>9. QED
    BY <1>1, <1>2, <1>3, <1>4, <1>5, <1>6, <1>7, <1>8, InsertServes DEF Next, Serve

LEMMA InvNext == TypeOK /\ Inv /\ [Next]_vars => TypeOK' /\ Inv'
  <1> SUFFICES ASSUME TypeOK, Inv, [Next]_vars PROVE TypeOK' /\ Inv'
    OBVIOUS
  <1>1. CASE Next
    BY <1>1, Steps, CommitKeeps DEF Served
  <1>2. CASE UNCHANGED vars
    <2>1. TypeOK'
      BY <1>2 DEF vars, TypeOK
    <2>2. QED
      BY <1>2, <2>1, QuietKeeps DEF vars, Inv
  <1>3. QED
    BY <1>1, <1>2

LEMMA Always == Spec => [](TypeOK /\ Inv)
  BY TypeInit, InvInit, InvNext, PTL DEF Spec

\* The types of the variables, for any number of fields, tabs and clicks: what
\* screens show and requests carry are fields and members of the organization.
THEOREM TypeCorrect == Spec => []TypeOK
  BY Always, PTL

\* "One transaction: a partial reorder would leave the form in an order nobody
\* chose" (field-definitions.service.ts:168): the fields of the list committed
\* last stay in its order, whatever other lists are under way, and whatever is
\* added, archived and restored.
THEOREM ReorderingsAreWhole == Spec => []ReorderIsWhole
  <1>1. TypeOK /\ Inv => ReorderIsWhole
    BY DEF Inv, OrderOK, ReorderIsWhole
  <1>2. QED
    BY <1>1, Always, PTL

\* The unique indexes have the last word (field-definitions.service.ts:93-113,
\* members.service.ts:177-186): no two requests create the same field or
\* member, and a wizard that has left for the list has created its rows itself.
THEOREM CreatedByOne == Spec => []CreatedOnce
  <1>1. TypeOK /\ Inv => CreatedOnce
    BY DEF Inv, MadeOK, ScreenOK, Made, CreatedOnce, Tab
  <1>2. QED
    BY <1>1, Always, PTL

\* The screens send what a row is to become, not that it is to change
\* (field-manager.tsx:18-35, 59-96): a request served twice, with no other
\* change in between, changes nothing the second time.
THEOREM RetriesAreHarmless == Spec => RetryIsHarmless
  <1>1. TypeOK /\ Inv /\ [Next]_vars => [past'.op = past.op => db' = db]_<<db, past>>
    <2> SUFFICES ASSUME TypeOK, Inv, [Next]_vars, past'.op = past.op PROVE db' = db
      OBVIOUS
    <2>1. CASE UNCHANGED vars \/ UNCHANGED <<db, past>>
      BY <2>1 DEF vars
    <2>2. ASSUME NEW i \in Id, Served(i)
          PROVE  db' = db
      <3>1. PICK fields, members :
               /\ Commits(i, fields, members)
               /\ Effect(job[i].op) => fields = db.fields /\ members = db.members
        BY <2>2 DEF Served
      <3>2. past'.op = job[i].op /\ db' = [fields |-> fields, members |-> members]
        BY <3>1 DEF Commits
      <3>3. Effect(job[i].op)
        BY <3>2 DEF Inv
      <3>4. QED
        BY <3>1, <3>2, <3>3, DbType
    <2>3. QED
      BY <2>1, <2>2, Steps
  <1>2. QED
    BY <1>1, Always, PTL DEF Spec, RetryIsHarmless
=============================================================================
