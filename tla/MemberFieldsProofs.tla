------------------------- MODULE MemberFieldsProofs -------------------------
(***************************************************************************)
(* Theorems about MemberFields, for every set of fields, members, codes    *)
(* and values, any number of overlapping writes and imports, and files of  *)
(* any length: what is stored fits its field, an import is whole or        *)
(* nothing, and what is required is there.                                 *)
(***************************************************************************)
EXTENDS MemberFields, TLAPS

\* A file or what was made of it, by the number of its rows.
LEMMA LenOf ==
    ASSUME NEW S, NEW n \in Nat, NEW s \in [1 .. n -> S]
    PROVE  Len(s) = n /\ DOMAIN s = 1 .. n
  <1>1. s \in Seq(S)
    OBVIOUS
  <1>2. QED
    BY <1>1

LEMMA SchemaTypes ==
    /\ Blank \in Attributes /\ NoField \in Definition
    /\ NoWrite \in Write /\ NoImport \in Import
    /\ NoImport.pc = "idle" /\ NoImport.rows = <<>> /\ NoWrite.pc = "idle"
    /\ NoImport.total = 0 /\ NoImport.must = {}
  <1>1. Blank \in Attributes
    BY DEF Blank, Attributes, Input
  <1>2. NoField \in Definition
    BY DEF NoField, Definition
  <1>3. NoWrite \in Write
    BY <1>1 DEF NoWrite, Write
  <1>4. <<>> \in UNION {[1 .. n -> Entry] : n \in 0 .. MaxRows}
    <2>1. 0 \in 0 .. MaxRows
      BY MemberFieldsAssumption
    <2>2. <<>> \in [1 .. 0 -> Entry]
      OBVIOUS
    <2>3. QED
      BY <2>1, <2>2
  <1>5. NoImport \in Import
    BY <1>2, <1>4, MemberFieldsAssumption DEF NoImport, Import
  <1>6. QED
    BY <1>1, <1>2, <1>3, <1>5 DEF NoImport, NoWrite

LEMMA ParseType ==
    ASSUME NEW schema, NEW input \in Attributes
    PROVE  Parse(schema, input) \in Attributes /\ Mapped(input) \in Attributes
  BY DEF Parse, Mapped, Attributes, Input

LEMMA TypeInit == Init => TypeOK
  <1> SUFFICES ASSUME Init PROVE TypeOK
    OBVIOUS
  <1>1. import \in [Importer -> Import] /\ \A i \in Importer : import[i].rows = <<>>
    BY SchemaTypes DEF Init
  <1>2. \A i \in Importer : DOMAIN import[i].rows = {}
    BY <1>1
  <1>3. QED
    BY <1>1, <1>2, SchemaTypes DEF Init, TypeOK

-----------------------------------------------------------------------------
(* What one step does.                                                     *)

\* A field that is there stays, with its type.
FieldsStay == \A k \in Key : fields[k].state # "none" =>
                 fields'[k].state # "none" /\ fields'[k].type = fields[k].type

Validated(w) ==
    /\ write'[w].pc # "idle" /\ write'[w].code \in Code
    /\ write'[w].must = Required(fields)
    /\ \E input \in Attributes :
          Valid(fields, input) /\ write'[w].attrs = Parse(fields, input)

WriteMoves(w) == \/ write'[w] = write[w]
                 \/ write'[w] = NoWrite
                 \/ Validated(w)

ReadsSchema(i) ==
    /\ import'[i].pc = "keys" /\ import'[i].rows = <<>> /\ import'[i].total = 0
    /\ import'[i].schema = fields /\ import'[i].must = Required(fields)

Parses(i) ==
    /\ import[i].pc = "keys" /\ import'[i].pc = "lookup"
    /\ import'[i].must = import[i].must
    /\ \E file \in File :
          /\ \A n \in DOMAIN file : GoodRow(import[i].schema, file, n)
          /\ import'[i].rows = Entries(import[i].schema, file)
          /\ import'[i].total = Len(file)

LooksUp(i) ==
    /\ import[i].pc = "lookup" /\ import'[i].pc = "commit"
    /\ import'[i].must = import[i].must /\ import'[i].total = import[i].total
    /\ import'[i].rows = [n \in DOMAIN import[i].rows |->
          [import[i].rows[n] EXCEPT !.id = IdOf(import[i].rows[n].code)]]
    /\ UNCHANGED members

ImportMoves(i) == \/ import'[i] = import[i]
                  \/ import'[i] = NoImport
                  \/ ReadsSchema(i)
                  \/ Parses(i)
                  \/ LooksUp(i)

OnlyWriter(w) ==
    import' = import /\ \A v \in Writer \ {w} : write'[v] = write[v]
OnlyImporter(i) ==
    write' = write /\ \A j \in Importer \ {i} : import'[j] = import[j]

\* Where the attributes a member gets come from: the one request that moves.
MemberMoves(m) ==
    /\ code'[m] = code[m] \/ code'[m] \in Code
    /\ \/ attrs'[m] = attrs[m]
       \/ \E w \in Writer : /\ OnlyWriter(w) /\ write[w].pc # "idle"
                            /\ attrs'[m] = write[w].attrs
       \/ \E i \in Importer :
             /\ OnlyImporter(i) /\ import[i].pc = "commit"
             /\ \E n \in DOMAIN import[i].rows :
                   attrs'[m] = import[i].rows[n].attrs

StepFacts == /\ FieldsStay
             /\ \A w \in Writer : WriteMoves(w)
             /\ \A i \in Importer : ImportMoves(i)
             /\ \A m \in Member : MemberMoves(m)

\* A write past its validation has a code to write.
CodedInv == \A w \in Writer : write[w].pc # "idle" => write[w].code \in Code

LEMMA FieldFacts ==
    ASSUME TypeOK, NEW k \in Key, FieldStep(k)
    PROVE  TypeOK' /\ CodedInv' = CodedInv /\ StepFacts
  <1> USE DEF members
  <1>1. ASSUME NEW d \in Definition, Define(k, d),
               fields[k].state # "none" =>
                   d.state # "none" /\ d.type = fields[k].type
        PROVE  TypeOK' /\ CodedInv' = CodedInv /\ StepFacts
    BY <1>1 DEF Define, TypeOK, CodedInv, StepFacts, FieldsStay, WriteMoves,
                ImportMoves, MemberMoves
  <1>2. CASE \E d \in Definition : FieldCreate(k, d)
    BY <1>1, <1>2 DEF FieldCreate
  <1>3. fields[k] \in Definition
    BY DEF TypeOK
  <1>4. ASSUME NEW required \in BOOLEAN, NEW options \in SUBSET Option,
               FieldUpdate(k, required, options)
        PROVE  TypeOK' /\ CodedInv' = CodedInv /\ StepFacts
    <2> DEFINE d == [fields[k] EXCEPT !.required = required, !.options = options]
    <2>1. d \in Definition /\ d.state = fields[k].state /\ d.type = fields[k].type
      BY <1>3 DEF Definition
    <2>2. Define(k, d) /\ fields[k].state # "none"
      BY <1>4 DEF FieldUpdate
    <2> HIDE DEF d
    <2>3. QED
      BY <1>1, <2>1, <2>2
  <1>5. CASE FieldArchive(k)
    <2> DEFINE d == [fields[k] EXCEPT !.state = "archived", !.required = FALSE]
    <2>1. d \in Definition /\ d.state = "archived" /\ d.type = fields[k].type
      BY <1>3 DEF Definition
    <2>2. Define(k, d)
      BY <1>5 DEF FieldArchive
    <2> HIDE DEF d
    <2>3. QED
      BY <1>1, <2>1, <2>2
  <1>6. CASE FieldRestore(k)
    <2> DEFINE d == [fields[k] EXCEPT !.state = "active"]
    <2>1. d \in Definition /\ d.state = "active" /\ d.type = fields[k].type
      BY <1>3 DEF Definition
    <2>2. Define(k, d)
      BY <1>6 DEF FieldRestore
    <2> HIDE DEF d
    <2>3. QED
      BY <1>1, <2>1, <2>2
  <1>7. QED
    BY <1>2, <1>4, <1>5, <1>6 DEF FieldStep

LEMMA WriteFacts ==
    ASSUME TypeOK, CodedInv, NEW w \in Writer, WriteStep(w)
    PROVE  TypeOK' /\ CodedInv' /\ StepFacts
  <1> USE DEF members
  <1>1. fields' = fields /\ import' = import
    BY DEF WriteStep, Validate, CreateMember, UpdateMember, WriteRefused
  <1>2. FieldsStay /\ \A i \in Importer : ImportMoves(i)
    BY <1>1 DEF FieldsStay, ImportMoves
  <1>3. ASSUME NEW m \in {n \in Member : code[n] # NoCode} \union {NoMember},
               NEW c \in Code, NEW input \in Attributes, Validate(w, m, c, input)
        PROVE  TypeOK' /\ CodedInv' /\ StepFacts
    <2> DEFINE n == [pc |-> IF m = NoMember THEN "create" ELSE "update",
                     member |-> m, code |-> c, attrs |-> Parse(fields, input),
                     must |-> Required(fields)]
    <2>1. /\ n \in Write /\ n.pc # "idle" /\ n.code = c /\ n.must = Required(fields)
          /\ n.attrs = Parse(fields, input)
      BY ParseType DEF Write, Required, Active
    <2>2. write' = [write EXCEPT ![w] = n] /\ UNCHANGED members /\ Valid(fields, input)
      BY <1>3 DEF Validate
    <2> HIDE DEF n
    <2>3. write' \in [Writer -> Write] /\ write'[w] = n
          /\ \A v \in Writer \ {w} : write'[v] = write[v]
      BY <2>1, <2>2 DEF TypeOK
    <2>4. Validated(w)
      BY <2>1, <2>2, <2>3 DEF Validated
    <2>5. StepFacts
      BY <1>2, <2>2, <2>3, <2>4 DEF StepFacts, WriteMoves, MemberMoves
    <2>6. CodedInv'
      BY <2>1, <2>3 DEF CodedInv
    <2>7. QED
      BY <1>1, <2>2, <2>3, <2>5, <2>6 DEF TypeOK
  <1>4. ASSUME Answer(w)
        PROVE  /\ write' \in [Writer -> Write] /\ CodedInv'
               /\ (\A v \in Writer : WriteMoves(v)) /\ OnlyWriter(w)
    BY <1>1, <1>4, SchemaTypes
       DEF Answer, TypeOK, CodedInv, WriteMoves, OnlyWriter
  <1>5. ASSUME NEW m \in Member, write[w].pc # "idle", OnlyWriter(w),
               code' = [code EXCEPT ![m] = write[w].code],
               attrs' = [attrs EXCEPT ![m] = write[w].attrs]
        PROVE  /\ code' \in [Member -> Code \union {NoCode}]
               /\ attrs' \in [Member -> Attributes]
               /\ \A n \in Member : MemberMoves(n)
    BY <1>5 DEF TypeOK, Write, MemberMoves, CodedInv
  <1>6. ASSUME NEW m \in Member, CreateMember(w, m)
        PROVE  TypeOK' /\ CodedInv' /\ StepFacts
    BY <1>1, <1>2, <1>4, <1>5, <1>6 DEF CreateMember, StepFacts, TypeOK
  <1>7. CASE UpdateMember(w)
    <2>1. CASE write[w].member \in Member
      BY <1>1, <1>2, <1>4, <1>5, <1>7, <2>1 DEF UpdateMember, StepFacts, TypeOK
    <2>2. CASE write[w].member \notin Member
      <3>1. UNCHANGED members
        BY <1>7, <2>2 DEF UpdateMember, TypeOK
      <3>2. QED
        BY <1>1, <1>2, <1>4, <1>7, <3>1
           DEF UpdateMember, StepFacts, TypeOK, MemberMoves
    <2>3. QED
      BY <2>1, <2>2
  <1>8. CASE WriteRefused(w)
    BY <1>1, <1>2, <1>4, <1>8 DEF WriteRefused, StepFacts, TypeOK, MemberMoves
  <1>9. QED
    BY <1>3, <1>6, <1>7, <1>8 DEF WriteStep

\* The rows made of a file: one for each of its rows, with the same code.
LEMMA EntriesType ==
    ASSUME NEW schema, NEW file \in File
    PROVE  /\ Len(file) \in 0 .. MaxRows /\ DOMAIN file = 1 .. Len(file)
           /\ Entries(schema, file) \in [1 .. Len(file) -> Entry]
           /\ \A n \in DOMAIN file :
                 /\ file[n].input \in Attributes /\ file[n].code \in Code
                 /\ Entries(schema, file)[n].code = file[n].code
                 /\ Entries(schema, file)[n].id = NoMember
                 /\ Entries(schema, file)[n].attrs =
                       Parse(schema, Mapped(file[n].input))
  <1>1. PICK k \in 1 .. MaxRows : file \in [1 .. k -> [code : Code, input : Attributes]]
    BY DEF File
  <1>2. Len(file) = k /\ DOMAIN file = 1 .. k /\ k \in 0 .. MaxRows
    BY <1>1, LenOf, MemberFieldsAssumption
  <1>3. ASSUME NEW n \in 1 .. k
        PROVE  /\ file[n].input \in Attributes /\ file[n].code \in Code
               /\ [code |-> file[n].code,
                   attrs |-> Parse(schema, Mapped(file[n].input)),
                   id |-> NoMember] \in Entry
    <2>1. file[n] \in [code : Code, input : Attributes]
      BY <1>1
    <2>2. file[n].input \in Attributes /\ file[n].code \in Code
      BY <2>1
    <2>3. Parse(schema, Mapped(file[n].input)) \in Attributes
      BY <2>2, ParseType
    <2>4. QED
      BY <2>2, <2>3 DEF Entry
  <1>4. QED
    BY <1>2, <1>3 DEF Entries

\* The codes of the rows of an import differ from each other.
Distinct(rows) == \A n, p \in DOMAIN rows : rows[n].code = rows[p].code => n = p

LEMMA GoodRowsDistinct ==
    ASSUME NEW schema, NEW file \in File,
           \A n \in DOMAIN file : GoodRow(schema, file, n)
    PROVE  Distinct(Entries(schema, file))
  <1> DEFINE rows == Entries(schema, file)
  <1>1. DOMAIN rows = DOMAIN file /\ DOMAIN file = 1 .. Len(file) /\ Len(file) \in Nat
    BY EntriesType DEF Entries
  <1>2. \A n \in DOMAIN file : rows[n].code = file[n].code
    BY EntriesType
  <1> HIDE DEF rows
  <1>3. ASSUME NEW n \in DOMAIN file, NEW p \in DOMAIN file, p < n
        PROVE  file[p].code # file[n].code
    BY <1>1, <1>3 DEF GoodRow
  <1>4. \A n, p \in DOMAIN file : n < p \/ p < n \/ n = p
    BY <1>1
  <1>5. Distinct(rows)
    BY <1>1, <1>2, <1>3, <1>4 DEF Distinct
  <1>6. QED
    BY <1>5 DEF rows

\* The rows once the members that have their codes were looked up.
Found(rows) == [n \in DOMAIN rows |-> [rows[n] EXCEPT !.id = IdOf(rows[n].code)]]

LEMMA FoundType ==
    ASSUME NEW k \in Nat, NEW rows \in [1 .. k -> Entry]
    PROVE  /\ Found(rows) \in [1 .. k -> Entry] /\ DOMAIN Found(rows) = DOMAIN rows
           /\ \A n \in DOMAIN rows : /\ Found(rows)[n].code = rows[n].code
                                     /\ Found(rows)[n].attrs = rows[n].attrs
                                     /\ Found(rows)[n].id = IdOf(rows[n].code)
  <1>1. \A c : IdOf(c) \in Member \union {NoMember}
    BY DEF IdOf
  <1>2. ASSUME NEW n \in 1 .. k
        PROVE  LET e == [rows[n] EXCEPT !.id = IdOf(rows[n].code)] IN
               /\ e \in Entry /\ e.code = rows[n].code /\ e.attrs = rows[n].attrs
               /\ e.id = IdOf(rows[n].code)
    BY <1>1 DEF Entry
  <1>3. QED
    BY <1>2 DEF Found

\* The rows of an import, by their number.
LEMMA RowsType ==
    ASSUME TypeOK, NEW i \in Importer
    PROVE  \E k \in 0 .. MaxRows : /\ import[i].rows \in [1 .. k -> Entry]
                                   /\ Len(import[i].rows) = k
                                   /\ DOMAIN import[i].rows = 1 .. k
  <1>1. import[i].rows \in UNION {[1 .. n -> Entry] : n \in 0 .. MaxRows}
    <2>1. import[i] \in Import
      BY DEF TypeOK
    <2>2. QED
      BY <2>1 DEF Import
  <1>2. PICK k \in 0 .. MaxRows : import[i].rows \in [1 .. k -> Entry]
    BY <1>1
  <1>3. k \in Nat
    BY MemberFieldsAssumption
  <1>4. QED
    BY <1>2, <1>3, LenOf

\* An import's record is replaced.
LEMMA ImportType ==
    ASSUME TypeOK, NEW i \in Importer, NEW n \in Import, Distinct(n.rows),
           import' = [import EXCEPT ![i] = n]
    PROVE  /\ import' \in [Importer -> Import] /\ import'[i] = n
           /\ \A j \in Importer \ {i} : import'[j] = import[j]
           /\ \A j \in Importer : Distinct(import'[j].rows)
  BY DEF TypeOK, Distinct

LEMMA StopType ==
    ASSUME TypeOK, NEW i \in Importer, Stop(i)
    PROVE  /\ import' \in [Importer -> Import] /\ import'[i] = NoImport
           /\ \A j \in Importer \ {i} : import'[j] = import[j]
           /\ \A j \in Importer : Distinct(import'[j].rows)
  <1>1. Distinct(NoImport.rows)
    BY SchemaTypes DEF Distinct
  <1>2. QED
    BY <1>1, SchemaTypes, ImportType DEF Stop

LEMMA ReadingFacts ==
    ASSUME TypeOK, CodedInv, NEW i \in Importer,
           \/ ImportSchema(i)
           \/ \E file \in File : ImportParse(i, file)
           \/ \E update \in BOOLEAN : ImportLookup(i, update)
           \/ ImportRollback(i)
    PROVE  TypeOK' /\ CodedInv' /\ StepFacts
  <1> USE DEF members
  <1>1. UNCHANGED <<fields, members, write>>
    BY DEF ImportSchema, ImportParse, ImportLookup, ImportRollback
  <1>2. FieldsStay /\ (\A w \in Writer : WriteMoves(w)) /\ CodedInv'
        /\ \A m \in Member : MemberMoves(m)
    BY <1>1 DEF FieldsStay, WriteMoves, CodedInv, MemberMoves
  <1>3. import[i] \in Import
    BY DEF TypeOK
  <1>4. ASSUME NEW n \in Import, Distinct(n.rows),
               import' = [import EXCEPT ![i] = n],
               import'[i] = n => ImportMoves(i)
        PROVE  TypeOK' /\ CodedInv' /\ StepFacts
    <2>1. /\ import' \in [Importer -> Import] /\ import'[i] = n
          /\ \A j \in Importer \ {i} : import'[j] = import[j]
          /\ \A j \in Importer : Distinct(import'[j].rows)
      BY <1>4, ImportType
    <2>2. \A j \in Importer : ImportMoves(j)
      BY <1>4, <2>1 DEF ImportMoves
    <2>3. QED
      BY <1>1, <1>2, <2>1, <2>2 DEF TypeOK, StepFacts, Distinct
  <1>5. ASSUME Stop(i)
        PROVE  TypeOK' /\ CodedInv' /\ StepFacts
    <2>1. \A j \in Importer : ImportMoves(j)
      BY <1>5, StopType DEF ImportMoves
    <2>2. QED
      BY <1>1, <1>2, <1>5, <2>1, StopType DEF TypeOK, StepFacts, Distinct
  <1>6. CASE ImportSchema(i)
    <2> DEFINE n == [NoImport EXCEPT !.pc = "keys", !.schema = fields,
                                     !.must = Required(fields)]
    <2>1. /\ n \in Import /\ n.pc = "keys" /\ n.rows = <<>> /\ n.total = 0
          /\ n.schema = fields /\ n.must = Required(fields)
      BY SchemaTypes DEF Import, NoImport, TypeOK, Required, Active
    <2>2. import' = [import EXCEPT ![i] = n]
      BY <1>6 DEF ImportSchema
    <2> HIDE DEF n
    <2>3. Distinct(n.rows)
      BY <2>1 DEF Distinct
    <2>4. import'[i] = n => ImportMoves(i)
      BY <2>1 DEF ImportMoves, ReadsSchema
    <2>5. QED
      BY <1>4, <2>1, <2>2, <2>3, <2>4
  <1>7. ASSUME NEW file \in File, ImportParse(i, file)
        PROVE  TypeOK' /\ CodedInv' /\ StepFacts
    <2> DEFINE s == import[i].schema
               n == [import[i] EXCEPT !.pc = "lookup", !.total = Len(file),
                                      !.schema = NoImport.schema,
                                      !.rows = Entries(s, file)]
    <2>1. CASE Stop(i)
      BY <1>5, <2>1
    <2>2. CASE /\ import' = [import EXCEPT ![i] = n] /\ import[i].pc = "keys"
               /\ \A p \in DOMAIN file : GoodRow(s, file, p)
      <3>1. /\ n.pc = "lookup" /\ n.total = Len(file) /\ n.rows = Entries(s, file)
            /\ n.must = import[i].must
        BY <1>3 DEF Import
      <3>2. n \in Import
        <4>1. Len(file) \in 0 .. MaxRows /\ Entries(s, file) \in [1 .. Len(file) -> Entry]
          BY EntriesType
        <4>2. Entries(s, file) \in UNION {[1 .. p -> Entry] : p \in 0 .. MaxRows}
          BY <4>1
        <4>3. NoImport.schema \in [Key -> Definition]
          BY SchemaTypes DEF Import
        <4>4. QED
          BY <1>3, <4>1, <4>2, <4>3 DEF Import
      <3>3. Distinct(n.rows)
        BY <2>2, <3>1, GoodRowsDistinct
      <3> HIDE DEF n
      <3>4. import'[i] = n => ImportMoves(i)
        BY <2>2, <3>1 DEF ImportMoves, Parses
      <3>5. QED
        BY <1>4, <2>2, <3>2, <3>3, <3>4
    <2>3. QED
      BY <1>7, <2>1, <2>2 DEF ImportParse
  <1>8. ASSUME NEW update \in BOOLEAN, ImportLookup(i, update)
        PROVE  TypeOK' /\ CodedInv' /\ StepFacts
    <2> DEFINE rows == import[i].rows
               n == [import[i] EXCEPT !.pc = "commit", !.rows = Found(rows),
                                      !.update = update]
    <2>1. CASE Stop(i)
      BY <1>5, <2>1
    <2>2. CASE import' = [import EXCEPT ![i] = n] /\ import[i].pc = "lookup"
      <3>1. /\ n.pc = "commit" /\ n.total = import[i].total /\ n.rows = Found(rows)
            /\ n.must = import[i].must
        BY <1>3 DEF Import
      <3>2. PICK k \in 0 .. MaxRows : rows \in [1 .. k -> Entry]
        BY RowsType
      <3>3. /\ Found(rows) \in [1 .. k -> Entry] /\ DOMAIN Found(rows) = DOMAIN rows
            /\ \A p \in DOMAIN rows : Found(rows)[p].code = rows[p].code
        BY <3>2, FoundType, MemberFieldsAssumption
      <3>4. n \in Import
        <4>1. Found(rows) \in UNION {[1 .. p -> Entry] : p \in 0 .. MaxRows}
          BY <3>2, <3>3
        <4>2. QED
          BY <1>3, <4>1 DEF Import
      <3>5. Distinct(rows)
        BY DEF Distinct, TypeOK
      <3>6. Distinct(n.rows)
        BY <3>1, <3>3, <3>5 DEF Distinct
      <3> HIDE DEF n
      <3>7. import'[i] = n => ImportMoves(i)
        BY <1>1, <2>2, <3>1 DEF ImportMoves, LooksUp, Found
      <3>8. QED
        BY <1>4, <2>2, <3>4, <3>6, <3>7
    <2>3. QED
      BY <1>8, <2>1, <2>2 DEF ImportLookup, Found
  <1>9. CASE ImportRollback(i)
    BY <1>5, <1>9 DEF ImportRollback
  <1>10. QED
    BY <1>6, <1>7, <1>8, <1>9

\* The row by which ImportAt writes member m.
RowAt(i, at, m) == IF \E n \in New(i) : at[n] = m
                   THEN CHOOSE n \in New(i) : at[n] = m
                   ELSE CHOOSE n \in Old(i) : import[i].rows[n].id = m

LEMMA CommitFacts ==
    ASSUME TypeOK, CodedInv, NEW i \in Importer, ImportCommit(i)
    PROVE  TypeOK' /\ CodedInv' /\ StepFacts
  <1> USE DEF members
  <1> DEFINE rows == import[i].rows
  <1>1. PICK at \in Places(i) : ImportAt(i, at)
    BY DEF ImportCommit
  <1>2. /\ Stop(i) /\ UNCHANGED <<fields, write>> /\ import[i].pc = "commit"
    BY <1>1 DEF ImportAt, ImportCommit
  <1>3. \A n \in DOMAIN rows : rows[n] \in Entry
    BY RowsType
  <1>4. /\ New(i) \subseteq DOMAIN rows /\ Old(i) \subseteq DOMAIN rows
    BY DEF New, Old
  <1>5. /\ code' = [m \in Member |-> IF \E n \in New(i) : at[n] = m
                                     THEN rows[RowAt(i, at, m)].code ELSE code[m]]
        /\ attrs' = [m \in Member |->
               IF m \in {at[n] : n \in New(i)} \union {rows[n].id : n \in Old(i)}
               THEN rows[RowAt(i, at, m)].attrs ELSE attrs[m]]
    BY <1>1 DEF ImportAt, RowAt
  <1>6. ASSUME NEW m \in Member,
               m \in {at[n] : n \in New(i)} \union {rows[n].id : n \in Old(i)}
        PROVE  RowAt(i, at, m) \in DOMAIN rows
    BY <1>4, <1>6 DEF RowAt
  <1>7. \A m \in Member : /\ code'[m] \in Code \union {NoCode}
                          /\ attrs'[m] \in Attributes
                          /\ MemberMoves(m)
    <2> SUFFICES ASSUME NEW m \in Member
                 PROVE  /\ code'[m] \in Code \union {NoCode}
                        /\ attrs'[m] \in Attributes
                        /\ MemberMoves(m)
      OBVIOUS
    <2>1. code[m] \in Code \union {NoCode} /\ attrs[m] \in Attributes
      BY DEF TypeOK
    <2>2. code'[m] = code[m] \/ code'[m] \in Code
      BY <1>3, <1>5, <1>6 DEF Entry
    <2>3. \/ attrs'[m] = attrs[m]
          \/ \E n \in DOMAIN rows : attrs'[m] = rows[n].attrs
      BY <1>5, <1>6
    <2>4. OnlyImporter(i)
      BY <1>2, StopType DEF OnlyImporter
    <2>5. QED
      BY <1>2, <1>3, <2>1, <2>2, <2>3, <2>4 DEF MemberMoves, Entry
  <1>8. \A j \in Importer : ImportMoves(j)
    BY <1>2, StopType DEF ImportMoves
  <1>9. FieldsStay /\ (\A w \in Writer : WriteMoves(w)) /\ CodedInv'
    BY <1>2 DEF FieldsStay, WriteMoves, CodedInv
  <1>10. TypeOK'
    <2>1. code' \in [Member -> Code \union {NoCode}] /\ attrs' \in [Member -> Attributes]
      BY <1>5, <1>7
    <2>2. QED
      BY <1>2, <2>1, StopType DEF TypeOK, Distinct
  <1>11. QED
    BY <1>7, <1>8, <1>9, <1>10 DEF StepFacts

LEMMA NextFacts ==
    ASSUME TypeOK, CodedInv, [Next]_vars
    PROVE  TypeOK' /\ CodedInv' /\ StepFacts
  <1>1. CASE UNCHANGED vars
    BY <1>1 DEF vars, members, TypeOK, CodedInv, StepFacts, FieldsStay,
                WriteMoves, ImportMoves, MemberMoves
  <1>2. ASSUME NEW k \in Key, FieldStep(k)
        PROVE  TypeOK' /\ CodedInv' /\ StepFacts
    BY <1>2, FieldFacts
  <1>3. ASSUME NEW i \in Importer, ImportStep(i)
        PROVE  TypeOK' /\ CodedInv' /\ StepFacts
    BY <1>3, ReadingFacts, CommitFacts DEF ImportStep
  <1>4. QED
    BY <1>1, <1>2, <1>3, WriteFacts DEF Next

TypeInv == TypeOK /\ CodedInv

LEMMA TypeAlways == Spec => []TypeInv
  <1>1. Init => TypeInv
    BY TypeInit DEF Init, NoWrite, CodedInv, TypeInv
  <1>2. TypeInv /\ [Next]_vars => TypeInv'
    BY NextFacts DEF TypeInv
  <1>3. QED
    BY <1>1, <1>2, PTL DEF Spec

\* Every variable keeps its type, and no two rows of a file that is about to be
\* written have the same code (member-import.service.ts:93-118), for files of
\* any length.
THEOREM TypeCorrect == Spec => []TypeOK
  <1>1. TypeInv => TypeOK
    BY DEF TypeInv
  <1>2. QED
    BY <1>1, TypeAlways, PTL

-----------------------------------------------------------------------------
(* What is stored fits its field.                                          *)

Fits(v, k) == v # NoValue => /\ fields[k].state # "none"
                             /\ fields[k].type = "select" => v \in Option

SchemaHolds(schema) ==
    \A k \in Key : schema[k].state # "none" =>
        fields[k].state # "none" /\ fields[k].type = schema[k].type

\* What is stored, about to be stored or read from a file fits the field it is
\* under, and a schema that an import holds still names fields of its types.
ValuesInv ==
    /\ \A m \in Member, k \in Key : Fits(attrs[m][k], k)
    /\ \A w \in Writer, k \in Key : Fits(write[w].attrs[k], k)
    /\ \A i \in Importer : \A n \in DOMAIN import[i].rows : \A k \in Key :
          Fits(import[i].rows[n].attrs[k], k)
    /\ \A i \in Importer : import[i].pc = "keys" => SchemaHolds(import[i].schema)

\* A payload that a schema lets through fits the fields, if they are still
\* the schema's.
LEMMA ParsedFits ==
    ASSUME NEW schema \in [Key -> Definition], SchemaHolds(schema),
           NEW input, Valid(schema, input), NEW k \in Key
    PROVE  Fits(Parse(schema, input)[k], k)
  <1>1. CASE k \in Active(schema)
    <2>1. Parse(schema, input)[k] = input[k] /\ Accepts(schema[k], input[k])
      BY <1>1 DEF Parse, Valid
    <2>2. schema[k] \in Definition /\ schema[k].state = "active"
      BY <1>1 DEF Active
    <2>3. fields[k].state # "none" /\ fields[k].type = schema[k].type
      BY <2>2 DEF SchemaHolds
    <2>4. schema[k].options \subseteq Option
      BY <2>2 DEF Definition
    <2>5. QED
      BY <2>1, <2>3, <2>4 DEF Fits, Accepts, Allowed
  <1>2. CASE k \notin Active(schema)
    BY <1>2 DEF Parse, Fits
  <1>3. QED
    BY <1>1, <1>2

\* A value that fits fits where a step moves it to.
LEMMA FitsAfter ==
    ASSUME FieldsStay, NEW v, NEW k \in Key, Fits(v, k), NEW u, u = v
    PROVE  /\ u # NoValue => fields'[k].state # "none"
           /\ u # NoValue /\ fields'[k].type = "select" => u \in Option
  BY DEF FieldsStay, Fits

LEMMA BlankFits == \A k \in Key : NoWrite.attrs[k] = NoValue
  BY DEF NoWrite, Blank

LEMMA ValuesStep ==
    ASSUME TypeOK, ValuesInv, StepFacts
    PROVE  ValuesInv'
  <1> USE DEF StepFacts
  <1>1. ASSUME NEW m \in Member, NEW k \in Key
        PROVE  Fits(attrs[m][k], k)'
    <2>1. \/ attrs'[m] = attrs[m]
          \/ \E w \in Writer : attrs'[m] = write[w].attrs
          \/ \E i \in Importer : \E n \in DOMAIN import[i].rows :
                attrs'[m] = import[i].rows[n].attrs
      BY DEF MemberMoves
    <2>2. PICK v : attrs'[m][k] = v /\ Fits(v, k)
      BY <2>1 DEF ValuesInv
    <2>3. QED
      BY <2>2, FitsAfter DEF Fits
  <1>2. ASSUME NEW w \in Writer, NEW k \in Key
        PROVE  Fits(write[w].attrs[k], k)'
    <2>1. CASE write'[w] = write[w]
      <3>1. Fits(write[w].attrs[k], k)
        BY DEF ValuesInv
      <3>2. QED
        BY <2>1, <3>1, FitsAfter DEF Fits
    <2>2. CASE write'[w] = NoWrite
      BY <2>2, BlankFits DEF Fits
    <2>3. CASE Validated(w)
      <3>1. PICK input \in Attributes :
               Valid(fields, input) /\ write'[w].attrs = Parse(fields, input)
        BY <2>3 DEF Validated
      <3>2. Fits(Parse(fields, input)[k], k)
        BY <3>1, ParsedFits DEF SchemaHolds, TypeOK
      <3>3. QED
        BY <3>1, <3>2, FitsAfter DEF Fits
    <2>4. QED
      BY <2>1, <2>2, <2>3 DEF WriteMoves
  <1>3. ASSUME NEW i \in Importer, NEW n \in DOMAIN import'[i].rows, NEW k \in Key
        PROVE  Fits(import[i].rows[n].attrs[k], k)'
    <2>1. CASE import'[i] = import[i]
      <3>1. Fits(import[i].rows[n].attrs[k], k)
        BY <2>1 DEF ValuesInv
      <3>2. QED
        BY <2>1, <3>1, FitsAfter DEF Fits
    <2>2. CASE import'[i] = NoImport \/ ReadsSchema(i)
      BY <2>2, SchemaTypes DEF ReadsSchema
    <2>3. CASE Parses(i)
      <3>1. PICK file \in File :
               /\ \A p \in DOMAIN file : GoodRow(import[i].schema, file, p)
               /\ import'[i].rows = Entries(import[i].schema, file)
        BY <2>3 DEF Parses
      <3>2. n \in DOMAIN file
        BY <3>1 DEF Entries
      <3>3. import'[i].rows[n].attrs = Parse(import[i].schema, Mapped(file[n].input))
        BY <3>1, <3>2, EntriesType
      <3>4. import[i].schema \in [Key -> Definition] /\ SchemaHolds(import[i].schema)
        BY <2>3 DEF TypeOK, Import, Parses, ValuesInv
      <3>5. Valid(import[i].schema, Mapped(file[n].input))
        BY <3>1, <3>2 DEF GoodRow
      <3>6. Fits(Parse(import[i].schema, Mapped(file[n].input))[k], k)
        BY <3>4, <3>5, ParsedFits
      <3>7. QED
        BY <3>3, <3>6, FitsAfter DEF Fits
    <2>4. CASE LooksUp(i)
      <3>1. n \in DOMAIN import[i].rows /\ import'[i].rows = Found(import[i].rows)
        BY <2>4 DEF LooksUp, Found
      <3>2. import'[i].rows[n].attrs = import[i].rows[n].attrs
        BY <3>1, RowsType, FoundType, MemberFieldsAssumption
      <3>3. Fits(import[i].rows[n].attrs[k], k)
        BY <3>1 DEF ValuesInv
      <3>4. QED
        BY <3>2, <3>3, FitsAfter DEF Fits
    <2>5. QED
      BY <2>1, <2>2, <2>3, <2>4 DEF ImportMoves
  <1>4. ASSUME NEW i \in Importer, import'[i].pc = "keys"
        PROVE  SchemaHolds(import[i].schema)'
    <2>1. CASE import'[i] = import[i]
      BY <1>4, <2>1 DEF ValuesInv, SchemaHolds, FieldsStay
    <2>2. CASE ReadsSchema(i)
      BY <2>2 DEF ReadsSchema, SchemaHolds, FieldsStay
    <2>3. QED
      BY <1>4, <2>1, <2>2, SchemaTypes DEF ImportMoves, Parses, LooksUp
  <1>5. QED
    BY <1>1, <1>2, <1>3, <1>4 DEF ValuesInv

\* A stored value belongs to a field there is, and a select holds what selects
\* offer (field-definitions.service.ts:126-147), however long a validated
\* payload or a parsed file waits while fields are edited, archived and
\* restored.
THEOREM ValuesFit == Spec => []StoredValuesTyped
  <1>1. Init => ValuesInv
    <2> SUFFICES ASSUME Init PROVE ValuesInv
      OBVIOUS
    <2>1. \A i \in Importer : import[i].pc = "idle" /\ import[i].rows = <<>>
      BY SchemaTypes DEF Init
    <2>2. \A k \in Key : /\ \A m \in Member : attrs[m][k] = NoValue
                         /\ \A w \in Writer : write[w].attrs[k] = NoValue
      BY BlankFits DEF Init, Blank
    <2>3. QED
      BY <2>1, <2>2 DEF ValuesInv, Fits
  <1>2. TypeInv /\ ValuesInv /\ [Next]_vars => ValuesInv'
    BY NextFacts, ValuesStep DEF TypeInv
  <1>3. ValuesInv => StoredValuesTyped
    BY DEF ValuesInv, Fits, StoredValuesTyped
  <1>4. QED
    BY <1>1, <1>2, <1>3, TypeAlways, PTL DEF Spec

-----------------------------------------------------------------------------
(* What is required is there.                                              *)

Filled(a, must) == \A k \in must : a[k] # NoValue

\* What passed a schema has a value under each key the schema requires.
MustInv ==
    /\ \A w \in Writer : write[w].pc # "idle" => Filled(write[w].attrs, write[w].must)
    /\ \A i \in Importer :
          /\ import[i].pc = "keys" => import[i].must = Required(import[i].schema)
          /\ import[i].pc \in {"lookup", "commit"} =>
                \A n \in DOMAIN import[i].rows :
                   Filled(import[i].rows[n].attrs, import[i].must)

LEMMA ParsedFilled ==
    ASSUME NEW schema \in [Key -> Definition], NEW input, Valid(schema, input)
    PROVE  Filled(Parse(schema, input), Required(schema))
  <1> SUFFICES ASSUME NEW k \in Required(schema)
               PROVE  Parse(schema, input)[k] # NoValue
    BY DEF Filled
  <1>1. k \in Active(schema) /\ schema[k].required /\ k \in Key
    BY DEF Required, Active
  <1>2. Parse(schema, input)[k] = input[k] /\ Accepts(schema[k], input[k])
    BY <1>1 DEF Parse, Valid
  <1>3. schema[k].options \subseteq Option
    <2>1. schema[k] \in Definition
      BY <1>1
    <2>2. QED
      BY <2>1 DEF Definition
  <1>4. QED
    BY <1>1, <1>2, <1>3, MemberFieldsAssumption DEF Accepts, Allowed

LEMMA MustStep ==
    ASSUME TypeOK, MustInv, StepFacts
    PROVE  MustInv'
  <1> USE DEF StepFacts
  <1>1. ASSUME NEW w \in Writer, write'[w].pc # "idle"
        PROVE  Filled(write'[w].attrs, write'[w].must)
    <2>1. CASE write'[w] = write[w]
      BY <1>1, <2>1 DEF MustInv
    <2>2. CASE Validated(w)
      BY <2>2, ParsedFilled DEF Validated, TypeOK
    <2>3. QED
      BY <1>1, <2>1, <2>2, SchemaTypes DEF WriteMoves
  <1>2. ASSUME NEW i \in Importer, import'[i].pc = "keys"
        PROVE  import'[i].must = Required(import'[i].schema)
    BY <1>2, SchemaTypes DEF MustInv, ImportMoves, ReadsSchema, Parses, LooksUp
  <1>3. ASSUME NEW i \in Importer, import'[i].pc \in {"lookup", "commit"},
               NEW n \in DOMAIN import'[i].rows
        PROVE  Filled(import'[i].rows[n].attrs, import'[i].must)
    <2>1. CASE import'[i] = import[i]
      BY <1>3, <2>1 DEF MustInv
    <2>2. CASE Parses(i)
      <3>1. PICK file \in File :
               /\ \A p \in DOMAIN file : GoodRow(import[i].schema, file, p)
               /\ import'[i].rows = Entries(import[i].schema, file)
        BY <2>2 DEF Parses
      <3>2. n \in DOMAIN file
        BY <1>3, <3>1 DEF Entries
      <3>3. import'[i].rows[n].attrs = Parse(import[i].schema, Mapped(file[n].input))
        BY <3>1, <3>2, EntriesType
      <3>4. /\ import[i].schema \in [Key -> Definition]
            /\ import'[i].must = Required(import[i].schema)
        BY <2>2 DEF TypeOK, Import, Parses, MustInv
      <3>5. Valid(import[i].schema, Mapped(file[n].input))
        BY <3>1, <3>2 DEF GoodRow
      <3>6. QED
        BY <3>3, <3>4, <3>5, ParsedFilled
    <2>3. CASE LooksUp(i)
      <3>1. n \in DOMAIN import[i].rows /\ import'[i].rows = Found(import[i].rows)
        BY <1>3, <2>3 DEF LooksUp, Found
      <3>2. import'[i].rows[n].attrs = import[i].rows[n].attrs
        BY <3>1, RowsType, FoundType, MemberFieldsAssumption
      <3>3. QED
        BY <2>3, <3>1, <3>2 DEF MustInv, LooksUp
    <2>4. QED
      BY <1>3, <2>1, <2>2, <2>3, SchemaTypes DEF ImportMoves, ReadsSchema
  <1>4. QED
    BY <1>1, <1>2, <1>3 DEF MustInv

\* An admin who requires a field finds it in every row written from a schema
\* that was read after that (field-definitions.service.ts:59-61), by a form or
\* by a file.
THEOREM RequiredIsEnforced == Spec => RequiredEnforced
  <1> DEFINE still(must) == must \intersect Required(fields)
             Enforced ==
                 /\ \A w \in Writer : \A m \in Member :
                       write[w].pc # "idle" /\ write'[w].pc = "idle"
                       /\ attrs'[m] # attrs[m] =>
                           \A k \in still(write[w].must) : attrs'[m][k] # NoValue
                 /\ \A i \in Importer : \A m \in Member :
                       Ends(i) /\ attrs'[m] # attrs[m] =>
                           \A k \in still(import[i].must) : attrs'[m][k] # NoValue
  <1>1. Init => MustInv
    <2> SUFFICES ASSUME Init PROVE MustInv
      OBVIOUS
    <2>1. /\ \A i \in Importer : import[i].pc = "idle"
          /\ \A w \in Writer : write[w].pc = "idle"
      BY SchemaTypes DEF Init
    <2>2. QED
      BY <2>1 DEF MustInv
  <1>2. TypeInv /\ MustInv /\ [Next]_vars => MustInv'
    BY NextFacts, MustStep DEF TypeInv
  <1>3. TypeInv /\ MustInv /\ [Next]_vars => [Enforced]_vars
    <2> SUFFICES ASSUME TypeOK, CodedInv, MustInv, [Next]_vars PROVE Enforced
      BY DEF TypeInv
    <2>1. StepFacts
      BY NextFacts
    <2>2. ASSUME NEW w \in Writer, NEW m \in Member, write[w].pc # "idle",
                 write'[w].pc = "idle", attrs'[m] # attrs[m]
          PROVE  Filled(attrs'[m], write[w].must)
      <3>1. CASE \E v \in Writer : OnlyWriter(v) /\ attrs'[m] = write[v].attrs
        <4>1. attrs'[m] = write[w].attrs
          BY <2>2, <3>1 DEF OnlyWriter
        <4>2. QED
          BY <2>2, <4>1 DEF MustInv
      <3>2. CASE \E i \in Importer : OnlyImporter(i)
        BY <2>2, <3>2 DEF OnlyImporter
      <3>3. QED
        BY <2>1, <2>2, <3>1, <3>2 DEF StepFacts, MemberMoves
    <2>3. ASSUME NEW i \in Importer, NEW m \in Member, Ends(i), attrs'[m] # attrs[m]
          PROVE  Filled(attrs'[m], import[i].must)
      <3>1. CASE \E v \in Writer : OnlyWriter(v)
        BY <2>3, <3>1 DEF OnlyWriter, Ends
      <3>2. CASE \E j \in Importer :
                    /\ OnlyImporter(j)
                    /\ \E n \in DOMAIN import[j].rows :
                          attrs'[m] = import[j].rows[n].attrs
        <4>1. \E n \in DOMAIN import[i].rows : attrs'[m] = import[i].rows[n].attrs
          BY <2>3, <3>2 DEF OnlyImporter, Ends
        <4>2. QED
          BY <2>3, <4>1 DEF MustInv, Ends
      <3>3. QED
        BY <2>1, <2>3, <3>1, <3>2 DEF StepFacts, MemberMoves
    <2>4. QED
      BY <2>2, <2>3 DEF Filled
  <1>4. [][Enforced]_vars => RequiredEnforced
    BY PTL DEF RequiredEnforced
  <1>5. QED
    BY <1>1, <1>2, <1>3, <1>4, TypeAlways, PTL DEF Spec

-----------------------------------------------------------------------------
(* An import is whole or nothing.                                          *)

\* The rows of an import are those of its file, and the members found for them
\* exist and differ from each other.
WholeInv ==
    \A i \in Importer :
        /\ import[i].pc \in {"lookup", "commit"} =>
              Len(import[i].rows) = import[i].total
        /\ import[i].pc = "commit" =>
              \A n \in DOMAIN import[i].rows :
                 LET id == import[i].rows[n].id IN
                 id # NoMember =>
                    /\ id \in Member /\ code[id] # NoCode
                    /\ \A p \in DOMAIN import[i].rows :
                          import[i].rows[p].id = id => p = n

LEMMA IdOfMember ==
    ASSUME NEW c, IdOf(c) # NoMember
    PROVE  IdOf(c) \in Member /\ code[IdOf(c)] = c
  BY DEF IdOf

LEMMA WholeStep ==
    ASSUME TypeOK, WholeInv, StepFacts
    PROVE  WholeInv'
  <1> USE DEF StepFacts
  <1>1. ASSUME NEW i \in Importer, import'[i].pc \in {"lookup", "commit"}
        PROVE  Len(import'[i].rows) = import'[i].total
    <2>1. CASE import'[i] = import[i]
      BY <1>1, <2>1 DEF WholeInv
    <2>2. CASE Parses(i)
      <3>1. PICK file \in File : /\ import'[i].rows = Entries(import[i].schema, file)
                                 /\ import'[i].total = Len(file)
        BY <2>2 DEF Parses
      <3>2. /\ Entries(import[i].schema, file) \in [1 .. Len(file) -> Entry]
            /\ Len(file) \in Nat
        BY EntriesType, MemberFieldsAssumption
      <3>3. QED
        BY <3>1, <3>2, LenOf
    <2>3. CASE LooksUp(i)
      <3>1. PICK k \in 0 .. MaxRows : /\ import[i].rows \in [1 .. k -> Entry]
                                      /\ Len(import[i].rows) = k
        BY RowsType
      <3>2. k \in Nat /\ import'[i].rows = Found(import[i].rows)
        BY <2>3, MemberFieldsAssumption DEF LooksUp, Found
      <3>3. Found(import[i].rows) \in [1 .. k -> Entry]
        BY <3>1, <3>2, FoundType
      <3>4. Len(import'[i].rows) = k
        BY <3>2, <3>3, LenOf
      <3>5. QED
        BY <2>3, <3>1, <3>4 DEF LooksUp, WholeInv
    <2>4. QED
      BY <1>1, <2>1, <2>2, <2>3, SchemaTypes DEF ImportMoves, ReadsSchema
  <1>2. \A m \in Member : code[m] # NoCode => code'[m] # NoCode
    BY MemberFieldsAssumption DEF MemberMoves
  <1>3. ASSUME NEW i \in Importer, import'[i].pc = "commit",
               NEW n \in DOMAIN import'[i].rows, import'[i].rows[n].id # NoMember
        PROVE  /\ import'[i].rows[n].id \in Member
               /\ code'[import'[i].rows[n].id] # NoCode
               /\ \A p \in DOMAIN import'[i].rows :
                     import'[i].rows[p].id = import'[i].rows[n].id => p = n
    <2>1. CASE import'[i] = import[i]
      BY <1>2, <1>3, <2>1 DEF WholeInv
    <2>2. CASE LooksUp(i)
      <3> DEFINE rows == import[i].rows
      <3>1. import'[i].rows = Found(rows) /\ UNCHANGED code
        BY <2>2 DEF LooksUp, Found, members
      <3>2. /\ DOMAIN Found(rows) = DOMAIN rows
            /\ \A p \in DOMAIN rows : Found(rows)[p].id = IdOf(rows[p].code)
        BY RowsType, FoundType, MemberFieldsAssumption
      <3>3. \A p \in DOMAIN rows : rows[p].code \in Code
        BY RowsType DEF Entry
      <3>4. \A p, q \in DOMAIN rows : rows[p].code = rows[q].code => p = q
        BY DEF TypeOK
      <3> HIDE DEF rows
      <3>5. n \in DOMAIN rows /\ IdOf(rows[n].code) # NoMember
            /\ import'[i].rows[n].id = IdOf(rows[n].code)
        BY <1>3, <3>1, <3>2
      <3>6. IdOf(rows[n].code) \in Member /\ code[IdOf(rows[n].code)] = rows[n].code
        BY <3>5, IdOfMember
      <3>7. code'[IdOf(rows[n].code)] # NoCode
        BY <3>1, <3>3, <3>5, <3>6, MemberFieldsAssumption
      <3>8. ASSUME NEW p \in DOMAIN rows, IdOf(rows[p].code) = IdOf(rows[n].code)
            PROVE  p = n
        <4>1. code[IdOf(rows[p].code)] = rows[p].code
          BY <3>5, <3>8, IdOfMember
        <4>2. QED
          BY <3>4, <3>5, <3>6, <3>8, <4>1
      <3>9. QED
        BY <3>1, <3>2, <3>5, <3>6, <3>7, <3>8
    <2>3. QED
      BY <1>3, <2>1, <2>2, SchemaTypes DEF ImportMoves, ReadsSchema, Parses
  <1>4. QED
    BY <1>1, <1>3 DEF WholeInv

\* The rows of an import that commits, in the members after it.
LEMMA CommitWrites ==
    ASSUME TypeOK, WholeInv, NEW i \in Importer, ImportCommit(i)
    PROVE  \A n \in DOMAIN import[i].rows : \E m \in Member :
              /\ attrs'[m] = import[i].rows[n].attrs
              /\ IF import[i].rows[n].id = NoMember
                 THEN code[m] = NoCode /\ code'[m] = import[i].rows[n].code
                 ELSE m = import[i].rows[n].id
  <1> DEFINE rows == import[i].rows
             written(at) == {at[n] : n \in New(i)} \union {rows[n].id : n \in Old(i)}
  <1>1. PICK at \in Places(i) : ImportAt(i, at)
    BY DEF ImportCommit
  <1>2. /\ code' = [m \in Member |-> IF \E n \in New(i) : at[n] = m
                                     THEN rows[RowAt(i, at, m)].code ELSE code[m]]
        /\ attrs' = [m \in Member |-> IF m \in written(at)
                        THEN rows[RowAt(i, at, m)].attrs ELSE attrs[m]]
    BY <1>1 DEF ImportAt, RowAt
  <1>3. /\ \A n \in New(i) : at[n] \in Member /\ code[at[n]] = NoCode
        /\ \A n, p \in New(i) : at[n] = at[p] => n = p
    BY DEF Places
  <1>4. import[i].pc = "commit"
    BY DEF ImportCommit
  <1>5. ASSUME NEW n \in New(i)
        PROVE  /\ attrs'[at[n]] = rows[n].attrs /\ code'[at[n]] = rows[n].code
               /\ code[at[n]] = NoCode /\ at[n] \in Member
    <2>1. RowAt(i, at, at[n]) = n
      BY <1>3 DEF RowAt
    <2>2. QED
      BY <1>2, <1>3, <2>1
  <1>6. ASSUME NEW n \in Old(i)
        PROVE  rows[n].id \in Member /\ attrs'[rows[n].id] = rows[n].attrs
    <2>1. n \in DOMAIN rows /\ rows[n].id # NoMember
      BY DEF Old, New
    <2>2. /\ rows[n].id \in Member /\ code[rows[n].id] # NoCode
          /\ \A p \in DOMAIN rows : rows[p].id = rows[n].id => p = n
      BY <1>4, <2>1 DEF WholeInv
    <2>3. ~\E p \in New(i) : at[p] = rows[n].id
      BY <1>3, <2>2
    <2>4. RowAt(i, at, rows[n].id) = n
      BY <2>2, <2>3 DEF RowAt, Old
    <2>5. QED
      BY <1>2, <2>2, <2>4
  <1>7. ASSUME NEW n \in DOMAIN rows
        PROVE  \E m \in Member :
                  /\ attrs'[m] = rows[n].attrs
                  /\ IF rows[n].id = NoMember
                     THEN code[m] = NoCode /\ code'[m] = rows[n].code
                     ELSE m = rows[n].id
    <2>1. CASE n \in New(i)
      BY <1>5, <2>1 DEF New
    <2>2. CASE n \in Old(i)
      BY <1>6, <2>2 DEF New, Old
    <2>3. QED
      BY <2>1, <2>2 DEF Old
  <1>8. QED
    BY <1>7

\* Only an import's own commit ends it with members written.
LEMMA EndIsCommit ==
    ASSUME TypeOK, Next, NEW i \in Importer, Ends(i), members' # members
    PROVE  ImportCommit(i)
  <1>1. import'[i] # import[i] /\ import[i].pc = "commit"
    BY DEF Ends
  <1>2. ASSUME NEW k \in Key, FieldStep(k)
        PROVE  FALSE
    BY <1>1, <1>2 DEF FieldStep, FieldCreate, FieldUpdate, FieldArchive,
                      FieldRestore, Define
  <1>3. ASSUME NEW w \in Writer, WriteStep(w)
        PROVE  FALSE
    BY <1>1, <1>3 DEF WriteStep, Validate, CreateMember, UpdateMember, WriteRefused
  <1>4. ASSUME NEW j \in Importer, ImportStep(j)
        PROVE  ImportCommit(j)
    BY <1>4 DEF ImportStep, ImportSchema, ImportParse, ImportLookup, ImportRollback
  <1>5. ASSUME NEW j \in Importer, ImportCommit(j), j # i
        PROVE  FALSE
    BY <1>1, <1>5 DEF ImportCommit, ImportAt, Stop, TypeOK
  <1>6. QED
    BY <1>2, <1>3, <1>4, <1>5 DEF Next

\* "The commit is all-or-nothing" (member-import.service.ts:35-37): whatever
\* edits, archives and other imports come between, an import that changes
\* anything writes every row of its file.
THEOREM ImportsAreWhole == Spec => ImportAllOrNothing
  <1> DEFINE Whole ==
        \A i \in Importer : Ends(i) /\ members' # members =>
          /\ Len(import[i].rows) = import[i].total
          /\ \A n \in DOMAIN import[i].rows :
                LET row == import[i].rows[n] IN
                \E m \in Member :
                    /\ attrs'[m] = row.attrs
                    /\ IF row.id = NoMember
                       THEN code[m] = NoCode /\ code'[m] = row.code
                       ELSE m = row.id
  <1>1. Init => WholeInv
    <2> SUFFICES ASSUME Init PROVE WholeInv
      OBVIOUS
    <2>1. \A i \in Importer : import[i].pc = "idle"
      BY SchemaTypes DEF Init
    <2>2. QED
      BY <2>1 DEF WholeInv
  <1>2. TypeInv /\ WholeInv /\ [Next]_vars => WholeInv'
    BY NextFacts, WholeStep DEF TypeInv
  <1>3. TypeInv /\ WholeInv /\ [Next]_vars => [Whole]_vars
    <2> SUFFICES ASSUME TypeOK, WholeInv, Next,
                        NEW i \in Importer, Ends(i), members' # members
                 PROVE  /\ Len(import[i].rows) = import[i].total
                        /\ \A n \in DOMAIN import[i].rows :
                              LET row == import[i].rows[n] IN
                              \E m \in Member :
                                  /\ attrs'[m] = row.attrs
                                  /\ IF row.id = NoMember
                                     THEN code[m] = NoCode /\ code'[m] = row.code
                                     ELSE m = row.id
      BY DEF TypeInv
    <2>1. ImportCommit(i)
      BY EndIsCommit
    <2>2. Len(import[i].rows) = import[i].total
      BY DEF Ends, WholeInv
    <2>3. QED
      BY <2>1, <2>2, CommitWrites
  <1>4. [][Whole]_vars => ImportAllOrNothing
    BY PTL DEF ImportAllOrNothing
  <1>5. QED
    BY <1>1, <1>2, <1>3, <1>4, TypeAlways, PTL DEF Spec
=============================================================================
