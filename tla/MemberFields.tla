---------------------------- MODULE MemberFields ----------------------------
(***************************************************************************)
(* One organization's member fields and the members written under them:    *)
(* the field definitions (field-definitions.service.ts), the member form   *)
(* that is validated against them (members.service.ts, field-schema.ts)    *)
(* and the spreadsheet import (member-import.service.ts).                  *)
(*                                                                         *)
(* Definitions are read on every write and never cached, so a write is     *)
(* judged by a schema that may be old by the time it commits.  Requests    *)
(* overlap between their reads and their writes.  A field is a text or a   *)
(* select, whose options are the one part of a definition that decides     *)
(* which values it takes.                                                  *)
(***************************************************************************)
EXTENDS Naturals, Sequences, FiniteSets

CONSTANTS
    Key,       \* the keys of fields
    Member,    \* primary keys of members
    Code,      \* member codes
    Option,    \* what a select may offer
    Word,      \* values no select offers
    NoValue,   \* a blank or missing input; no value under the key
    NoCode,    \* the code of a member not created yet
    NoMember,  \* a row of an import that matches nobody
    Writer,    \* slots for requests that create or update one member
    Importer,  \* slots for requests that import a file
    MaxRows    \* bound on the rows of a file (5000)

ASSUME MemberFieldsAssumption ==
    /\ NoValue \notin Option \union Word
    /\ NoCode \notin Code
    /\ NoMember \notin Member
    /\ MaxRows \in Nat

VARIABLES
    fields, \* key -> its definition
    code,   \* Member.code
    attrs,  \* Member.attributes
    write,  \* writer -> its local variables
    import  \* importer -> its local variables

members == <<code, attrs>>
vars == <<fields, members, write, import>>

Input == Option \union Word \union {NoValue}
Attributes == [Key -> Input]
Blank == [k \in Key |-> NoValue]

Definition == [state    : {"none", "active", "archived"},
               type     : {"text", "select"},
               required : BOOLEAN,
               options  : SUBSET Option]
NoField == [state |-> "none", type |-> "text", required |-> FALSE,
            options |-> {}]

\* must: history, the keys that were required when the schema was read.
Write == [pc     : {"idle", "create", "update"},
          member : Member \union {NoMember},
          code   : Code \union {NoCode},
          attrs  : Attributes,
          must   : SUBSET Key]
NoWrite == [pc |-> "idle", member |-> NoMember, code |-> NoCode,
            attrs |-> Blank, must |-> {}]

\* total: history, the number of rows in the file.
Entry == [code : Code, attrs : Attributes, id : Member \union {NoMember}]
Import == [pc     : {"idle", "keys", "lookup", "commit"},
           schema : [Key -> Definition],
           rows   : UNION {[1 .. n -> Entry] : n \in 0 .. MaxRows},
           total  : 0 .. MaxRows,
           update : BOOLEAN,
           must   : SUBSET Key]
NoImport == [pc |-> "idle", schema |-> [k \in Key |-> NoField],
             rows |-> <<>>, total |-> 0, update |-> FALSE, must |-> {}]

Init ==
    /\ fields = [k \in Key |-> NoField]
    /\ code = [m \in Member |-> NoCode]
    /\ attrs = [m \in Member |-> Blank]
    /\ write = [w \in Writer |-> NoWrite]
    /\ import = [i \in Importer |-> NoImport]

-----------------------------------------------------------------------------
(* FieldDefinitionsService                                                 *)

Active(schema) == {k \in Key : schema[k].state = "active"}
Required(schema) == {k \in Active(schema) : schema[k].required}

Define(k, d) ==
    /\ fields' = [fields EXCEPT ![k] = d]
    /\ UNCHANGED <<members, write, import>>

\* A key that is in use, archived or not, is refused: FIELD_KEY_TAKEN.
FieldCreate(k, d) ==
    /\ fields[k].state = "none"
    /\ d.state = "active"
    /\ d.type = "select" => d.options # {}
    /\ Define(k, d)

\* Mutant: the type in the body is written too.
FieldUpdateType(k, required, options) ==
    /\ fields[k].state # "none"
    /\ Define(k, [fields[k] EXCEPT
                     !.type = IF options # {} THEN "select" ELSE "text",
                     !.required = required, !.options = options])

\* A body that leaves required or options out gets FALSE and the empty list
\* from the schema's defaults, and both are written.  Options are checked only
\* when the body names a type, which it need not do.
FieldUpdate(k, required, options) ==
    /\ fields[k].state # "none"
    /\ Define(k, [fields[k] EXCEPT
                     !.required = required, !.options = options])

FieldArchive(k) ==
    /\ fields[k].state # "none"
    /\ Define(k, [fields[k] EXCEPT !.state = "archived", !.required = FALSE])

FieldRestore(k) ==
    /\ fields[k].state # "none"
    /\ Define(k, [fields[k] EXCEPT !.state = "active"])

-----------------------------------------------------------------------------
(* buildAttributesSchema                                                   *)

Allowed(d) == IF d.type = "select" THEN d.options ELSE Option \union Word

\* Mutant: a required text may be blank (no min(1)).
AcceptsBlank(d, v) ==
    v \in Allowed(d) \/ (v = NoValue /\ (d.type = "text" \/ ~d.required))

\* An optional field takes a blank too, which is stored as no value.
Accepts(d, v) == v \in Allowed(d) \/ (v = NoValue /\ ~d.required)

Valid(schema, input) == \A k \in Active(schema) : Accepts(schema[k], input[k])

\* Keys outside the schema are stripped.
Parse(schema, input) ==
    [k \in Key |-> IF k \in Active(schema) THEN input[k] ELSE NoValue]

-----------------------------------------------------------------------------
(* MembersService                                                          *)

\* validate, for a new member (NoMember) or an existing one.  An invalid
\* payload ends the request here.
Validate(w, m, c, input) ==
    /\ write[w].pc = "idle"
    /\ Valid(fields, input)
    /\ write' = [write EXCEPT ![w] =
                   [pc |-> IF m = NoMember THEN "create" ELSE "update",
                    member |-> m, code |-> c, attrs |-> Parse(fields, input),
                    must |-> Required(fields)]]
    /\ UNCHANGED <<fields, members, import>>

Answer(w) == write' = [write EXCEPT ![w] = NoWrite]

\* assertCodeFree, with the unique index behind it.
CodeTaken(c, m) == \E n \in Member \ {m} : code[n] = c

CreateMember(w, m) ==
    /\ write[w].pc = "create"
    /\ code[m] = NoCode
    /\ ~CodeTaken(write[w].code, m)
    /\ code' = [code EXCEPT ![m] = write[w].code]
    /\ attrs' = [attrs EXCEPT ![m] = write[w].attrs]
    /\ Answer(w)
    /\ UNCHANGED <<fields, import>>

\* All the attributes are replaced by what the validation left of the payload.
UpdateMember(w) ==
    LET m == write[w].member IN
    /\ write[w].pc = "update"
    /\ ~CodeTaken(write[w].code, m)
    /\ code' = [code EXCEPT ![m] = write[w].code]
    /\ attrs' = [attrs EXCEPT ![m] = write[w].attrs]
    /\ Answer(w)
    /\ UNCHANGED <<fields, import>>

\* MEMBER_CODE_TAKEN
WriteRefused(w) ==
    /\ write[w].pc # "idle"
    /\ CodeTaken(write[w].code, write[w].member)
    /\ Answer(w)
    /\ UNCHANGED <<fields, members, import>>

-----------------------------------------------------------------------------
(* MemberImportService.run, without dryRun, which writes nothing           *)

\* The schema is read first, ...
ImportSchema(i) ==
    /\ import[i].pc = "idle"
    /\ import' = [import EXCEPT ![i] =
                    [NoImport EXCEPT !.pc = "keys", !.schema = fields,
                                     !.must = Required(fields)]]
    /\ UNCHANGED <<fields, members, write>>

\* ... then the keys.  mapRow puts a column under attributes only if its key is
\* among those, so a key archived in between counts as missing.
Mapped(input) ==
    [k \in Key |-> IF k \in Active(fields) THEN input[k] ELSE NoValue]

Entries(schema, file) ==
    [n \in DOMAIN file |-> [code |-> file[n].code,
                            attrs |-> Parse(schema, Mapped(file[n].input)),
                            id |-> NoMember]]

\* Mutant: a code that comes twice is not noticed.
GoodRowRepeats(schema, file, n) == Valid(schema, Mapped(file[n].input))

GoodRow(schema, file, n) ==
    /\ Valid(schema, Mapped(file[n].input))
    /\ \A p \in 1 .. n - 1 : file[p].code # file[n].code

Stop(i) == import' = [import EXCEPT ![i] = NoImport]

\* Mutant: the good rows are imported, the others reported.
ImportParseGoodOnes(i, file) ==
    LET s == import[i].schema
        good == {n \in DOMAIN file : GoodRow(s, file, n)}
    IN
    /\ import[i].pc = "keys"
    /\ import' = [import EXCEPT ![i] =
                    [@ EXCEPT !.pc = "lookup", !.total = Len(file),
                              !.schema = NoImport.schema,
                              !.rows = IF 1 \in good \/ good = {}
                                       THEN SubSeq(Entries(s, file), 1,
                                                   Cardinality(good))
                                       ELSE Tail(Entries(s, file))]]
    /\ UNCHANGED <<fields, members, write>>

\* Every row is parsed; an invalid or repeated one leaves the file unwritten.
ImportParse(i, file) ==
    LET s == import[i].schema IN
    /\ import[i].pc = "keys"
    /\ IF \A n \in DOMAIN file : GoodRow(s, file, n)
       THEN import' = [import EXCEPT ![i] =
                [@ EXCEPT !.pc = "lookup", !.total = Len(file),
                          !.schema = NoImport.schema,
                          !.rows = Entries(s, file)]]
       ELSE Stop(i)
    /\ UNCHANGED <<fields, members, write>>

IdOf(c) ==
    IF \E m \in Member : code[m] = c
    THEN CHOOSE m \in Member : code[m] = c ELSE NoMember

\* The members that have the codes of the file, archived ones included.
ImportLookup(i, update) ==
    LET rows == import[i].rows
        found == [n \in DOMAIN rows |->
                     [rows[n] EXCEPT !.id = IdOf(rows[n].code)]]
    IN
    /\ import[i].pc = "lookup"
    /\ IF update \/ \A n \in DOMAIN rows : found[n].id = NoMember
       THEN import' = [import EXCEPT ![i] =
                [@ EXCEPT !.pc = "commit", !.rows = found, !.update = update]]
       ELSE Stop(i)
    /\ UNCHANGED <<fields, members, write>>

New(i) == {n \in DOMAIN import[i].rows : import[i].rows[n].id = NoMember}
Old(i) == DOMAIN import[i].rows \ New(i)

\* at: the members that createMany makes of the new rows.
ImportAt(i, at) ==
    LET rows == import[i].rows
        row(m) == IF \E n \in New(i) : at[n] = m
                  THEN CHOOSE n \in New(i) : at[n] = m
                  ELSE CHOOSE n \in Old(i) : rows[n].id = m
        written == {at[n] : n \in New(i)} \union {rows[n].id : n \in Old(i)}
    IN
    /\ code' = [m \in Member |-> IF \E n \in New(i) : at[n] = m
                                 THEN rows[row(m)].code ELSE code[m]]
    /\ attrs' = [m \in Member |-> IF m \in written
                                  THEN rows[row(m)].attrs ELSE attrs[m]]
    /\ Stop(i)
    /\ UNCHANGED <<fields, write>>

Places(i) ==
    {at \in [New(i) -> {m \in Member : code[m] = NoCode}] :
        \A n, p \in New(i) : at[n] = at[p] => n = p}

NewCodeTaken(i) ==
    \E n \in New(i) : CodeTaken(import[i].rows[n].code, NoMember)

\* One transaction: createMany, then each update by the id found before.
ImportCommit(i) ==
    /\ import[i].pc = "commit"
    /\ ~NewCodeTaken(i)
    /\ \E at \in Places(i) : ImportAt(i, at)

\* The unique index refuses createMany, or a statement fails: all is undone.
ImportRollback(i) ==
    /\ import[i].pc = "commit"
    /\ Stop(i)
    /\ UNCHANGED <<fields, members, write>>

-----------------------------------------------------------------------------
FieldStep(k) ==
    \/ \E d \in Definition : FieldCreate(k, d)
    \/ \E required \in BOOLEAN, options \in SUBSET Option :
          FieldUpdate(k, required, options)
    \/ FieldArchive(k)
    \/ FieldRestore(k)

WriteStep(w) ==
    \/ \E m \in {n \in Member : code[n] # NoCode} \union {NoMember},
          c \in Code, input \in Attributes : Validate(w, m, c, input)
    \/ \E m \in Member : CreateMember(w, m)
    \/ UpdateMember(w)
    \/ WriteRefused(w)

File == UNION {[1 .. n -> [code : Code, input : Attributes]] :
                  n \in 1 .. MaxRows}

ImportStep(i) ==
    \/ ImportSchema(i)
    \/ \E file \in File : ImportParse(i, file)
    \/ \E update \in BOOLEAN : ImportLookup(i, update)
    \/ ImportCommit(i)
    \/ ImportRollback(i)

Next ==
    \/ \E k \in Key : FieldStep(k)
    \/ \E w \in Writer : WriteStep(w)
    \/ \E i \in Importer : ImportStep(i)

Spec == Init /\ [][Next]_vars
-----------------------------------------------------------------------------
(* Properties                                                              *)

\* Every variable has its type, and no two rows of a file that is about to be
\* written have the same code.
TypeOK ==
    /\ fields \in [Key -> Definition]
    /\ code \in [Member -> Code \union {NoCode}]
    /\ attrs \in [Member -> Attributes]
    /\ write \in [Writer -> Write]
    /\ import \in [Importer -> Import]
    /\ \A i \in Importer : \A n, p \in DOMAIN import[i].rows :
          import[i].rows[n].code = import[i].rows[p].code => n = p

\* "Renaming a key would orphan the value [...]; changing a type would
\* invalidate values that were valid when written" (member.ts:63-69): a stored
\* value belongs to a field there is, and a select holds what selects offer,
\* however old the schema that let the value in.
StoredValuesTyped ==
    \A m \in Member, k \in Key :
        attrs[m][k] # NoValue =>
            /\ fields[k].state # "none"
            /\ fields[k].type = "select" => attrs[m][k] \in Option

Ends(i) == import[i].pc = "commit" /\ import'[i].pc = "idle"

\* "The commit is all-or-nothing" and "nothing is written while any row is
\* invalid" (member-import.service.ts:35-37, 133-134): an import that changes
\* anything writes every row of its file.
ImportAllOrNothing ==
    [][\A i \in Importer : Ends(i) /\ members' # members =>
          /\ Len(import[i].rows) = import[i].total
          /\ \A n \in DOMAIN import[i].rows :
                LET row == import[i].rows[n] IN
                \E m \in Member :
                    /\ attrs'[m] = row.attrs
                    /\ IF row.id = NoMember
                       THEN code[m] = NoCode /\ code'[m] = row.code
                       ELSE m = row.id]_vars

\* "An admin who adds a required field expects the next save to enforce it"
\* (field-definitions.service.ts:59-61): a row that is written has a value
\* under each key that was required when its schema was read and still is.
RequiredEnforced ==
    [][LET still(must) == must \intersect Required(fields) IN
       /\ \A w \in Writer : \A m \in Member :
             write[w].pc # "idle" /\ write'[w].pc = "idle"
             /\ attrs'[m] # attrs[m] =>
                 \A k \in still(write[w].must) : attrs'[m][k] # NoValue
       /\ \A i \in Importer : \A m \in Member :
             Ends(i) /\ attrs'[m] # attrs[m] =>
                 \A k \in still(import[i].must) : attrs'[m][k] # NoValue]_vars
=============================================================================
