------------------------------ MODULE Tenants ------------------------------
(***************************************************************************)
(* How organizations come to exist and change: registration by the         *)
(* platform console (apps/api/src/tenants/tenants.service.ts), the         *)
(* templates that give a tenant its fields (packages/shared/src/           *)
(* templates.ts), and the seed script, a second process that creates and   *)
(* repairs tenants while the API may run (apps/api/prisma/seed.ts).        *)
(*                                                                         *)
(* An address is a slug: the base that a name or a request gives, and the  *)
(* number that resolveSlug appends when it is taken.  What is not yet      *)
(* committed is seen only by the unique index on slug.                     *)
(***************************************************************************)
EXTENDS Naturals, Sequences

CONSTANTS
    Req,        \* requests of the console, one operation each
    Base,       \* slugs that names or requests give
    Reserved,   \* those in RESERVED_SLUGS
    Attempts,   \* addresses resolveSlug tries (50 in the code)
    Legacy,     \* addresses of tenants older than the seeding of fields
    Active,     \* bases whose first tenants work with their rows:
    OwnKey,     \*   the fields they edit or add
    OwnCode,    \*   the members they edit or add
    Demo,       \* seedDemo: whether the script creates demo organizations
    MaxRuns     \* bound on the runs of the script

ASSUME TenantsAssumption ==
    /\ Base # {}
    /\ Reserved \subseteq Base
    /\ Legacy \subseteq Base
    /\ Req \cap {"seed", "legacy"} = {}
    /\ Attempts \in Nat \ {0}
    /\ Demo \in BOOLEAN
    /\ MaxRuns \in Nat

VARIABLES
    tenants,    \* the tenants by address, with the rows that belong to them
    call,       \* request -> where it stands
    superAdmin, \* the account of the platform exists
    seed        \* the seed script

vars == <<tenants, call, superAdmin, seed>>

-----------------------------------------------------------------------------
(* Data                                                                    *)

EDUCATION_FIELDS ==
    {"class", "section", "admissionNumber", "academicYear", "dateOfBirth",
     "gender", "bloodGroup", "guardianName", "guardianPhone", "address"}

CORPORATE_FIELDS ==
    {"department", "designation", "dateOfJoining", "employmentType",
     "reportingManager", "workLocation", "dateOfBirth", "gender",
     "bloodGroup", "emergencyContact"}

Field == EDUCATION_FIELDS \union CORPORATE_FIELDS
Template == {"education", "corporate"}
fieldsForTemplate(t) ==
    IF t = "education" THEN EDUCATION_FIELDS ELSE CORPORATE_FIELDS

\* One member of each stands for the handful.
DEMO_ORGS ==
    << [slug |-> "st-xavier-high-school", template |-> "education",
        status |-> "active", members |-> {"S-1001"}],
       [slug |-> "acme-industries", template |-> "corporate",
        status |-> "trial", members |-> {"EMP-2001"}] >>

Orgs == IF Demo THEN 1 .. Len(DEMO_ORGS) ELSE {}
Code == UNION {DEMO_ORGS[i].members : i \in 1 .. Len(DEMO_ORGS)}
DemoAddress(i) == <<DEMO_ORGS[i].slug, 1>>

Address == (Base \union {DEMO_ORGS[i].slug : i \in Orgs}) \X (1 .. Attempts)

\* own: made or changed by the organization itself.
Row == {"none", "seeded", "own"}
Status == {"trial", "active", "suspended"}
Tenant == [owner : Req \union {"seed", "legacy"}, name : {"given", "edited"},
           status : Status, template : Template, admin : BOOLEAN,
           fields : [Field -> Row], members : [Code -> Row]]

\* A tenant as tx.tenant.create and its nested creates leave it.
BareTenant(owner, template, status) ==
    [owner |-> owner, name |-> "given", status |-> status,
     template |-> template, admin |-> FALSE,
     fields |-> [k \in Field |-> "none"], members |-> [c \in Code |-> "none"]]

\* The tenants with one more, or with another at its address.
Put(a, t) ==
    [x \in DOMAIN tenants \union {a} |-> IF x = a THEN t ELSE tenants[x]]

\* The rows of `fields` for which `keys` have been inserted.
seedData(fields, keys) ==
    [k \in Field |-> IF k \in keys THEN "seeded" ELSE fields[k]]

Exists(a) == a \in DOMAIN tenants

\* tenant, admin, fields, commit: the transaction of create.
CallRec == [pc : {"idle", "resolve", "tenant", "admin", "fields", "commit",
                  "done", "refused", "failed"},
            op : {"none", "create", "change"},
            base : Base, attempt : 1 .. Attempts,
            template : Template]
NewCall == [pc |-> "idle", op |-> "none", base |-> CHOOSE b \in Base : TRUE,
            attempt |-> 1, template |-> "education"]
AddressOf(r) == <<call[r].base, call[r].attempt>>

\* at: the tenant it is at; have: the keys it has found there; todo: members
\* still to look for; listed, left: the tenants it found and those still to do.
SeedRec == [pc : {"off", "admin", "org", "user", "keys", "create", "members",
                  "list", "next", "done"},
            org : 0 .. Len(DEMO_ORGS) + 1, at : Address \union {<<>>},
            have : SUBSET Field, todo : SUBSET Code,
            listed : SUBSET Address, left : SUBSET Address, runs : 0 .. MaxRuns]

\* The script about to do `pc`, with nothing read.
Seed(pc, runs) == [pc |-> pc, org |-> 0, at |-> <<>>, have |-> {}, todo |-> {},
                   listed |-> {}, left |-> {}, runs |-> runs]

Init ==
    /\ \E old \in SUBSET Legacy :
          tenants = [a \in old \X {1} |->
                        [BareTenant("legacy", "education", "active")
                            EXCEPT !.admin = TRUE]]
    /\ call = [r \in Req |-> NewCall]
    /\ superAdmin = FALSE
    /\ seed = Seed("off", 0)

-----------------------------------------------------------------------------
(* Registration                                                            *)

\* A registration that came to nothing.
Over(pc) == [NewCall EXCEPT !.pc = pc, !.op = "create"]
Goto(r, pc) == call' = [call EXCEPT ![r].pc = pc]

\* The body has passed createTenantSchema; slugify cut the base to length.
CreateStart(r, b, template) ==
    /\ call[r].pc = "idle"
    /\ call' = [call EXCEPT ![r] =
                   IF b \in Reserved THEN Over("refused")
                   ELSE [NewCall EXCEPT !.pc = "resolve", !.op = "create",
                                        !.base = b, !.template = template]]
    /\ UNCHANGED <<tenants, superAdmin, seed>>

\* Mutant: the loop goes round once more than there are attempts.
resolveSlugOnceMore(r) ==
    /\ call[r].pc = "resolve"
    /\ \/ /\ ~Exists(AddressOf(r))
          /\ Goto(r, "tenant")
       \/ /\ Exists(AddressOf(r)) /\ call[r].attempt <= Attempts
          /\ call' = [call EXCEPT ![r].attempt = @ + 1]
    /\ UNCHANGED <<tenants, superAdmin, seed>>

\* One look-up of the loop.
resolveSlug(r) ==
    /\ call[r].pc = "resolve"
    /\ \/ /\ ~Exists(AddressOf(r))
          /\ Goto(r, "tenant")
       \/ /\ Exists(AddressOf(r)) /\ call[r].attempt < Attempts
          /\ call' = [call EXCEPT ![r].attempt = @ + 1]
       \/ /\ Exists(AddressOf(r)) /\ call[r].attempt = Attempts
          /\ call' = [call EXCEPT ![r] = Over("refused")]
    /\ UNCHANGED <<tenants, superAdmin, seed>>

\* r has inserted a tenant that is not committed.
Holds(r) == call[r].pc \in {"admin", "fields", "commit"}

\* Mutant: nothing keeps two tenants from having one address.
InsertWithoutIndex(r) ==
    /\ call[r].pc = "tenant"
    /\ Goto(r, "admin")
    /\ UNCHANGED <<tenants, superAdmin, seed>>

\* Mutant: the tenant is created outside the transaction.
InsertOutsideTransaction(r) ==
    /\ call[r].pc = "tenant"
    /\ ~Exists(AddressOf(r))
    /\ tenants' = Put(AddressOf(r), BareTenant(r, call[r].template, "trial"))
    /\ Goto(r, "admin")
    /\ UNCHANGED <<superAdmin, seed>>

\* The index waits for whoever inserted the same address before.
InsertTenant(r) ==
    /\ call[r].pc = "tenant"
    /\ \A q \in Req \ {r} : Holds(q) => AddressOf(q) # AddressOf(r)
    /\ \/ /\ ~Exists(AddressOf(r))
          /\ Goto(r, "admin")
       \/ /\ Exists(AddressOf(r))
          /\ call' = [call EXCEPT ![r] = Over("failed")]
    /\ UNCHANGED <<tenants, superAdmin, seed>>

InsertAdmin(r) ==
    /\ call[r].pc = "admin"
    /\ Goto(r, "fields")
    /\ UNCHANGED <<tenants, superAdmin, seed>>

InsertFields(r) ==
    /\ call[r].pc = "fields"
    /\ Goto(r, "commit")
    /\ UNCHANGED <<tenants, superAdmin, seed>>

Commit(r) ==
    LET t == BareTenant(r, call[r].template, "trial") IN
    /\ call[r].pc = "commit"
    /\ tenants' = Put(AddressOf(r),
                      [t EXCEPT !.admin = TRUE,
                                !.fields = seedData(t.fields,
                                               fieldsForTemplate(t.template))])
    /\ Goto(r, "done")
    /\ UNCHANGED <<superAdmin, seed>>

\* A statement fails, the transaction takes too long, or the process dies.
Rollback(r) ==
    /\ call[r].pc = "tenant" \/ Holds(r)
    /\ call' = [call EXCEPT ![r] = Over("failed")]
    /\ UNCHANGED <<tenants, superAdmin, seed>>

-----------------------------------------------------------------------------
(* Changes to a tenant                                                     *)

\* assertExists and the update: tenants are never deleted, so nothing can
\* come between that matters.
Change(r, a, t) ==
    /\ call[r].pc = "idle"
    /\ tenants' = [tenants EXCEPT ![a] = t]
    /\ call' = [call EXCEPT ![r] = [NewCall EXCEPT !.pc = "done", !.op = "change"]]
    /\ UNCHANGED <<superAdmin, seed>>

Update(r, a) == Change(r, a, [tenants[a] EXCEPT !.name = "edited"])
Suspend(r, a) == Change(r, a, [tenants[a] EXCEPT !.status = "suspended"])
Reactivate(r, a) == Change(r, a, [tenants[a] EXCEPT !.status = "active"])

-----------------------------------------------------------------------------
(* What an organization does with its rows once someone can sign in        *)

OwnField(a, k) ==
    /\ tenants[a].admin
    /\ tenants[a].fields[k] # "own"
    /\ tenants' = [tenants EXCEPT ![a].fields[k] = "own"]
    /\ UNCHANGED <<call, superAdmin, seed>>

OwnMember(a, c) ==
    /\ tenants[a].admin
    /\ tenants[a].members[c] # "own"
    /\ tenants' = [tenants EXCEPT ![a].members[c] = "own"]
    /\ UNCHANGED <<call, superAdmin, seed>>

-----------------------------------------------------------------------------
(* The seed script.  seed.org counts the demo organizations; past them the *)
(* script is at the tenants that backfillFieldDefinitions listed.          *)

InOrgs == seed.org \in Orgs
SeedTemplate ==
    IF InOrgs THEN DEMO_ORGS[seed.org].template ELSE tenants[seed.at].template

SeedStart ==
    /\ seed.pc \in {"off", "done"}
    /\ seed.runs < MaxRuns
    /\ seed' = Seed("admin", seed.runs + 1)
    /\ UNCHANGED <<tenants, call, superAdmin>>

\* On to the next demo organization, or to the list of all tenants.
NextOrg(i) ==
    IF i + 1 \in Orgs
    THEN [seed EXCEPT !.pc = "org", !.org = i + 1, !.at = DemoAddress(i + 1)]
    ELSE [seed EXCEPT !.pc = "list", !.org = Len(DEMO_ORGS) + 1]

seedSuperAdmin ==
    /\ seed.pc = "admin"
    /\ superAdmin' = TRUE
    /\ seed' = NextOrg(0)
    /\ UNCHANGED <<tenants, call>>

\* The upsert of the tenant: an existing one gets its name again.  The index
\* waits for a registration that is not committed.
UpsertTenant ==
    /\ seed.pc = "org"
    /\ \A r \in Req : Holds(r) => AddressOf(r) # seed.at
    /\ tenants' =
          IF Exists(seed.at) THEN [tenants EXCEPT ![seed.at].name = "given"]
          ELSE Put(seed.at, BareTenant("seed", SeedTemplate,
                                       DEMO_ORGS[seed.org].status))
    /\ seed' = [seed EXCEPT !.pc = "user"]
    /\ UNCHANGED <<call, superAdmin>>

UpsertUser ==
    /\ seed.pc = "user"
    /\ tenants' = [tenants EXCEPT ![seed.at].admin = TRUE]
    /\ seed' = [seed EXCEPT !.pc = "keys"]
    /\ UNCHANGED <<call, superAdmin>>

\* Mutant: a tenant that has any field is taken to have them all.
ReadKeysIfAny ==
    /\ seed.pc = "keys"
    /\ seed' = [seed EXCEPT !.pc = "create",
                    !.have = {k \in Field : \E j \in Field :
                                tenants[seed.at].fields[j] # "none"}]
    /\ UNCHANGED <<tenants, call, superAdmin>>

\* seedFieldDefinitions reads the keys there are ...
ReadKeys ==
    /\ seed.pc = "keys"
    /\ seed' = [seed EXCEPT !.pc = "create",
                    !.have = {k \in Field : tenants[seed.at].fields[k] # "none"}]
    /\ UNCHANGED <<tenants, call, superAdmin>>

Missing == fieldsForTemplate(SeedTemplate) \ seed.have
AfterFields ==
    IF InOrgs THEN [seed EXCEPT !.pc = "members", !.have = {},
                                !.todo = DEMO_ORGS[seed.org].members]
    ELSE [seed EXCEPT !.pc = "next", !.have = {}]

\* Mutant: a key that appeared meanwhile is overwritten.
CreateFieldsOver ==
    /\ seed.pc = "create"
    /\ tenants' = [tenants EXCEPT ![seed.at].fields =
                      seedData(tenants[seed.at].fields, Missing)]
    /\ seed' = AfterFields
    /\ UNCHANGED <<call, superAdmin>>

\* ... and inserts the others in one statement, which fails as a whole, and
\* the script with it, if one of them has appeared.
CreateFields ==
    /\ seed.pc = "create"
    /\ \/ /\ \A k \in Missing : tenants[seed.at].fields[k] = "none"
          /\ tenants' = [tenants EXCEPT ![seed.at].fields =
                            seedData(tenants[seed.at].fields, Missing)]
          /\ seed' = AfterFields
       \/ /\ \E k \in Missing : tenants[seed.at].fields[k] # "none"
          /\ seed' = Seed("off", seed.runs)
          /\ UNCHANGED tenants
    /\ UNCHANGED <<call, superAdmin>>

\* findFirst and create for one member.  If it appears in between, the unique
\* index ends the script: that is a SeedDies.
SeedMember(c) ==
    /\ seed.pc = "members" /\ c \in seed.todo
    /\ IF tenants[seed.at].members[c] = "none"
       THEN tenants' = [tenants EXCEPT ![seed.at].members[c] = "seeded"]
       ELSE UNCHANGED tenants
    /\ seed' = [seed EXCEPT !.todo = @ \ {c}]
    /\ UNCHANGED <<call, superAdmin>>

OrgReady ==
    /\ seed.pc = "members" /\ seed.todo = {}
    /\ seed' = NextOrg(seed.org)
    /\ UNCHANGED <<tenants, call, superAdmin>>

\* backfillFieldDefinitions: the tenants there are, then one after the other.
ListTenants ==
    /\ seed.pc = "list"
    /\ seed' = [seed EXCEPT !.pc = "next", !.listed = DOMAIN tenants,
                            !.left = DOMAIN tenants]
    /\ UNCHANGED <<tenants, call, superAdmin>>

Backfill ==
    /\ seed.pc = "next"
    /\ \/ /\ seed.left = {}
          /\ seed' = [Seed("done", seed.runs) EXCEPT !.listed = seed.listed]
       \/ \E a \in seed.left :
             seed' = [seed EXCEPT !.pc = "keys", !.at = a, !.left = @ \ {a}]
    /\ UNCHANGED <<tenants, call, superAdmin>>

\* An error or a kill: what has been written stays.
SeedDies ==
    /\ seed.pc \notin {"off", "done"}
    /\ seed' = Seed("off", seed.runs)
    /\ UNCHANGED <<tenants, call, superAdmin>>

-----------------------------------------------------------------------------
SeedStep ==
    \/ SeedStart \/ seedSuperAdmin \/ UpsertTenant \/ UpsertUser \/ ReadKeys
    \/ CreateFields \/ OrgReady \/ ListTenants \/ Backfill \/ SeedDies
    \/ \E c \in Code : SeedMember(c)

Next ==
    \/ \E r \in Req :
          \/ \E b \in Base, t \in Template : CreateStart(r, b, t)
          \/ resolveSlug(r) \/ InsertTenant(r) \/ InsertAdmin(r)
          \/ InsertFields(r) \/ Commit(r) \/ Rollback(r)
          \/ \E a \in DOMAIN tenants :
                Update(r, a) \/ Suspend(r, a) \/ Reactivate(r, a)
    \/ \E a \in (Active \X {1}) \cap DOMAIN tenants :
          \/ \E k \in OwnKey : OwnField(a, k)
          \/ \E c \in OwnCode : OwnMember(a, c)
    \/ SeedStep

Spec == Init /\ [][Next]_vars

-----------------------------------------------------------------------------
(* Properties                                                              *)

\* The types of the variables.
TypeOK ==
    /\ DOMAIN tenants \subseteq Address
    /\ tenants \in [DOMAIN tenants -> Tenant]
    /\ call \in [Req -> CallRec]
    /\ superAdmin \in BOOLEAN
    /\ seed \in SeedRec

\* "A tenant that exists but has no administrator cannot be signed into and
\* has to be repaired by hand" (tenants.service.ts:32-34); fields are created
\* in the same transaction because a half-loaded set "would render a broken
\* enrolment form" (tenants.service.ts:68-70).  Whatever fails, and whatever
\* the seed script does meanwhile, a registered tenant is never seen without
\* either.
NeverHalfRegistered ==
    \A a \in DOMAIN tenants :
        tenants[a].owner \in Req =>
            /\ tenants[a].admin
            /\ \A k \in fieldsForTemplate(tenants[a].template) :
                  tenants[a].fields[k] # "none"

\* resolveSlug looks for a free address long before it is taken
\* (tenants.service.ts:244): two registrations of one name, or one and the
\* seed script, may find the same one.  A registration that was answered has
\* the tenant it asked for, at its own address, and keeps it.
RegistrationKept ==
    \A r \in Req :
        call[r].op = "create" /\ call[r].pc = "done" =>
            /\ Exists(AddressOf(r))
            /\ tenants[AddressOf(r)].owner = r
            /\ tenants[AddressOf(r)].template = call[r].template

\* "Safe to re-run", and "repairs tenants created before field seeding
\* existed" (seed.ts:7, 245): the script has no transaction and may have died
\* anywhere before, but once a run has reached its end every demo organization
\* is complete, and every tenant that the backfill listed has its fields.
SeedConverges ==
    seed.pc = "done" =>
        /\ \A i \in Orgs :
              /\ Exists(DemoAddress(i))
              /\ tenants[DemoAddress(i)].admin
              /\ \A c \in DEMO_ORGS[i].members :
                    tenants[DemoAddress(i)].members[c] # "none"
              /\ \A k \in fieldsForTemplate(DEMO_ORGS[i].template) :
                    tenants[DemoAddress(i)].fields[k] # "none"
        /\ \A a \in seed.listed, k \in Field :
              k \in fieldsForTemplate(tenants[a].template) =>
                  tenants[a].fields[k] # "none"

\* "Existing rows are never overwritten: an organization that renamed a label
\* or changed a required flag keeps its choices" (seed.ts:245-247), also when
\* it makes the change between the script's look and its insert, and "a demo
\* record someone edited while testing stays as they left it" (seed.ts:216-217).
\* Nor does the script lift a suspension.
SeedKeepsChoices ==
    [][SeedStep =>
         \A a \in DOMAIN tenants :
            /\ \A k \in Field : tenants[a].fields[k] = "own"
                                    => tenants'[a].fields[k] = "own"
            /\ \A c \in Code : tenants[a].members[c] = "own"
                                   => tenants'[a].members[c] = "own"
            /\ tenants'[a].status = tenants[a].status]_vars

=============================================================================
