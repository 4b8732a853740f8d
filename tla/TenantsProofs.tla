--------------------------- MODULE TenantsProofs ---------------------------
(***************************************************************************)
(* Proofs about Tenants, for any requests, slugs, attempts and number of   *)
(* runs of the script.                                                     *)
(***************************************************************************)
EXTENDS Tenants, TLAPS

LEMMA DemoFacts ==
    /\ Len(DEMO_ORGS) = 2
    /\ \A i \in 1 .. 2 :
          /\ DEMO_ORGS[i].template \in Template
          /\ DEMO_ORGS[i].status \in Status
          /\ DEMO_ORGS[i].members \subseteq Code
    /\ Orgs \subseteq 1 .. 2
  <1>1. Len(DEMO_ORGS) = 2
    BY DEF DEMO_ORGS
  <1>2. /\ DEMO_ORGS[1].template \in Template /\ DEMO_ORGS[1].status \in Status
        /\ DEMO_ORGS[2].template \in Template /\ DEMO_ORGS[2].status \in Status
    BY DEF DEMO_ORGS, Template, Status
  <1>3. \A i \in 1 .. 2 : DEMO_ORGS[i].members \subseteq Code
    BY <1>1 DEF Code
  <1>4. \A i \in 1 .. 2 : i = 1 \/ i = 2
    OBVIOUS
  <1>5. Orgs \subseteq 1 .. 2
    BY <1>1 DEF Orgs
  <1>6. QED
    BY <1>1, <1>2, <1>3, <1>4, <1>5

LEMMA OrgsRange == \A i \in Orgs : i \in Nat /\ 1 <= i /\ i <= 2
  <1>1. Orgs \subseteq 1 .. 2
    BY DemoFacts
  <1>2. QED
    BY <1>1

LEMMA OrgsEnd == Len(DEMO_ORGS) + 1 = 3
  <1>1. Len(DEMO_ORGS) = 2
    BY DemoFacts
  <1>2. QED
    BY <1>1

LEMMA DemoAddressType == \A i \in Orgs : DemoAddress(i) \in Address
  BY TenantsAssumption DEF DemoAddress, Address

LEMMA BareType ==
    ASSUME NEW o \in Req \union {"seed", "legacy"}, NEW t \in Template,
           NEW s \in Status
    PROVE  BareTenant(o, t, s) \in Tenant
  BY DEF BareTenant, Tenant, Row

LEMMA SeedDataType ==
    ASSUME NEW f \in [Field -> Row], NEW K
    PROVE  seedData(f, K) \in [Field -> Row]
  BY DEF seedData, Row

\* What the operators on tenants return.
LEMMA PutFacts ==
    ASSUME NEW a, NEW t
    PROVE  /\ DOMAIN Put(a, t) = DOMAIN tenants \union {a}
           /\ Put(a, t)[a] = t
           /\ \A x \in DOMAIN tenants \ {a} : Put(a, t)[x] = tenants[x]
           /\ tenants \in [DOMAIN tenants -> Tenant] /\ t \in Tenant
                 => Put(a, t) \in [DOMAIN Put(a, t) -> Tenant]
  BY DEF Put

LEMMA NewCallType == NewCall \in CallRec
  BY TenantsAssumption DEF NewCall, CallRec, Template

LEMMA OverType ==
    ASSUME NEW pc \in {"refused", "failed"} PROVE Over(pc) \in CallRec
  BY NewCallType DEF Over, CallRec

LEMMA SeedType ==
    ASSUME NEW pc \in {"off", "admin", "done"}, NEW n \in 0 .. MaxRuns
    PROVE  Seed(pc, n) \in SeedRec
  BY DEF Seed, SeedRec


-----------------------------------------------------------------------------
(* Types.                                                                  *)

LEMMA TypeInit == Init => TypeOK
  <1> SUFFICES ASSUME Init PROVE TypeOK
    OBVIOUS
  <1>1. call \in [Req -> CallRec]
    BY NewCallType DEF Init
  <1>2. seed \in SeedRec
    BY SeedType, TenantsAssumption DEF Init
  <1>3. PICK old \in SUBSET Legacy :
           tenants = [a \in old \X {1} |->
                        [BareTenant("legacy", "education", "active")
                            EXCEPT !.admin = TRUE]]
    BY DEF Init
  <1>4. DOMAIN tenants \subseteq Address
    BY <1>3, TenantsAssumption DEF Address
  <1>5. [BareTenant("legacy", "education", "active") EXCEPT !.admin = TRUE]
           \in Tenant
    BY DEF BareTenant, Tenant, Row, Status, Template
  <1>6. tenants \in [DOMAIN tenants -> Tenant]
    BY <1>3, <1>5
  <1>7. superAdmin \in BOOLEAN
    BY DEF Init
  <1>8. QED
    BY <1>1, <1>2, <1>4, <1>6, <1>7 DEF TypeOK

\* The tenants are typed when one of them is replaced or added.
TenantsOK ==
    /\ DOMAIN tenants \subseteq Address
    /\ tenants \in [DOMAIN tenants -> Tenant]

LEMMA ReplaceType ==
    ASSUME TenantsOK, NEW a \in DOMAIN tenants, NEW t \in Tenant,
           tenants' = [tenants EXCEPT ![a] = t]
    PROVE  TenantsOK' /\ DOMAIN tenants' = DOMAIN tenants
  BY DEF TenantsOK

LEMMA PutType ==
    ASSUME TenantsOK, NEW a \in Address, NEW t \in Tenant,
           tenants' = Put(a, t)
    PROVE  TenantsOK' /\ DOMAIN tenants' = DOMAIN tenants \union {a}
  <1>1. DOMAIN Put(a, t) = DOMAIN tenants \union {a}
    BY PutFacts
  <1>2. Put(a, t) \in [DOMAIN Put(a, t) -> Tenant]
    BY PutFacts DEF TenantsOK
  <1>3. QED
    BY <1>1, <1>2 DEF TenantsOK

LEMMA SetField ==
    ASSUME NEW t \in Tenant
    PROVE  /\ \A f \in [Field -> Row] : [t EXCEPT !.fields = f] \in Tenant
           /\ \A m \in [Code -> Row] : [t EXCEPT !.members = m] \in Tenant
           /\ \A s \in Status : [t EXCEPT !.status = s] \in Tenant
           /\ \A n \in {"given", "edited"} : [t EXCEPT !.name = n] \in Tenant
           /\ [t EXCEPT !.admin = TRUE] \in Tenant
  BY DEF Tenant

LEMMA GotoType ==
    ASSUME TypeOK, NEW r \in Req,
           NEW pc \in {"tenant", "admin", "fields", "commit", "done"},
           Goto(r, pc)
    PROVE  call' \in [Req -> CallRec]
  <1>1. [call[r] EXCEPT !.pc = pc] \in CallRec
    BY DEF TypeOK, CallRec
  <1>2. call' = [call EXCEPT ![r] = [call[r] EXCEPT !.pc = pc]]
    BY DEF Goto
  <1>3. QED
    BY <1>1, <1>2 DEF TypeOK

LEMMA AddressType ==
    ASSUME TypeOK, NEW r \in Req PROVE AddressOf(r) \in Address
  BY DEF TypeOK, CallRec, AddressOf, Address

LEMMA RegisterType ==
    ASSUME TypeOK, NEW r \in Req,
           \/ \E b \in Base, t \in Template : CreateStart(r, b, t)
           \/ resolveSlug(r) \/ InsertTenant(r) \/ InsertAdmin(r)
           \/ InsertFields(r) \/ Commit(r) \/ Rollback(r)
    PROVE  TypeOK'
  <1>1. ASSUME NEW n \in CallRec, call' = [call EXCEPT ![r] = n],
               UNCHANGED <<tenants, superAdmin, seed>>
        PROVE  TypeOK'
    BY <1>1 DEF TypeOK
  <1>2. ASSUME NEW pc \in {"tenant", "admin", "fields", "commit"}, Goto(r, pc),
               UNCHANGED <<tenants, superAdmin, seed>>
        PROVE  TypeOK'
    BY <1>2, GotoType DEF TypeOK
  <1>3. ASSUME NEW b \in Base, NEW t \in Template, CreateStart(r, b, t)
        PROVE  TypeOK'
    <2>1. [NewCall EXCEPT !.pc = "resolve", !.op = "create",
                          !.base = b, !.template = t] \in CallRec
      BY NewCallType DEF CallRec
    <2>2. QED
      BY <1>1, <1>3, <2>1, OverType DEF CreateStart
  <1>4. CASE resolveSlug(r)
    <2>1. CASE ~Exists(AddressOf(r))
      BY <1>2, <1>4, <2>1 DEF resolveSlug
    <2>2. CASE Exists(AddressOf(r)) /\ call[r].attempt = Attempts
      <3>1. ~(call[r].attempt < Attempts)
        BY <2>2, TenantsAssumption
      <3>2. QED
        BY <1>1, <1>4, <2>2, <3>1, OverType DEF resolveSlug
    <2>3. CASE Exists(AddressOf(r)) /\ call[r].attempt < Attempts
      <3>1. [call[r] EXCEPT !.attempt = call[r].attempt + 1] \in CallRec
        BY <2>3, TenantsAssumption DEF TypeOK, CallRec
      <3>2. /\ call' = [call EXCEPT ![r] =
                           [call[r] EXCEPT !.attempt = call[r].attempt + 1]]
            /\ UNCHANGED <<tenants, superAdmin, seed>>
        BY <1>4, <2>3, TenantsAssumption DEF resolveSlug, TypeOK, CallRec
      <3>3. QED
        BY <1>1, <3>1, <3>2
    <2>4. QED
      BY <1>4, <2>1, <2>2, <2>3 DEF resolveSlug
  <1>5. CASE InsertTenant(r)
    BY <1>1, <1>2, <1>5, OverType DEF InsertTenant
  <1>6. CASE InsertAdmin(r)
    BY <1>2, <1>6 DEF InsertAdmin
  <1>7. CASE InsertFields(r)
    BY <1>2, <1>7 DEF InsertFields
  <1>8. CASE Commit(r)
    <2> DEFINE t == BareTenant(r, call[r].template, "trial")
               u == [t EXCEPT !.admin = TRUE,
                              !.fields = seedData(t.fields,
                                             fieldsForTemplate(t.template))]
    <2>1. t \in Tenant
      BY BareType DEF TypeOK, CallRec, Status
    <2>2. t.fields \in [Field -> Row]
      BY <2>1 DEF Tenant
    <2>3. seedData(t.fields, fieldsForTemplate(t.template)) \in [Field -> Row]
      BY <2>2, SeedDataType
    <2>4. u \in Tenant
      BY <2>1, <2>3 DEF Tenant
    <2>5. tenants' = Put(AddressOf(r), u)
      BY <1>8 DEF Commit
    <2>6. TenantsOK'
      BY <2>4, <2>5, AddressType, PutType DEF TypeOK, TenantsOK
    <2>7. QED
      BY <1>8, <2>6, GotoType DEF Commit, TypeOK, TenantsOK
  <1>9. CASE Rollback(r)
    BY <1>1, <1>9, OverType DEF Rollback
  <1>10. QED
    BY <1>3, <1>4, <1>5, <1>6, <1>7, <1>8, <1>9

LEMMA ChangeType ==
    ASSUME TypeOK, NEW r \in Req, NEW a \in DOMAIN tenants,
           Update(r, a) \/ Suspend(r, a) \/ Reactivate(r, a)
    PROVE  TypeOK'
  <1>1. tenants[a] \in Tenant
    BY DEF TypeOK
  <1>2. PICK t \in Tenant : Change(r, a, t)
    <2>1. tenants[a].fields \in [Field -> Row]
          /\ tenants[a].members \in [Code -> Row]
      BY <1>1 DEF Tenant
    <2>2. QED
      BY <1>1, <2>1, SetField DEF Update, Suspend, Reactivate, Status
  <1>3. TenantsOK'
    BY <1>2, ReplaceType DEF Change, TypeOK, TenantsOK
  <1>4. [NewCall EXCEPT !.pc = "done", !.op = "change"] \in CallRec
    BY NewCallType DEF CallRec
  <1>5. QED
    BY <1>2, <1>3, <1>4 DEF Change, TypeOK, TenantsOK

LEMMA OwnType ==
    ASSUME TypeOK, NEW a \in DOMAIN tenants,
           \/ \E k \in OwnKey : OwnField(a, k)
           \/ \E c \in OwnCode : OwnMember(a, c)
    PROVE  TypeOK'
  <1>1. /\ tenants[a] \in Tenant
        /\ tenants[a].fields \in [Field -> Row]
        /\ tenants[a].members \in [Code -> Row]
    BY DEF TypeOK, Tenant
  <1>2. ASSUME NEW k \in OwnKey, OwnField(a, k) PROVE TypeOK'
    <2> DEFINE f == [tenants[a].fields EXCEPT ![k] = "own"]
    <2>1. f \in [Field -> Row]
      BY <1>1 DEF Row
    <2>2. tenants' = [tenants EXCEPT ![a] = [tenants[a] EXCEPT !.fields = f]]
      BY <1>2 DEF OwnField
    <2>3. TenantsOK'
      BY <1>1, <2>1, <2>2, SetField, ReplaceType DEF TypeOK, TenantsOK
    <2>4. QED
      BY <1>2, <2>3 DEF OwnField, TypeOK, TenantsOK
  <1>3. ASSUME NEW c \in OwnCode, OwnMember(a, c) PROVE TypeOK'
    <2> DEFINE m == [tenants[a].members EXCEPT ![c] = "own"]
    <2>1. m \in [Code -> Row]
      BY <1>1 DEF Row
    <2>2. tenants' = [tenants EXCEPT ![a] = [tenants[a] EXCEPT !.members = m]]
      BY <1>3 DEF OwnMember
    <2>3. TenantsOK'
      BY <1>1, <2>1, <2>2, SetField, ReplaceType DEF TypeOK, TenantsOK
    <2>4. QED
      BY <1>3, <2>3 DEF OwnMember, TypeOK, TenantsOK
  <1>4. QED
    BY <1>2, <1>3

LEMMA NextOrgType ==
    ASSUME TypeOK, NEW i \in 0 .. 2 PROVE NextOrg(i) \in SeedRec
  <1>0. seed \in SeedRec
    BY DEF TypeOK
  <1>1. CASE i + 1 \in Orgs
    <2>1. DemoAddress(i + 1) \in Address
      BY <1>1, DemoAddressType
    <2>2. i + 1 \in 1 .. 2
      BY <1>1, DemoFacts
    <2>3. [seed EXCEPT !.pc = "org", !.org = i + 1, !.at = DemoAddress(i + 1)]
             \in SeedRec
      <3>1. i + 1 \in 0 .. Len(DEMO_ORGS) + 1
        BY <2>2, OrgsEnd
      <3>2. DemoAddress(i + 1) \in Address \union {<<>>}
        BY <2>1
      <3>3. QED
        BY <1>0, <3>1, <3>2 DEF SeedRec
    <2>4. QED
      BY <1>1, <2>3 DEF NextOrg
  <1>2. CASE i + 1 \notin Orgs
    <2>1. [seed EXCEPT !.pc = "list", !.org = Len(DEMO_ORGS) + 1] \in SeedRec
      <3>1. Len(DEMO_ORGS) + 1 \in 0 .. Len(DEMO_ORGS) + 1
        BY OrgsEnd
      <3>2. QED
        BY <1>0, <3>1 DEF SeedRec
    <2>2. QED
      BY <1>2, <2>1 DEF NextOrg
  <1>3. QED
    BY <1>1, <1>2

\* The script works at a tenant that is there: the demo organization it has
\* come to, or, past them, one that the backfill listed.
AtInv ==
    /\ seed.pc \in {"user", "keys", "create", "members"} => Exists(seed.at)
    /\ seed.pc \in {"org", "user", "members"} => InOrgs
    /\ InOrgs /\ seed.pc \in {"org", "user", "keys", "create", "members"}
          => seed.at = DemoAddress(seed.org)
    /\ seed.pc \in {"list", "next"} => seed.org = 3
    /\ seed.pc \in {"keys", "create"} /\ ~InOrgs => seed.org = 3
    /\ seed.listed \subseteq DOMAIN tenants
    /\ seed.left \subseteq DOMAIN tenants

LEMMA SeedTemplateType ==
    ASSUME TypeOK, AtInv, seed.pc \in {"org", "user", "keys", "create"},
           seed.pc = "org" => InOrgs
    PROVE  SeedTemplate \in Template
  <1>1. CASE InOrgs
    BY <1>1, DemoFacts DEF InOrgs, SeedTemplate
  <1>2. CASE ~InOrgs
    <2>1. tenants[seed.at] \in Tenant
      BY <1>2 DEF AtInv, Exists, TypeOK
    <2>2. QED
      BY <1>2, <2>1 DEF SeedTemplate, Tenant
  <1>3. QED
    BY <1>1, <1>2

LEMMA SeedStepType ==
    ASSUME TypeOK, AtInv, SeedStep
    PROVE  TypeOK'
  <1>0. /\ TenantsOK
        /\ seed \in SeedRec
    BY DEF TypeOK, TenantsOK
  <1>1. ASSUME UNCHANGED <<tenants, call, superAdmin>>, seed' \in SeedRec
        PROVE  TypeOK'
    BY <1>1 DEF TypeOK
  <1>2. ASSUME TenantsOK', UNCHANGED <<call, superAdmin>>, seed' \in SeedRec
        PROVE  TypeOK'
    BY <1>2 DEF TypeOK, TenantsOK
  <1>3. CASE SeedStart
    <2>1. seed.runs + 1 \in 0 .. MaxRuns
      BY <1>0, <1>3, TenantsAssumption DEF SeedStart, SeedRec
    <2>2. QED
      BY <1>1, <1>3, <2>1, SeedType DEF SeedStart
  <1>4. CASE seedSuperAdmin
    BY <1>4, NextOrgType DEF seedSuperAdmin, TypeOK
  <1>5. CASE UpsertTenant
    <2>1. InOrgs /\ seed.at = DemoAddress(seed.org)
      BY <1>5 DEF UpsertTenant, AtInv
    <2>2. seed.at \in Address
      BY <2>1, DemoAddressType DEF InOrgs
    <2>3. [seed EXCEPT !.pc = "user"] \in SeedRec
      BY <1>0 DEF SeedRec
    <2>4. CASE Exists(seed.at)
      <3>1. tenants[seed.at] \in Tenant
        BY <1>0, <2>4 DEF TenantsOK, Exists
      <3>2. [tenants[seed.at] EXCEPT !.name = "given"] \in Tenant
        BY <3>1, SetField
      <3>3. tenants' = [tenants EXCEPT ![seed.at] =
                           [tenants[seed.at] EXCEPT !.name = "given"]]
        BY <1>5, <2>4 DEF UpsertTenant
      <3>4. TenantsOK'
        BY <1>0, <2>4, <3>2, <3>3, ReplaceType DEF Exists
      <3>5. QED
        BY <1>2, <1>5, <2>3, <3>4 DEF UpsertTenant
    <2>5. CASE ~Exists(seed.at)
      <3>1. SeedTemplate \in Template /\ DEMO_ORGS[seed.org].status \in Status
        BY <1>5, <2>1, SeedTemplateType, DemoFacts DEF InOrgs, UpsertTenant
      <3>2. BareTenant("seed", SeedTemplate, DEMO_ORGS[seed.org].status)
               \in Tenant
        BY <3>1, BareType
      <3>3. TenantsOK'
        BY <1>0, <1>5, <2>2, <2>5, <3>2, PutType DEF UpsertTenant
      <3>4. QED
        BY <1>2, <1>5, <2>3, <3>3 DEF UpsertTenant
    <2>6. QED
      BY <2>4, <2>5
  <1>6. CASE UpsertUser
    <2>1. Exists(seed.at)
      BY <1>6 DEF UpsertUser, AtInv
    <2>2. tenants[seed.at] \in Tenant
      BY <1>0, <2>1 DEF TenantsOK, Exists
    <2>3. [tenants[seed.at] EXCEPT !.admin = TRUE] \in Tenant
      BY <2>2, SetField
    <2>4. tenants' = [tenants EXCEPT ![seed.at] =
                         [tenants[seed.at] EXCEPT !.admin = TRUE]]
      BY <1>6 DEF UpsertUser
    <2>5. TenantsOK'
      BY <1>0, <2>1, <2>3, <2>4, ReplaceType DEF Exists
    <2>6. seed' \in SeedRec
      BY <1>0, <1>6 DEF UpsertUser, SeedRec
    <2>7. QED
      BY <1>2, <1>6, <2>5, <2>6 DEF UpsertUser
  <1>7. CASE ReadKeys
    <2>1. seed' \in SeedRec
      BY <1>0, <1>7 DEF ReadKeys, SeedRec
    <2>2. QED
      BY <1>1, <1>7, <2>1 DEF ReadKeys
  <1>8. CASE CreateFields
    <2>1. Exists(seed.at)
      BY <1>8 DEF CreateFields, AtInv
    <2>2. tenants[seed.at] \in Tenant /\ tenants[seed.at].fields \in [Field -> Row]
      BY <1>0, <2>1 DEF TenantsOK, Exists, Tenant
    <2> DEFINE f == seedData(tenants[seed.at].fields, Missing)
    <2>3. [tenants[seed.at] EXCEPT !.fields = f] \in Tenant
      BY <2>2, SeedDataType, SetField
    <2>4. AfterFields \in SeedRec
      BY <1>0, DemoFacts DEF AfterFields, SeedRec, InOrgs
    <2>5. CASE /\ tenants' = [tenants EXCEPT ![seed.at].fields = f]
               /\ seed' = AfterFields
      <3>1. tenants' = [tenants EXCEPT ![seed.at] =
                           [tenants[seed.at] EXCEPT !.fields = f]]
        BY <2>5
      <3>2. TenantsOK'
        BY <1>0, <2>1, <2>3, <3>1, ReplaceType DEF Exists
      <3>3. QED
        BY <1>2, <1>8, <2>4, <2>5, <3>2 DEF CreateFields
    <2>6. CASE UNCHANGED tenants /\ seed' = Seed("off", seed.runs)
      <3>1. seed' \in SeedRec
        BY <1>0, <2>6, SeedType DEF SeedRec
      <3>2. QED
        BY <1>1, <1>8, <2>6, <3>1 DEF CreateFields
    <2>7. QED
      BY <1>8, <2>5, <2>6 DEF CreateFields
  <1>9. CASE OrgReady
    <2>1. seed.org \in Orgs
      BY <1>9 DEF OrgReady, AtInv, InOrgs
    <2>2. seed.org \in 0 .. 2
      BY <2>1, OrgsRange
    <2>3. QED
      BY <1>1, <1>9, <2>2, NextOrgType DEF OrgReady
  <1>10. CASE ListTenants
    <2>1. seed' \in SeedRec
      BY <1>0, <1>10 DEF ListTenants, SeedRec, TenantsOK
    <2>2. QED
      BY <1>1, <1>10, <2>1 DEF ListTenants
  <1>11. CASE Backfill
    <2>1. CASE seed' = [Seed("done", seed.runs) EXCEPT !.listed = seed.listed]
      <3>1. Seed("done", seed.runs) \in SeedRec
        BY <1>0, SeedType DEF SeedRec
      <3>2. seed' \in SeedRec
        BY <1>0, <2>1, <3>1 DEF SeedRec
      <3>3. QED
        BY <1>1, <1>11, <3>2 DEF Backfill
    <2>2. ASSUME NEW a \in seed.left,
                 seed' = [seed EXCEPT !.pc = "keys", !.at = a,
                                      !.left = seed.left \ {a}]
          PROVE  TypeOK'
      <3>1. seed' \in SeedRec
        BY <1>0, <2>2 DEF SeedRec
      <3>2. QED
        BY <1>1, <1>11, <3>1 DEF Backfill
    <2>3. QED
      BY <1>11, <2>1, <2>2 DEF Backfill
  <1>12. CASE SeedDies
    <2>1. seed' \in SeedRec
      BY <1>0, <1>12, SeedType DEF SeedDies, SeedRec
    <2>2. QED
      BY <1>1, <1>12, <2>1 DEF SeedDies
  <1>13. ASSUME NEW c \in Code, SeedMember(c)
         PROVE  TypeOK'
    <2>1. Exists(seed.at)
      BY <1>13 DEF SeedMember, AtInv
    <2>2. tenants[seed.at] \in Tenant /\ tenants[seed.at].members \in [Code -> Row]
      BY <1>0, <2>1 DEF TenantsOK, Exists, Tenant
    <2> DEFINE m == [tenants[seed.at].members EXCEPT ![c] = "seeded"]
    <2>3. m \in [Code -> Row]
      BY <2>2 DEF Row
    <2>4. [tenants[seed.at] EXCEPT !.members = m] \in Tenant
      BY <2>2, <2>3, SetField
    <2>5. seed' \in SeedRec
      BY <1>0, <1>13 DEF SeedMember, SeedRec
    <2>6. CASE tenants' = [tenants EXCEPT ![seed.at].members[c] = "seeded"]
      <3>1. tenants' = [tenants EXCEPT ![seed.at] =
                           [tenants[seed.at] EXCEPT !.members = m]]
        BY <2>6
      <3>2. TenantsOK'
        BY <1>0, <2>1, <2>4, <3>1, ReplaceType DEF Exists
      <3>3. QED
        BY <1>2, <1>13, <2>5, <3>2 DEF SeedMember
    <2>7. CASE UNCHANGED tenants
      BY <1>1, <1>13, <2>5, <2>7 DEF SeedMember
    <2>8. QED
      BY <1>13, <2>6, <2>7 DEF SeedMember
  <1>14. QED
    BY <1>3, <1>4, <1>5, <1>6, <1>7, <1>8, <1>9, <1>10, <1>11, <1>12, <1>13
       DEF SeedStep

LEMMA TypeStep ==
    ASSUME TypeOK, AtInv, [Next]_vars
    PROVE  TypeOK'
  <1>1. CASE SeedStep
    BY <1>1, SeedStepType
  <1>2. CASE UNCHANGED vars
    BY <1>2 DEF vars, TypeOK
  <1>3. QED
    BY <1>1, <1>2, RegisterType, ChangeType, OwnType DEF Next

-----------------------------------------------------------------------------
(* What a step may do to the tenants.                                      *)
(* A tenant that is not committed has its address to itself: no committed  *)
(* one is there, and no other that waits to be.                            *)

HoldsInv ==
    /\ \A r \in Req : Holds(r) => ~Exists(AddressOf(r))
    /\ \A r, q \in Req : r # q /\ Holds(r) /\ Holds(q)
                            => AddressOf(r) # AddressOf(q)

\* What was set up of a tenant stays set up.
Kept(t, u) ==
    /\ u.owner = t.owner
    /\ u.template = t.template
    /\ t.admin => u.admin
    /\ \A k \in Field : t.fields[k] # "none" => u.fields[k] # "none"
    /\ \A c \in Code : t.members[c] # "none" => u.members[c] # "none"

Grows ==
    \A a \in DOMAIN tenants : Exists(a)' /\ Kept(tenants[a], tenants'[a])

Complete(t) ==
    /\ t.admin
    /\ \A k \in fieldsForTemplate(t.template) : t.fields[k] # "none"

\* A tenant that appears is the script's or it is complete.
NewComplete ==
    \A a \in DOMAIN tenants' \ DOMAIN tenants :
        tenants'[a].owner \in Req => Complete(tenants'[a])

LEMMA SameTenants ==
    ASSUME UNCHANGED tenants PROVE Grows /\ NewComplete
  BY DEF Grows, NewComplete, Exists, Kept

LEMMA ReplaceGrows ==
    ASSUME TypeOK, NEW a \in DOMAIN tenants, NEW t, Kept(tenants[a], t),
           tenants' = [tenants EXCEPT ![a] = t]
    PROVE  Grows /\ NewComplete
  <1>1. DOMAIN tenants' = DOMAIN tenants
    OBVIOUS
  <1>2. tenants'[a] = t
    OBVIOUS
  <1>3. \A x \in DOMAIN tenants \ {a} : tenants'[x] = tenants[x]
    OBVIOUS
  <1>4. \A x : Kept(tenants[x], tenants[x])
    BY DEF Kept
  <1>5. QED
    BY <1>1, <1>2, <1>3, <1>4 DEF Grows, NewComplete, Exists

LEMMA PutGrows ==
    ASSUME NEW a, ~Exists(a), NEW t, t.owner \in Req => Complete(t),
           tenants' = Put(a, t)
    PROVE  Grows /\ NewComplete
  <1>1. /\ DOMAIN tenants' = DOMAIN tenants \union {a}
        /\ tenants'[a] = t
        /\ \A x \in DOMAIN tenants \ {a} : tenants'[x] = tenants[x]
    BY DEF Put
  <1>2. \A x : Kept(tenants[x], tenants[x])
    BY DEF Kept
  <1>3. QED
    BY <1>1, <1>2 DEF Grows, NewComplete, Exists

LEMMA CommitFacts ==
    ASSUME TypeOK, NEW r \in Req, Commit(r)
    PROVE  \E t \in Tenant : /\ tenants' = Put(AddressOf(r), t)
                             /\ t.owner = r
                             /\ t.template = call[r].template
                             /\ Complete(t)
  <1> DEFINE b == BareTenant(r, call[r].template, "trial")
             t == [b EXCEPT !.admin = TRUE,
                            !.fields = seedData(b.fields,
                                           fieldsForTemplate(b.template))]
  <1>1. b \in Tenant
    BY BareType DEF TypeOK, CallRec, Status
  <1>2. b.fields \in [Field -> Row] /\ b.template \in Template
    BY <1>1 DEF Tenant
  <1>3. t \in Tenant
    BY <1>1, <1>2, SeedDataType DEF Tenant
  <1>4. t.owner = r /\ t.template = call[r].template /\ t.admin
        /\ t.template = b.template
    BY DEF BareTenant
  <1>5. fieldsForTemplate(b.template) \subseteq Field
    BY DEF fieldsForTemplate, Field
  <1>6. t.fields = seedData(b.fields, fieldsForTemplate(b.template))
    BY DEF BareTenant
  <1>7. \A k \in fieldsForTemplate(b.template) : t.fields[k] = "seeded"
    BY <1>5, <1>6 DEF seedData
  <1>8. Complete(t)
    BY <1>4, <1>7 DEF Complete
  <1>9. tenants' = Put(AddressOf(r), t)
    BY DEF Commit
  <1>10. QED
    BY <1>3, <1>4, <1>8, <1>9

LEMMA TenantsStep ==
    ASSUME TypeOK, AtInv, HoldsInv, [Next]_vars
    PROVE  Grows /\ NewComplete
  <1>1. ASSUME NEW r \in Req, Commit(r)
        PROVE  Grows /\ NewComplete
    <2>1. ~Exists(AddressOf(r))
      BY <1>1 DEF HoldsInv, Holds, Commit
    <2>2. QED
      BY <1>1, <2>1, CommitFacts, PutGrows
  <1>2. ASSUME NEW r \in Req, NEW a \in DOMAIN tenants,
               Update(r, a) \/ Suspend(r, a) \/ Reactivate(r, a)
        PROVE  Grows /\ NewComplete
    <2>1. tenants[a] \in Tenant
      BY DEF TypeOK
    <2>2. PICK t : Change(r, a, t) /\ Kept(tenants[a], t)
      BY <1>2, <2>1 DEF Update, Suspend, Reactivate, Kept, Tenant
    <2>3. QED
      BY <2>2, ReplaceGrows DEF Change
  <1>3. ASSUME NEW a \in DOMAIN tenants, NEW k, OwnField(a, k)
        PROVE  Grows /\ NewComplete
    <2> DEFINE t == [tenants[a] EXCEPT
                       !.fields = [tenants[a].fields EXCEPT ![k] = "own"]]
    <2>1. tenants[a] \in Tenant /\ tenants[a].fields \in [Field -> Row]
      BY DEF TypeOK, Tenant
    <2>2. Kept(tenants[a], t)
      BY <2>1 DEF Kept, Tenant
    <2>3. tenants' = [tenants EXCEPT ![a] = t]
      BY <1>3 DEF OwnField
    <2>4. QED
      BY <2>2, <2>3, ReplaceGrows
  <1>4. ASSUME NEW a \in DOMAIN tenants, NEW c, OwnMember(a, c)
        PROVE  Grows /\ NewComplete
    <2> DEFINE t == [tenants[a] EXCEPT
                       !.members = [tenants[a].members EXCEPT ![c] = "own"]]
    <2>1. tenants[a] \in Tenant /\ tenants[a].members \in [Code -> Row]
      BY DEF TypeOK, Tenant
    <2>2. Kept(tenants[a], t)
      BY <2>1 DEF Kept, Tenant
    <2>3. tenants' = [tenants EXCEPT ![a] = t]
      BY <1>4 DEF OwnMember
    <2>4. QED
      BY <2>2, <2>3, ReplaceGrows
  <1>5. CASE UpsertTenant
    <2>1. CASE Exists(seed.at)
      <3> DEFINE t == [tenants[seed.at] EXCEPT !.name = "given"]
      <3>1. tenants[seed.at] \in Tenant
        BY <2>1 DEF TypeOK, Exists
      <3>2. Kept(tenants[seed.at], t)
        BY <3>1 DEF Kept, Tenant
      <3>3. tenants' = [tenants EXCEPT ![seed.at] = t]
        BY <1>5, <2>1 DEF UpsertTenant
      <3>4. QED
        BY <2>1, <3>2, <3>3, ReplaceGrows DEF Exists
    <2>2. CASE ~Exists(seed.at)
      <3> DEFINE t == BareTenant("seed", SeedTemplate,
                                 DEMO_ORGS[seed.org].status)
      <3>1. t.owner \notin Req
        BY TenantsAssumption DEF BareTenant
      <3>2. tenants' = Put(seed.at, t)
        BY <1>5, <2>2 DEF UpsertTenant
      <3>3. QED
        BY <2>2, <3>1, <3>2, PutGrows
    <2>3. QED
      BY <2>1, <2>2
  <1>6. CASE UpsertUser
    <2> DEFINE t == [tenants[seed.at] EXCEPT !.admin = TRUE]
    <2>1. seed.at \in DOMAIN tenants
      BY <1>6 DEF UpsertUser, AtInv, Exists
    <2>2. tenants[seed.at] \in Tenant
      BY <2>1 DEF TypeOK
    <2>3. Kept(tenants[seed.at], t)
      BY <2>2 DEF Kept, Tenant
    <2>4. tenants' = [tenants EXCEPT ![seed.at] = t]
      BY <1>6 DEF UpsertUser
    <2>5. QED
      BY <2>1, <2>3, <2>4, ReplaceGrows
  <1>7. CASE CreateFields
    <2> DEFINE f == seedData(tenants[seed.at].fields, Missing)
               t == [tenants[seed.at] EXCEPT !.fields = f]
    <2>1. seed.at \in DOMAIN tenants
      BY <1>7 DEF CreateFields, AtInv, Exists
    <2>2. tenants[seed.at] \in Tenant
      BY <2>1 DEF TypeOK
    <2>3. Kept(tenants[seed.at], t)
      BY <2>2 DEF Kept, Tenant, seedData
    <2>4. CASE tenants' = [tenants EXCEPT ![seed.at].fields = f]
      <3>1. tenants' = [tenants EXCEPT ![seed.at] = t]
        BY <2>4
      <3>2. QED
        BY <2>1, <2>3, <3>1, ReplaceGrows
    <2>5. QED
      BY <1>7, <2>4, SameTenants DEF CreateFields
  <1>8. ASSUME NEW c \in Code, SeedMember(c)
        PROVE  Grows /\ NewComplete
    <2> DEFINE m == [tenants[seed.at].members EXCEPT ![c] = "seeded"]
               t == [tenants[seed.at] EXCEPT !.members = m]
    <2>1. seed.at \in DOMAIN tenants
      BY <1>8 DEF SeedMember, AtInv, Exists
    <2>2. tenants[seed.at] \in Tenant /\ tenants[seed.at].members \in [Code -> Row]
      BY <2>1 DEF TypeOK, Tenant
    <2>3. Kept(tenants[seed.at], t)
      BY <2>2 DEF Kept, Tenant
    <2>4. CASE tenants' = [tenants EXCEPT ![seed.at].members[c] = "seeded"]
      <3>1. tenants' = [tenants EXCEPT ![seed.at] = t]
        BY <2>4
      <3>2. QED
        BY <2>1, <2>3, <3>1, ReplaceGrows
    <2>5. QED
      BY <1>8, <2>4, SameTenants DEF SeedMember
  <1>9. CASE \/ SeedStart \/ seedSuperAdmin \/ ReadKeys \/ OrgReady
             \/ ListTenants \/ Backfill \/ SeedDies
    BY <1>9, SameTenants DEF SeedStart, seedSuperAdmin, ReadKeys, OrgReady,
                             ListTenants, Backfill, SeedDies
  <1>10. ASSUME NEW r \in Req,
                \/ \E b \in Base, t \in Template : CreateStart(r, b, t)
                \/ resolveSlug(r) \/ InsertTenant(r) \/ InsertAdmin(r)
                \/ InsertFields(r) \/ Rollback(r)
         PROVE  Grows /\ NewComplete
    BY <1>10, SameTenants DEF CreateStart, resolveSlug, InsertTenant,
                              InsertAdmin, InsertFields, Rollback
  <1>11. CASE UNCHANGED vars
    BY <1>11, SameTenants DEF vars
  <1>12. QED
    BY <1>1, <1>2, <1>3, <1>4, <1>5, <1>6, <1>7, <1>8, <1>9, <1>10, <1>11
       DEF Next, SeedStep

-----------------------------------------------------------------------------
(* Registrations.                                                          *)

RegInv == HoldsInv /\ RegistrationKept /\ NeverHalfRegistered

LEMMA RegInit == Init => RegInv
  <1> SUFFICES ASSUME Init PROVE RegInv
    OBVIOUS
  <1>1. \A r \in Req : call[r].pc = "idle"
    BY DEF Init, NewCall
  <1>2. HoldsInv /\ RegistrationKept
    BY <1>1 DEF HoldsInv, Holds, RegistrationKept
  <1>3. \A a \in DOMAIN tenants : tenants[a].owner = "legacy"
    BY DEF Init, BareTenant
  <1>4. NeverHalfRegistered
    BY <1>3, TenantsAssumption DEF NeverHalfRegistered
  <1>5. QED
    BY <1>2, <1>4 DEF RegInv

LEMMA HalfStep ==
    ASSUME TypeOK, AtInv, RegInv, [Next]_vars
    PROVE  NeverHalfRegistered'
  <1>1. Grows /\ NewComplete
    BY TenantsStep DEF RegInv
  <1> SUFFICES ASSUME NEW a \in DOMAIN tenants', tenants'[a].owner \in Req
               PROVE  Complete(tenants'[a])
    BY DEF NeverHalfRegistered, Complete
  <1>3. CASE a \in DOMAIN tenants
    <2>1. Kept(tenants[a], tenants'[a])
      BY <1>1, <1>3 DEF Grows
    <2>2. tenants[a] \in Tenant
      BY <1>3 DEF TypeOK
    <2>3. Complete(tenants[a])
      BY <1>3, <2>1 DEF Kept, RegInv, NeverHalfRegistered, Complete
    <2>4. fieldsForTemplate(tenants[a].template) \subseteq Field
      BY DEF fieldsForTemplate, Field
    <2>5. QED
      BY <2>1, <2>3, <2>4 DEF Kept, Complete
  <1>4. CASE a \notin DOMAIN tenants
    BY <1>1, <1>4 DEF NewComplete
  <1>5. QED
    BY <1>3, <1>4

\* The other requests keep their record.
Others(r) == \A q \in Req \ {r} : call'[q] = call[q]

LEMMA OverPc ==
    /\ Over("refused").pc = "refused"
    /\ Over("failed").pc = "failed"
  BY DEF Over, NewCall

LEMMA GotoFacts ==
    ASSUME TypeOK, NEW r \in Req, NEW pc, Goto(r, pc)
    PROVE  /\ call'[r].pc = pc
           /\ AddressOf(r)' = AddressOf(r)
           /\ call'[r].template = call[r].template
           /\ Others(r)
  <1>1. call[r] \in CallRec /\ call' = [call EXCEPT ![r].pc = pc]
    BY DEF TypeOK, Goto
  <1>2. call'[r] = [call[r] EXCEPT !.pc = pc]
    BY <1>1 DEF TypeOK
  <1>3. QED
    BY <1>1, <1>2 DEF CallRec, AddressOf, Others

LEMMA RegisterStep ==
    ASSUME TypeOK, AtInv, RegInv, NEW r \in Req,
           \/ \E b \in Base, t \in Template : CreateStart(r, b, t)
           \/ resolveSlug(r) \/ InsertTenant(r) \/ InsertAdmin(r)
           \/ InsertFields(r) \/ Rollback(r)
    PROVE  HoldsInv' /\ RegistrationKept'
  <1>1. UNCHANGED tenants
    BY DEF CreateStart, resolveSlug, InsertTenant, InsertAdmin, InsertFields,
           Rollback
  <1>2. call \in [Req -> CallRec] /\ call[r] \in CallRec
    BY DEF TypeOK
  <1>3. Others(r)
    BY <1>2, GotoFacts DEF Others, CreateStart, resolveSlug, InsertTenant,
           InsertAdmin, InsertFields, Rollback
  <1>4. \A q \in Req \ {r} : (Holds(q)' <=> Holds(q)) /\ AddressOf(q)' = AddressOf(q)
    BY <1>3 DEF Others, Holds, AddressOf
  <1>5. call'[r].pc # "done" /\
        (Holds(r)' => /\ AddressOf(r)' = AddressOf(r)
                      /\ \/ Holds(r)
                         \/ /\ ~Exists(AddressOf(r))
                            /\ \A q \in Req \ {r} :
                                  Holds(q) => AddressOf(q) # AddressOf(r))
    <2>1. ASSUME call'[r].pc \in {"refused", "resolve", "tenant", "failed"}
          PROVE  call'[r].pc # "done" /\ ~Holds(r)'
      BY <2>1 DEF Holds
    <2>2. ASSUME NEW b \in Base, NEW t \in Template, CreateStart(r, b, t)
          PROVE  call'[r].pc \in {"refused", "resolve"}
      BY <1>2, <2>2, OverPc DEF CreateStart, NewCall
    <2>3. CASE Rollback(r)
      BY <1>2, <2>1, <2>3, OverPc DEF Rollback
    <2>4. CASE resolveSlug(r)
      <3>1. CASE call' = [call EXCEPT ![r] = Over("refused")]
        BY <1>2, <2>1, <3>1, OverPc
      <3>2. CASE Goto(r, "tenant")
        BY <2>1, <3>2, GotoFacts
      <3>3. CASE call' = [call EXCEPT ![r].attempt = call[r].attempt + 1]
        <4>1. call'[r].pc = call[r].pc
          BY <1>2, <3>3 DEF CallRec
        <4>2. QED
          BY <2>1, <2>4, <4>1 DEF resolveSlug
      <3>4. QED
        BY <2>4, <3>1, <3>2, <3>3 DEF resolveSlug
    <2>5. CASE InsertTenant(r)
      <3>1. CASE call' = [call EXCEPT ![r] = Over("failed")]
        BY <1>2, <2>1, <3>1, OverPc
      <3>2. CASE Goto(r, "admin") /\ ~Exists(AddressOf(r))
        BY <2>5, <3>2, GotoFacts DEF InsertTenant
      <3>3. QED
        BY <2>5, <3>1, <3>2 DEF InsertTenant
    <2>6. CASE InsertAdmin(r)
      BY <2>6, GotoFacts DEF InsertAdmin, Holds
    <2>7. CASE InsertFields(r)
      BY <2>7, GotoFacts DEF InsertFields, Holds
    <2>8. QED
      BY <2>1, <2>2, <2>3, <2>4, <2>5, <2>6, <2>7
  <1>6. RegistrationKept'
    BY <1>1, <1>3, <1>5 DEF RegInv, RegistrationKept, Others, Exists, AddressOf
  <1>7. HoldsInv'
    BY <1>1, <1>4, <1>5 DEF RegInv, HoldsInv, Exists
  <1>8. QED
    BY <1>6, <1>7

LEMMA CommitStep ==
    ASSUME TypeOK, AtInv, RegInv, NEW r \in Req, Commit(r)
    PROVE  HoldsInv' /\ RegistrationKept'
  <1>1. call \in [Req -> CallRec] /\ call[r] \in CallRec
    BY DEF TypeOK
  <1>2. PICK t \in Tenant : /\ tenants' = Put(AddressOf(r), t)
                            /\ t.owner = r
                            /\ t.template = call[r].template
    BY CommitFacts
  <1>3. /\ DOMAIN tenants' = DOMAIN tenants \union {AddressOf(r)}
        /\ tenants'[AddressOf(r)] = t
        /\ \A x \in DOMAIN tenants \ {AddressOf(r)} : tenants'[x] = tenants[x]
    BY <1>2 DEF Put
  <1>4. Holds(r) /\ ~Exists(AddressOf(r))
    BY DEF Commit, Holds, RegInv, HoldsInv
  <1>5. Others(r)
    BY GotoFacts DEF Commit
  <1>6. /\ call'[r].pc = "done" /\ AddressOf(r)' = AddressOf(r)
        /\ call'[r].template = call[r].template
    BY GotoFacts DEF Commit
  <1>7. \A q \in Req \ {r} : /\ Holds(q)' <=> Holds(q)
                             /\ AddressOf(q)' = AddressOf(q)
    BY <1>5 DEF Others, Holds, AddressOf
  <1>8. ~Holds(r)'
    BY <1>6 DEF Holds
  <1>9. HoldsInv'
    BY <1>3, <1>4, <1>7, <1>8 DEF RegInv, HoldsInv, Exists
  <1>10. \A q \in Req \ {r} : call[q].op = "create" /\ call[q].pc = "done" =>
            /\ AddressOf(q) \in DOMAIN tenants
            /\ AddressOf(q) # AddressOf(r)
            /\ tenants[AddressOf(q)].owner = q
            /\ tenants[AddressOf(q)].template = call[q].template
    BY <1>4 DEF RegInv, RegistrationKept, Exists
  <1>11. RegistrationKept'
    BY <1>2, <1>3, <1>5, <1>6, <1>7, <1>10
       DEF RegistrationKept, Others, Exists
  <1>12. QED
    BY <1>9, <1>11

\* A step that leaves the registrations alone, and adds no tenant where one
\* of them waits, keeps both.
LEMMA OtherStep ==
    ASSUME TypeOK, AtInv, RegInv, Grows,
           \A q \in Req : \/ call'[q] = call[q]
                          \/ call'[q].pc = "done" /\ call'[q].op = "change",
           \A q \in Req : Holds(q) => AddressOf(q) \notin DOMAIN tenants'
    PROVE  HoldsInv' /\ RegistrationKept'
  <1>1. \A q \in Req : Holds(q)' => Holds(q) /\ AddressOf(q)' = AddressOf(q)
    BY DEF Holds, AddressOf
  <1>2. HoldsInv'
    BY <1>1 DEF RegInv, HoldsInv, Exists
  <1>3. ASSUME NEW q \in Req, call'[q].op = "create", call'[q].pc = "done"
        PROVE  /\ Exists(AddressOf(q))'
               /\ tenants'[AddressOf(q)'].owner = q
               /\ tenants'[AddressOf(q)'].template = call'[q].template
    <2>1. call'[q] = call[q] /\ AddressOf(q)' = AddressOf(q)
      BY <1>3 DEF AddressOf
    <2>2. /\ AddressOf(q) \in DOMAIN tenants
          /\ tenants[AddressOf(q)].owner = q
          /\ tenants[AddressOf(q)].template = call[q].template
      BY <1>3, <2>1 DEF RegInv, RegistrationKept, Exists
    <2>3. QED
      BY <2>1, <2>2 DEF Grows, Kept, Exists
  <1>4. QED
    BY <1>2, <1>3 DEF RegistrationKept

LEMMA HoldsStep ==
    ASSUME TypeOK, AtInv, RegInv, [Next]_vars
    PROVE  HoldsInv' /\ RegistrationKept'
  <1>1. Grows
    BY TenantsStep DEF RegInv
  <1>2. \A q \in Req : Holds(q) => AddressOf(q) \notin DOMAIN tenants
    BY DEF RegInv, HoldsInv, Exists
  <1>3. ASSUME NEW r \in Req, NEW a \in DOMAIN tenants,
               Update(r, a) \/ Suspend(r, a) \/ Reactivate(r, a)
        PROVE  HoldsInv' /\ RegistrationKept'
    <2>1. PICK t : Change(r, a, t)
      BY <1>3 DEF Update, Suspend, Reactivate
    <2>2. DOMAIN tenants' = DOMAIN tenants
      BY <2>1 DEF Change
    <2>3. \A q \in Req : \/ call'[q] = call[q]
                         \/ call'[q].pc = "done" /\ call'[q].op = "change"
      <3>1. call' = [call EXCEPT ![r] =
                        [NewCall EXCEPT !.pc = "done", !.op = "change"]]
        BY <2>1 DEF Change
      <3>2. QED
        BY <3>1 DEF TypeOK, NewCall
    <2>4. \A q \in Req : Holds(q) => AddressOf(q) \notin DOMAIN tenants'
      BY <1>2, <2>2
    <2>5. QED
      BY <1>1, <2>3, <2>4, OtherStep
  <1>4. ASSUME call' = call, DOMAIN tenants' = DOMAIN tenants
        PROVE  HoldsInv' /\ RegistrationKept'
    <2>1. \A q \in Req : call'[q] = call[q]
      BY <1>4
    <2>2. \A q \in Req : Holds(q) => AddressOf(q) \notin DOMAIN tenants'
      BY <1>2, <1>4
    <2>3. QED
      BY <1>1, <2>1, <2>2, OtherStep
  <1>5. ASSUME NEW a \in DOMAIN tenants,
               \/ \E k \in OwnKey : OwnField(a, k)
               \/ \E c \in OwnCode : OwnMember(a, c)
        PROVE  HoldsInv' /\ RegistrationKept'
    BY <1>4, <1>5 DEF OwnField, OwnMember
  <1>6. CASE UpsertTenant
    <2>1. DOMAIN tenants' \subseteq DOMAIN tenants \union {seed.at}
      BY <1>6 DEF UpsertTenant, Put
    <2>2. \A q \in Req : Holds(q) => AddressOf(q) \notin DOMAIN tenants'
      BY <1>2, <1>6, <2>1 DEF UpsertTenant
    <2>3. \A q \in Req : call'[q] = call[q]
      BY <1>6 DEF UpsertTenant
    <2>4. QED
      BY <1>1, <2>2, <2>3, OtherStep
  <1>7. CASE SeedStep /\ ~UpsertTenant
    <2>1. call' = call /\ DOMAIN tenants' = DOMAIN tenants
      BY <1>7 DEF SeedStep, SeedStart, seedSuperAdmin, UpsertUser, ReadKeys,
                  CreateFields, OrgReady, ListTenants, Backfill, SeedDies,
                  SeedMember
    <2>2. QED
      BY <1>4, <2>1
  <1>8. CASE UNCHANGED vars
    <2>1. call' = call /\ DOMAIN tenants' = DOMAIN tenants
      BY <1>8 DEF vars
    <2>2. QED
      BY <1>4, <2>1
  <1>9. CASE SeedStep
    BY <1>6, <1>7, <1>9
  <1>10. QED
    BY <1>3, <1>5, <1>8, <1>9, RegisterStep, CommitStep DEF Next

LEMMA RegStep ==
    ASSUME TypeOK, AtInv, RegInv, [Next]_vars
    PROVE  RegInv'
  BY HoldsStep, HalfStep DEF RegInv

-----------------------------------------------------------------------------
(* Where the script is.                                                    *)

LEMMA AtInit == Init => AtInv
  BY DEF Init, AtInv, Seed, InOrgs

LEMMA OrgsUpTo ==
    /\ 3 \notin Orgs
    /\ \A i \in Orgs \union {0} : i + 1 \notin Orgs => \A j \in Orgs : j <= i
  <1>1. Orgs = {} \/ Orgs = 1 .. 2
    BY DemoFacts DEF Orgs
  <1>2. CASE Orgs = {}
    BY <1>2
  <1>3. CASE Orgs = 1 .. 2
    BY <1>3
  <1>4. QED
    BY <1>1, <1>2, <1>3

\* The script goes on at the demo organization after the i-th, or lists the
\* tenants.
LEMMA NextOrgFacts ==
    ASSUME TypeOK, NEW i \in 0 .. 2, seed' = NextOrg(i)
    PROVE  /\ seed'.listed = seed.listed /\ seed'.left = seed.left
           /\ \/ /\ i + 1 \in Orgs /\ seed'.pc = "org" /\ seed'.org = i + 1
                 /\ seed'.at = DemoAddress(i + 1)
              \/ /\ i + 1 \notin Orgs /\ seed'.pc = "list" /\ seed'.org = 3
  <1>1. seed \in SeedRec
    BY DEF TypeOK
  <1>2. CASE i + 1 \in Orgs
    <2>1. seed' = [seed EXCEPT !.pc = "org", !.org = i + 1,
                               !.at = DemoAddress(i + 1)]
      BY <1>2 DEF NextOrg
    <2>2. QED
      BY <1>1, <1>2, <2>1 DEF SeedRec
  <1>3. CASE i + 1 \notin Orgs
    <2>1. seed' = [seed EXCEPT !.pc = "list", !.org = 3]
      BY <1>3, OrgsEnd DEF NextOrg
    <2>2. QED
      BY <1>1, <1>3, <2>1 DEF SeedRec
  <1>4. QED
    BY <1>2, <1>3

\* OrgReady is at one of them.
LEMMA OrgIndex ==
    ASSUME TypeOK, InOrgs
    PROVE  seed.org \in 0 .. 2 /\ seed.org \in Orgs /\ seed.org # 3
  BY OrgsRange DEF InOrgs

LEMMA AtStep ==
    ASSUME TypeOK, AtInv, Grows, [Next]_vars
    PROVE  AtInv'
  <1>0. seed \in SeedRec /\ DOMAIN tenants \subseteq DOMAIN tenants'
    BY DEF TypeOK, Grows, Exists
  <1>1. CASE seed' = seed
    BY <1>0, <1>1 DEF AtInv, Exists, InOrgs
  <1>2. CASE SeedStart
    <2>1. seed' = Seed("admin", seed.runs + 1)
      BY <1>2 DEF SeedStart
    <2>2. QED
      BY <2>1 DEF AtInv, Seed, InOrgs
  <1>3. ASSUME NEW i \in 0 .. 2, seed' = NextOrg(i)
        PROVE  AtInv'
    BY <1>0, <1>3, NextOrgFacts DEF AtInv, InOrgs
  <1>4. CASE seedSuperAdmin
    BY <1>3, <1>4 DEF seedSuperAdmin
  <1>5. CASE UpsertTenant
    <2>1. seed' = [seed EXCEPT !.pc = "user"]
      BY <1>5 DEF UpsertTenant
    <2>2. seed.at \in DOMAIN tenants'
      BY <1>0, <1>5 DEF UpsertTenant, Put, Exists
    <2>3. QED
      BY <1>0, <1>5, <2>1, <2>2 DEF UpsertTenant, AtInv, Exists, InOrgs, SeedRec
  <1>6. CASE UpsertUser
    <2>1. seed' = [seed EXCEPT !.pc = "keys"]
      BY <1>6 DEF UpsertUser
    <2>2. QED
      BY <1>0, <1>6, <2>1 DEF UpsertUser, AtInv, Exists, InOrgs, SeedRec
  <1>7. CASE ReadKeys
    <2>1. /\ seed'.pc = "create" /\ seed'.org = seed.org /\ seed'.at = seed.at
          /\ seed'.listed = seed.listed /\ seed'.left = seed.left
      BY <1>0, <1>7 DEF ReadKeys, SeedRec
    <2>2. QED
      BY <1>0, <1>7, <2>1 DEF ReadKeys, AtInv, Exists, InOrgs
  <1>8. CASE seed' = Seed("off", seed.runs)
    BY <1>8 DEF AtInv, Seed, InOrgs
  <1>9. CASE seed.pc = "create" /\ seed' = AfterFields
    <2>1. /\ seed'.org = seed.org /\ seed'.at = seed.at
          /\ seed'.listed = seed.listed /\ seed'.left = seed.left
          /\ seed'.pc = IF InOrgs THEN "members" ELSE "next"
      BY <1>0, <1>9 DEF AfterFields, SeedRec
    <2>2. QED
      BY <1>0, <1>9, <2>1 DEF AtInv, Exists, InOrgs
  <1>10. CASE CreateFields
    BY <1>8, <1>9, <1>10 DEF CreateFields
  <1>11. CASE OrgReady
    <2>1. seed.org \in 0 .. 2
      BY <1>11, OrgIndex DEF OrgReady, AtInv
    <2>2. QED
      BY <1>3, <1>11, <2>1 DEF OrgReady
  <1>12. CASE ListTenants
    <2>1. /\ seed'.pc = "next" /\ seed'.org = seed.org /\ seed'.at = seed.at
          /\ seed'.listed = DOMAIN tenants /\ seed'.left = DOMAIN tenants
      BY <1>0, <1>12 DEF ListTenants, SeedRec
    <2>2. QED
      BY <1>0, <1>12, <2>1 DEF ListTenants, AtInv, InOrgs
  <1>13. CASE Backfill
    <2>1. CASE seed' = [Seed("done", seed.runs) EXCEPT !.listed = seed.listed]
      BY <1>0, <2>1 DEF AtInv, Seed, InOrgs
    <2>2. ASSUME NEW a \in seed.left,
                 seed' = [seed EXCEPT !.pc = "keys", !.at = a,
                                      !.left = seed.left \ {a}]
          PROVE  AtInv'
      <3>1. /\ seed'.pc = "keys" /\ seed'.org = seed.org /\ seed'.at = a
            /\ seed'.listed = seed.listed /\ seed'.left = seed.left \ {a}
        BY <1>0, <2>2 DEF SeedRec
      <3>2. seed.org = 3 /\ a \in DOMAIN tenants
        BY <1>13 DEF Backfill, AtInv
      <3>3. QED
        BY <1>0, <3>1, <3>2, OrgsUpTo DEF AtInv, Exists, InOrgs
    <2>3. QED
      BY <1>13, <2>1, <2>2 DEF Backfill
  <1>14. CASE SeedDies
    BY <1>8, <1>14 DEF SeedDies
  <1>15. ASSUME NEW c \in Code, SeedMember(c)
         PROVE  AtInv'
    <2>1. /\ seed'.pc = "members" /\ seed'.org = seed.org /\ seed'.at = seed.at
          /\ seed'.listed = seed.listed /\ seed'.left = seed.left
      BY <1>0, <1>15 DEF SeedMember, SeedRec
    <2>2. QED
      BY <1>0, <1>15, <2>1 DEF SeedMember, AtInv, Exists, InOrgs
  <1>16. CASE SeedStep
    BY <1>2, <1>4, <1>5, <1>6, <1>7, <1>10, <1>11, <1>12, <1>13, <1>14, <1>15,
       <1>16 DEF SeedStep
  <1>17. CASE ~SeedStep
    <2>1. seed' = seed
      BY <1>17 DEF Next, vars, CreateStart, resolveSlug, InsertTenant,
                   InsertAdmin, InsertFields, Commit, Rollback, Update, Suspend,
                   Reactivate, Change, OwnField, OwnMember
    <2>2. QED
      BY <1>1, <2>1
  <1>18. QED
    BY <1>16, <1>17

IInv == TypeOK /\ AtInv /\ RegInv

LEMMA IInvStep == IInv /\ [Next]_vars => IInv'
  BY TypeStep, AtStep, RegStep, TenantsStep DEF IInv, RegInv

LEMMA IInvCorrect == Spec => []IInv
  BY TypeInit, AtInit, RegInit, IInvStep, PTL DEF Spec, IInv

\* Every reachable state is well typed: no attempt passes the limit of
\* resolveSlug, and a record is never changed before it is there.
THEOREM TypeCorrect == Spec => []TypeOK
  BY IInvCorrect, PTL DEF IInv

\* Whatever fails and whatever the script does meanwhile, a registered tenant
\* has its administrator and all its fields (tenants.service.ts:32-34, 68-70).
THEOREM RegisteredWhole == Spec => []NeverHalfRegistered
  BY IInvCorrect, PTL DEF IInv, RegInv

\* However many registrations found the same address free, each that was
\* answered has the tenant it asked for (tenants.service.ts:244).
THEOREM RegisteredKept == Spec => []RegistrationKept
  BY IInvCorrect, PTL DEF IInv, RegInv

-----------------------------------------------------------------------------
(* What the organizations chose.                                           *)

OwnKept(t, u) ==
    /\ \A k \in Field : t.fields[k] = "own" => u.fields[k] = "own"
    /\ \A c \in Code : t.members[c] = "own" => u.members[c] = "own"
    /\ u.status = t.status

LEMMA ReplaceKeeps ==
    ASSUME NEW a \in DOMAIN tenants, NEW t, OwnKept(tenants[a], t),
           tenants' = [tenants EXCEPT ![a] = t]
    PROVE  \A x \in DOMAIN tenants : OwnKept(tenants[x], tenants'[x])
  <1>1. \A x \in DOMAIN tenants :
           tenants'[x] = IF x = a THEN t ELSE tenants[x]
    OBVIOUS
  <1>2. QED
    BY <1>1 DEF OwnKept

LEMMA SameKeeps ==
    ASSUME UNCHANGED tenants
    PROVE  \A x \in DOMAIN tenants : OwnKept(tenants[x], tenants'[x])
  BY DEF OwnKept

LEMMA ChoicesStep ==
    ASSUME TypeOK, AtInv, SeedStep
    PROVE  \A x \in DOMAIN tenants : OwnKept(tenants[x], tenants'[x])
  <1> DEFINE Goal == \A x \in DOMAIN tenants : OwnKept(tenants[x], tenants'[x])
             here == tenants[seed.at]
  <1>1. ASSUME Exists(seed.at)
        PROVE  /\ seed.at \in DOMAIN tenants /\ here \in Tenant
               /\ here.fields \in [Field -> Row]
               /\ here.members \in [Code -> Row]
    BY <1>1 DEF TypeOK, Exists, Tenant
  <1>2. CASE UpsertTenant /\ Exists(seed.at)
    <2> DEFINE t == [here EXCEPT !.name = "given"]
    <2>1. tenants' = [tenants EXCEPT ![seed.at] = t]
      BY <1>2 DEF UpsertTenant
    <2>2. OwnKept(here, t)
      BY <1>1, <1>2 DEF OwnKept, Tenant
    <2>3. QED
      BY <1>1, <1>2, <2>1, <2>2, ReplaceKeeps
  <1>3. CASE UpsertTenant /\ ~Exists(seed.at)
    BY <1>3 DEF UpsertTenant, Put, Exists, OwnKept
  <1>4. CASE UpsertUser
    <2> DEFINE t == [here EXCEPT !.admin = TRUE]
    <2>1. tenants' = [tenants EXCEPT ![seed.at] = t] /\ Exists(seed.at)
      BY <1>4 DEF UpsertUser, AtInv
    <2>2. OwnKept(here, t)
      BY <1>1, <2>1 DEF OwnKept, Tenant
    <2>3. QED
      BY <1>1, <2>1, <2>2, ReplaceKeeps
  <1>5. CASE /\ CreateFields
             /\ \A k \in Missing : here.fields[k] = "none"
             /\ tenants' = [tenants EXCEPT ![seed.at].fields =
                               seedData(here.fields, Missing)]
    <2> DEFINE f == seedData(here.fields, Missing)
               t == [here EXCEPT !.fields = f]
    <2>1. Exists(seed.at)
      BY <1>5 DEF CreateFields, AtInv
    <2>2. tenants' = [tenants EXCEPT ![seed.at] = t]
      BY <1>5
    <2>3. \A k \in Field : here.fields[k] = "own" => f[k] = "own"
      BY <1>5 DEF seedData
    <2>4. OwnKept(here, t)
      BY <1>1, <2>1, <2>3 DEF OwnKept, Tenant
    <2>5. QED
      BY <1>1, <2>1, <2>2, <2>4, ReplaceKeeps
  <1>6. ASSUME NEW c \in Code, SeedMember(c), here.members[c] = "none"
        PROVE  Goal
    <2> DEFINE m == [here.members EXCEPT ![c] = "seeded"]
               t == [here EXCEPT !.members = m]
    <2>1. Exists(seed.at)
      BY <1>6 DEF SeedMember, AtInv
    <2>2. tenants' = [tenants EXCEPT ![seed.at] = t]
      BY <1>6 DEF SeedMember
    <2>3. OwnKept(here, t)
      BY <1>1, <1>6, <2>1 DEF OwnKept, Tenant
    <2>4. QED
      BY <1>1, <2>1, <2>2, <2>3, ReplaceKeeps
  <1>7. CASE UNCHANGED tenants
    BY <1>7, SameKeeps
  <1>8. CASE CreateFields
    BY <1>5, <1>7, <1>8 DEF CreateFields
  <1>9. ASSUME NEW c \in Code, SeedMember(c)
        PROVE  Goal
    BY <1>6, <1>7, <1>9 DEF SeedMember
  <1>10. CASE \/ SeedStart \/ seedSuperAdmin \/ ReadKeys \/ OrgReady
              \/ ListTenants \/ Backfill \/ SeedDies
    BY <1>7, <1>10 DEF SeedStart, seedSuperAdmin, ReadKeys, OrgReady,
                       ListTenants, Backfill, SeedDies
  <1>11. QED
    BY <1>2, <1>3, <1>4, <1>8, <1>9, <1>10 DEF SeedStep

\* Whatever order the script and the organizations take, the script changes
\* no field and no member that is the organization's own, and no status
\* (seed.ts:216-217, 245-247).
THEOREM ChoicesKept == Spec => SeedKeepsChoices
  <1>1. IInv /\ [Next]_vars =>
           [SeedStep =>
              \A a \in DOMAIN tenants :
                 /\ \A k \in Field : tenants[a].fields[k] = "own"
                                         => tenants'[a].fields[k] = "own"
                 /\ \A c \in Code : tenants[a].members[c] = "own"
                                        => tenants'[a].members[c] = "own"
                 /\ tenants'[a].status = tenants[a].status]_vars
    BY ChoicesStep DEF IInv, OwnKept
  <1>2. QED
    BY <1>1, IInvCorrect, PTL DEF Spec, SeedKeepsChoices

-----------------------------------------------------------------------------
(* What a run of the script leaves behind.                                 *)
(* The demo organizations before the one the script is at are complete, as *)
(* are the tenants of its list that are no longer left; of the one it is   *)
(* at, what it has looked for is there.  Nothing of this is ever undone.   *)

OrgDone(i) ==
    /\ Exists(DemoAddress(i))
    /\ tenants[DemoAddress(i)].admin
    /\ \A c \in DEMO_ORGS[i].members :
          tenants[DemoAddress(i)].members[c] # "none"
    /\ \A k \in fieldsForTemplate(DEMO_ORGS[i].template) :
          tenants[DemoAddress(i)].fields[k] # "none"

FieldsDone(a) ==
    \A k \in Field : k \in fieldsForTemplate(tenants[a].template)
                        => tenants[a].fields[k] # "none"

OrgsBehind ==
    seed.pc \in {"org", "user", "keys", "create", "members", "list", "next"}
        => \A i \in Orgs : i < seed.org => OrgDone(i)

OrgHere ==
    /\ InOrgs /\ seed.pc \in {"keys", "create", "members"}
          => tenants[seed.at].admin
    /\ seed.pc = "create"
          => \A k \in seed.have : tenants[seed.at].fields[k] # "none"
    /\ seed.pc = "members" =>
          /\ \A k \in fieldsForTemplate(DEMO_ORGS[seed.org].template) :
                tenants[seed.at].fields[k] # "none"
          /\ \A c \in DEMO_ORGS[seed.org].members \ seed.todo :
                tenants[seed.at].members[c] # "none"

ListBehind ==
    seed.pc = "next" \/ (seed.pc \in {"keys", "create"} /\ ~InOrgs)
        => \A a \in seed.listed \ seed.left :
              (a = seed.at /\ seed.pc # "next") \/ FieldsDone(a)

DoneInv ==
    seed.pc = "done" => /\ \A i \in Orgs : OrgDone(i)
                        /\ \A a \in seed.listed : FieldsDone(a)

SeedInv == OrgsBehind /\ OrgHere /\ ListBehind /\ DoneInv

LEMMA SeedInit == Init => SeedInv
  BY DEF Init, Seed, SeedInv, OrgsBehind, OrgHere, ListBehind, DoneInv

LEMMA OrgDoneStays ==
    ASSUME Grows, NEW i \in Orgs, OrgDone(i)
    PROVE  OrgDone(i)'
  <1>1. DemoAddress(i) \in DOMAIN tenants
    BY DEF OrgDone, Exists
  <1>2. /\ DemoAddress(i) \in DOMAIN tenants'
        /\ Kept(tenants[DemoAddress(i)], tenants'[DemoAddress(i)])
    BY <1>1 DEF Grows, Exists
  <1>3. DEMO_ORGS[i].members \subseteq Code
    BY DemoFacts
  <1>4. fieldsForTemplate(DEMO_ORGS[i].template) \subseteq Field
    BY DEF fieldsForTemplate, Field
  <1>5. QED
    BY <1>2, <1>3, <1>4 DEF OrgDone, Kept, Exists

LEMMA FieldsDoneStays ==
    ASSUME Grows, NEW a \in DOMAIN tenants, FieldsDone(a)
    PROVE  FieldsDone(a)'
  <1>1. Kept(tenants[a], tenants'[a])
    BY DEF Grows
  <1>2. QED
    BY <1>1 DEF FieldsDone, Kept

\* What was behind the script stays so as long as it counts the same ones.
LEMMA BehindStays ==
    ASSUME TypeOK, AtInv, Grows, SeedInv,
           seed.pc \in {"org", "user", "keys", "create", "members", "list",
                        "next"},
           seed'.org = seed.org
    PROVE  OrgsBehind'
  <1>1. ASSUME NEW i \in Orgs, i < seed'.org PROVE OrgDone(i)'
    <2>1. OrgDone(i)
      BY <1>1 DEF SeedInv, OrgsBehind
    <2>2. QED
      BY <2>1, OrgDoneStays
  <1>2. QED
    BY <1>1 DEF OrgsBehind

\* A step of somebody else.
LEMMA SeedSame ==
    ASSUME TypeOK, AtInv, Grows, SeedInv, seed' = seed
    PROVE  SeedInv'
  <1>1. OrgsBehind'
    BY BehindStays DEF OrgsBehind
  <1>2. OrgHere'
    <2>1. CASE seed.pc \in {"keys", "create", "members"}
      <3>1. seed.at \in DOMAIN tenants
        BY <2>1 DEF AtInv, Exists
      <3>2. Kept(tenants[seed.at], tenants'[seed.at])
        BY <3>1 DEF Grows
      <3>3. seed.have \subseteq Field
        BY DEF TypeOK, SeedRec
      <3>4. seed.pc = "members" =>
               /\ DEMO_ORGS[seed.org].members \subseteq Code
               /\ fieldsForTemplate(DEMO_ORGS[seed.org].template) \subseteq Field
        BY DemoFacts DEF AtInv, InOrgs, fieldsForTemplate, Field
      <3>5. QED
        BY <3>2, <3>3, <3>4 DEF SeedInv, OrgHere, Kept, InOrgs
    <2>2. CASE seed.pc \notin {"keys", "create", "members"}
      BY <2>2 DEF OrgHere
    <2>3. QED
      BY <2>1, <2>2
  <1>3. \A a \in seed.listed : FieldsDone(a) => FieldsDone(a)'
    BY FieldsDoneStays DEF AtInv
  <1>4. ListBehind'
    BY <1>3 DEF SeedInv, ListBehind, InOrgs
  <1>5. DoneInv'
    BY <1>3, OrgDoneStays DEF SeedInv, DoneInv
  <1>6. QED
    BY <1>1, <1>2, <1>4, <1>5 DEF SeedInv

\* The script stopped or starts again.
LEMMA SeedFresh ==
    ASSUME seed'.pc \in {"off", "admin"} PROVE SeedInv'
  BY DEF SeedInv, OrgsBehind, OrgHere, ListBehind, DoneInv

\* The script has come to the next organization, or to the list.
LEMMA SeedNextOrg ==
    ASSUME TypeOK, AtInv, Grows, SeedInv, NEW i \in 0 .. 2, i \in Orgs \union {0},
           seed' = NextOrg(i),
           \A j \in Orgs : j <= i => OrgDone(j)
    PROVE  SeedInv'
  <1>1. OrgsBehind'
    <2>1. ASSUME NEW j \in Orgs, j < seed'.org PROVE OrgDone(j)'
      <3>1. j <= i
        <4>1. CASE i + 1 \in Orgs
          <5>1. j < i + 1
            BY <2>1, <4>1, NextOrgFacts
          <5>2. QED
            BY <5>1, OrgsRange
        <4>2. CASE i + 1 \notin Orgs
          BY <4>2, OrgsUpTo
        <4>3. QED
          BY <4>1, <4>2
      <3>2. QED
        BY <3>1, OrgDoneStays
    <2>2. QED
      BY <2>1 DEF OrgsBehind
  <1>2. seed'.pc \in {"org", "list"}
    BY NextOrgFacts
  <1>3. OrgHere' /\ ListBehind' /\ DoneInv'
    BY <1>2 DEF OrgHere, ListBehind, DoneInv
  <1>4. QED
    BY <1>1, <1>3 DEF SeedInv

LEMMA SeedCreate ==
    ASSUME TypeOK, AtInv, Grows, SeedInv, CreateFields
    PROVE  SeedInv'
  <1> DEFINE here == tenants[seed.at]
             f == seedData(here.fields, Missing)
  <1>1. /\ seed \in SeedRec /\ seed.at \in DOMAIN tenants /\ here \in Tenant
        /\ here.fields \in [Field -> Row] /\ seed.have \subseteq Field
    BY DEF TypeOK, CreateFields, AtInv, Exists, Tenant, SeedRec
  <1>2. CASE seed' = Seed("off", seed.runs)
    BY <1>2, SeedFresh DEF Seed
  <1>3. CASE /\ tenants' = [tenants EXCEPT ![seed.at].fields = f]
             /\ seed' = AfterFields
    <2>1. tenants'[seed.at] = [here EXCEPT !.fields = f]
      BY <1>1, <1>3
    <2>2. /\ tenants'[seed.at].fields = f
          /\ tenants'[seed.at].admin = here.admin
          /\ tenants'[seed.at].template = here.template
      BY <1>1, <2>1 DEF Tenant
    <2>3. fieldsForTemplate(SeedTemplate) \subseteq Field
      BY DEF fieldsForTemplate, Field
    <2>4. \A k \in fieldsForTemplate(SeedTemplate) : f[k] # "none"
      <3>1. ASSUME NEW k \in fieldsForTemplate(SeedTemplate), k \in Missing
            PROVE  f[k] # "none"
        BY <2>3, <3>1 DEF seedData
      <3>2. ASSUME NEW k \in fieldsForTemplate(SeedTemplate), k \notin Missing
            PROVE  f[k] # "none"
        <4>1. k \in seed.have /\ k \in Field
          BY <2>3, <3>2 DEF Missing
        <4>2. here.fields[k] # "none"
          BY <4>1 DEF SeedInv, OrgHere, CreateFields
        <4>3. QED
          BY <3>2, <4>1, <4>2 DEF seedData
      <3>3. QED
        BY <3>1, <3>2
    <2>5. /\ seed'.org = seed.org /\ seed'.at = seed.at
          /\ seed'.listed = seed.listed /\ seed'.left = seed.left
          /\ seed'.pc = IF InOrgs THEN "members" ELSE "next"
          /\ InOrgs => seed'.todo = DEMO_ORGS[seed.org].members
      BY <1>1, <1>3 DEF AfterFields, SeedRec
    <2>6. OrgsBehind'
      BY <2>5, BehindStays DEF CreateFields
    <2>7. InOrgs' <=> InOrgs
      BY <2>5 DEF InOrgs
    <2>8. OrgHere'
      <3>1. CASE InOrgs
        <4>1. here.admin
          BY <3>1 DEF SeedInv, OrgHere, CreateFields
        <4>2. SeedTemplate = DEMO_ORGS[seed.org].template
          BY <3>1 DEF SeedTemplate
        <4>3. QED
          BY <2>2, <2>4, <2>5, <3>1, <4>1, <4>2 DEF OrgHere
      <3>2. CASE ~InOrgs
        BY <2>5, <2>7, <3>2 DEF OrgHere
      <3>3. QED
        BY <3>1, <3>2
    <2>9. ListBehind'
      <3>1. CASE InOrgs
        BY <2>5, <2>7, <3>1 DEF ListBehind
      <3>2. CASE ~InOrgs
        <4>1. SeedTemplate = here.template
          BY <3>2 DEF SeedTemplate
        <4>2. FieldsDone(seed.at)'
          BY <2>2, <2>4, <2>5, <4>1 DEF FieldsDone
        <4>3. ASSUME NEW a \in seed.listed \ seed.left, a # seed.at
              PROVE  FieldsDone(a)'
          <5>1. FieldsDone(a) /\ a \in DOMAIN tenants
            BY <3>2, <4>3 DEF SeedInv, ListBehind, CreateFields, AtInv
          <5>2. QED
            BY <5>1, FieldsDoneStays
        <4>4. \A a \in seed'.listed \ seed'.left : FieldsDone(a)'
          BY <2>5, <4>2, <4>3
        <4>5. QED
          BY <4>4 DEF ListBehind
      <3>3. QED
        BY <3>1, <3>2
    <2>10. DoneInv'
      BY <2>5 DEF DoneInv
    <2>11. QED
      BY <2>6, <2>8, <2>9, <2>10 DEF SeedInv
  <1>4. QED
    BY <1>2, <1>3 DEF CreateFields

LEMMA SeedAtOrg ==
    ASSUME TypeOK, AtInv, Grows, SeedInv,
           UpsertTenant \/ UpsertUser \/ ReadKeys \/ OrgReady
           \/ \E c \in Code : SeedMember(c)
    PROVE  SeedInv'
  <1>0. seed \in SeedRec
    BY DEF TypeOK
  <1>1. CASE UpsertTenant
    <2>1. /\ seed.pc = "org" /\ InOrgs /\ seed'.pc = "user"
          /\ seed'.org = seed.org
      BY <1>0, <1>1 DEF UpsertTenant, AtInv, SeedRec
    <2>2. OrgsBehind'
      BY <2>1, BehindStays
    <2>3. QED
      BY <2>1, <2>2 DEF SeedInv, OrgHere, ListBehind, DoneInv
  <1>2. CASE UpsertUser
    <2>1. /\ seed.pc = "user" /\ InOrgs /\ seed'.pc = "keys"
          /\ seed'.org = seed.org /\ seed'.at = seed.at
      BY <1>0, <1>2 DEF UpsertUser, AtInv, SeedRec
    <2>2. OrgsBehind'
      BY <2>1, BehindStays
    <2>3. seed.at \in DOMAIN tenants /\ tenants[seed.at] \in Tenant
      BY <2>1 DEF AtInv, Exists, TypeOK
    <2>4. tenants'[seed'.at].admin
      BY <1>2, <2>1, <2>3 DEF UpsertUser, Tenant
    <2>5. InOrgs'
      BY <2>1 DEF InOrgs
    <2>6. QED
      BY <2>1, <2>2, <2>4, <2>5 DEF SeedInv, OrgHere, ListBehind, DoneInv
  <1>3. CASE ReadKeys
    <2>1. /\ seed.pc = "keys" /\ seed'.pc = "create" /\ tenants' = tenants
          /\ seed'.org = seed.org /\ seed'.at = seed.at
          /\ seed'.listed = seed.listed /\ seed'.left = seed.left
          /\ seed'.have = {k \in Field : tenants[seed.at].fields[k] # "none"}
      BY <1>0, <1>3 DEF ReadKeys, SeedRec
    <2>2. OrgsBehind'
      BY <2>1, BehindStays
    <2>3. InOrgs' <=> InOrgs
      BY <2>1 DEF InOrgs
    <2>4. OrgHere'
      BY <2>1, <2>3 DEF SeedInv, OrgHere
    <2>5. ListBehind'
      BY <2>1, <2>3 DEF SeedInv, ListBehind, FieldsDone
    <2>6. DoneInv'
      BY <2>1 DEF DoneInv
    <2>7. QED
      BY <2>2, <2>4, <2>5, <2>6 DEF SeedInv
  <1>4. CASE OrgReady
    <2>1. /\ seed.pc = "members" /\ seed.todo = {} /\ InOrgs
          /\ seed' = NextOrg(seed.org)
      BY <1>4 DEF OrgReady, AtInv
    <2>2. OrgDone(seed.org)
      <3>1. seed.at = DemoAddress(seed.org) /\ Exists(seed.at)
        BY <2>1 DEF AtInv
      <3>2. QED
        BY <2>1, <3>1 DEF SeedInv, OrgHere, OrgDone
    <2>3. \A j \in Orgs : j <= seed.org => OrgDone(j)
      <3>1. \A j \in Orgs : j < seed.org => OrgDone(j)
        BY <2>1 DEF SeedInv, OrgsBehind
      <3>2. \A j \in Orgs : j <= seed.org => j < seed.org \/ j = seed.org
        BY <2>1, OrgsRange, OrgIndex
      <3>3. QED
        BY <2>2, <3>1, <3>2
    <2>4. QED
      BY <2>1, <2>3, OrgIndex, SeedNextOrg
  <1>5. ASSUME NEW c \in Code, SeedMember(c) PROVE SeedInv'
    <2>1. /\ seed.pc = "members" /\ seed'.pc = "members" /\ InOrgs
          /\ seed'.org = seed.org /\ seed'.at = seed.at
          /\ seed'.todo = seed.todo \ {c}
      BY <1>0, <1>5 DEF SeedMember, AtInv, SeedRec
    <2>2. OrgsBehind'
      BY <2>1, BehindStays
    <2>3. /\ seed.at \in DOMAIN tenants /\ tenants[seed.at] \in Tenant
          /\ tenants[seed.at].members \in [Code -> Row]
          /\ Kept(tenants[seed.at], tenants'[seed.at])
      BY <2>1 DEF AtInv, Exists, TypeOK, Grows, Tenant
    <2>4. tenants'[seed.at].members[c] # "none"
      <3>1. CASE tenants[seed.at].members[c] # "none"
        BY <2>3, <3>1 DEF Kept
      <3>2. CASE tenants[seed.at].members[c] = "none"
        <4>1. tenants' = [tenants EXCEPT ![seed.at].members[c] = "seeded"]
          BY <1>5, <3>2 DEF SeedMember
        <4>2. tenants'[seed.at].members =
                 [tenants[seed.at].members EXCEPT ![c] = "seeded"]
          BY <2>3, <4>1 DEF Tenant
        <4>3. QED
          BY <2>3, <4>2
      <3>3. QED
        BY <3>1, <3>2
    <2>5. /\ DEMO_ORGS[seed.org].members \subseteq Code
          /\ fieldsForTemplate(DEMO_ORGS[seed.org].template) \subseteq Field
      BY <2>1, DemoFacts DEF InOrgs, fieldsForTemplate, Field
    <2>6. /\ \A k \in fieldsForTemplate(DEMO_ORGS[seed.org].template) :
                tenants'[seed.at].fields[k] # "none"
          /\ tenants'[seed.at].admin
      BY <2>1, <2>3, <2>5 DEF SeedInv, OrgHere, Kept
    <2>7. \A d \in DEMO_ORGS[seed.org].members \ (seed.todo \ {c}) :
             tenants'[seed.at].members[d] # "none"
      BY <2>1, <2>3, <2>4, <2>5 DEF SeedInv, OrgHere, Kept
    <2>8. OrgHere'
      BY <2>1, <2>6, <2>7 DEF OrgHere
    <2>9. QED
      BY <2>1, <2>2, <2>8 DEF SeedInv, ListBehind, DoneInv
  <1>6. QED
    BY <1>1, <1>2, <1>3, <1>4, <1>5

LEMMA SeedAtList ==
    ASSUME TypeOK, AtInv, Grows, SeedInv, ListTenants \/ Backfill
    PROVE  SeedInv'
  <1>0. seed \in SeedRec /\ UNCHANGED tenants /\ seed.org = 3
    BY DEF TypeOK, ListTenants, Backfill, AtInv
  <1>1. ~InOrgs /\ \A i \in Orgs : i < seed.org
    BY <1>0, OrgsRange, OrgsUpTo DEF InOrgs
  <1>2. CASE ListTenants
    <2>1. /\ seed.pc = "list" /\ seed'.pc = "next" /\ seed'.org = seed.org
          /\ seed'.listed = DOMAIN tenants /\ seed'.left = DOMAIN tenants
      BY <1>0, <1>2 DEF ListTenants, SeedRec
    <2>2. OrgsBehind'
      BY <2>1, BehindStays
    <2>3. QED
      BY <2>1, <2>2 DEF SeedInv, OrgHere, ListBehind, DoneInv
  <1>3. CASE Backfill
    <2>1. seed.pc = "next"
      BY <1>3 DEF Backfill
    <2>2. CASE /\ seed.left = {}
               /\ seed' = [Seed("done", seed.runs) EXCEPT !.listed = seed.listed]
      <3>1. seed'.pc = "done" /\ seed'.listed = seed.listed
        BY <2>2 DEF Seed
      <3>2. \A a \in seed.listed : FieldsDone(a)
        BY <2>1, <2>2 DEF SeedInv, ListBehind
      <3>3. \A a \in seed.listed : FieldsDone(a)'
        BY <3>2, FieldsDoneStays DEF AtInv
      <3>4. \A i \in Orgs : OrgDone(i)
        BY <1>1, <2>1 DEF SeedInv, OrgsBehind
      <3>5. \A i \in Orgs : OrgDone(i)'
        BY <3>4, OrgDoneStays
      <3>6. QED
        BY <3>1, <3>3, <3>5
           DEF SeedInv, OrgsBehind, OrgHere, ListBehind, DoneInv
    <2>3. ASSUME NEW a \in seed.left,
                 seed' = [seed EXCEPT !.pc = "keys", !.at = a,
                                      !.left = seed.left \ {a}]
          PROVE  SeedInv'
      <3>1. /\ seed'.pc = "keys" /\ seed'.org = seed.org /\ seed'.at = a
            /\ seed'.listed = seed.listed /\ seed'.left = seed.left \ {a}
        BY <1>0, <2>3 DEF SeedRec
      <3>2. OrgsBehind'
        BY <2>1, <3>1, BehindStays
      <3>3. ~InOrgs'
        BY <1>1, <3>1 DEF InOrgs
      <3>4. \A x \in seed.listed \ seed.left : FieldsDone(x)'
        BY <2>1, FieldsDoneStays DEF SeedInv, ListBehind, AtInv
      <3>5. QED
        BY <3>1, <3>2, <3>3, <3>4 DEF SeedInv, OrgHere, ListBehind, DoneInv
    <2>4. QED
      BY <1>3, <2>2, <2>3 DEF Backfill
  <1>4. QED
    BY <1>2, <1>3

LEMMA SeedInvStep == IInv /\ SeedInv /\ [Next]_vars => SeedInv'
  <1> SUFFICES ASSUME IInv, SeedInv, [Next]_vars PROVE SeedInv'
    OBVIOUS
  <1>0. TypeOK /\ AtInv /\ Grows
    BY TenantsStep DEF IInv, RegInv
  <1>1. CASE SeedStart \/ SeedDies
    BY <1>1, SeedFresh DEF SeedStart, SeedDies, Seed
  <1>2. CASE seedSuperAdmin
    <2>1. \A j \in Orgs : ~(j <= 0)
      BY OrgsRange
    <2>2. QED
      BY <1>0, <1>2, <2>1, SeedNextOrg DEF seedSuperAdmin
  <1>3. CASE SeedStep
    BY <1>0, <1>1, <1>2, <1>3, SeedAtOrg, SeedAtList, SeedCreate DEF SeedStep
  <1>4. CASE ~SeedStep
    <2>1. seed' = seed
      BY <1>4 DEF Next, vars, CreateStart, resolveSlug, InsertTenant,
                  InsertAdmin, InsertFields, Commit, Rollback, Update, Suspend,
                  Reactivate, Change, OwnField, OwnMember
    <2>2. QED
      BY <1>0, <2>1, SeedSame
  <1>5. QED
    BY <1>3, <1>4

\* A run of the script that reaches its end leaves every demo organization
\* complete and every listed tenant with its fields, wherever earlier runs
\* died and whatever went on meanwhile (seed.ts:7, 245).
THEOREM ScriptConverges == Spec => []SeedConverges
  <1>1. SeedInv => SeedConverges
    BY DEF SeedInv, DoneInv, SeedConverges, OrgDone, FieldsDone
  <1>2. QED
    BY <1>1, SeedInit, SeedInvStep, IInvCorrect, PTL DEF Spec

=============================================================================
