-------------------------- MODULE TenantScopeProofs --------------------------
(***************************************************************************)
(* Proofs about TenantScope, for any number of tenants, rows, requests and *)
(* connections, with and without the filter of layer 1.                    *)
(***************************************************************************)
EXTENDS TenantScope, TLAPS

-----------------------------------------------------------------------------
(* Types                                                                   *)

LEMMA NoJobType == NoJob \in Job
  BY DEF NoJob, Job

LEMMA NoWorkType == NoWork \in Work
  <1>1. NoWork \in [{} -> Row]
    BY DEF NoWork
  <1>2. QED
    BY <1>1 DEF Work

LEMMA PutType ==
    ASSUME NEW f \in Work, NEW id \in Id, NEW row \in Row
    PROVE  /\ Put(f, id, row) \in Work
           /\ DOMAIN Put(f, id, row) = DOMAIN f \union {id}
           /\ Put(f, id, row)[id] = row
           /\ \A i \in DOMAIN f \ {id} : Put(f, id, row)[i] = f[i]
  <1>1. PICK S \in SUBSET Id : f \in [S -> Row]
    BY DEF Work
  <1>2. Put(f, id, row) \in [S \union {id} -> Row]
    BY <1>1 DEF Put
  <1>3. S \union {id} \in SUBSET Id
    OBVIOUS
  <1>4. QED
    BY <1>1, <1>2, <1>3 DEF Put, Work

LEMMA WorkDomain ==
    ASSUME NEW f \in Work
    PROVE  DOMAIN f \subseteq Id /\ \A id \in DOMAIN f : f[id] \in Row
  BY DEF Work

LEMMA CurrentType ==
    ASSUME TypeOK, NEW r \in Req, NEW id \in Id
    PROVE  Current(r, id) \in Row
  BY WorkDomain DEF Current, TypeOK

LEMMA ListType ==
    ASSUME TypeOK, NEW kind, NEW list \in IdLists(kind)
    PROVE  list \in Seq(Id)
  <1>1. PICK n \in 1 .. MaxBatch : list \in [1 .. n -> IdsFor(kind)]
    BY DEF IdLists
  <1>2. list \in [1 .. n -> Id]
    BY <1>1 DEF IdsFor, TypeOK
  <1>3. n \in Nat
    BY <1>1, TenantScopeAssumption
  <1>4. QED
    BY <1>2, <1>3

LEMMA SubmitType ==
    ASSUME TypeOK, NEW r \in Req, NEW j \in Job, Submit(r, j),
           pc[r] = "handler"
    PROVE  TypeOK'
  BY TenantScopeAssumption
     DEF Submit, TypeOK, serverVars, dataVars, connVars

LEMMA ThrowsType ==
    ASSUME TypeOK, NEW r \in Req, Throws(r), pc[r] = "handler"
    PROVE  TypeOK'
  BY DEF Throws, TypeOK, serverVars, dataVars, connVars

LEMMA TypeHandler ==
    ASSUME TypeOK, NEW r \in Req, Handler(r)
    PROVE  TypeOK'
  <1> USE DEF serverVars, dataVars, connVars
  <1>1. ASSUME NEW t \in Owner, Arrive(r, t)
        PROVE  TypeOK'
    BY <1>1 DEF Arrive, TypeOK
  <1>2. CASE EnterPlatform(r)
    BY <1>2 DEF EnterPlatform, TypeOK
  <1>3. ASSUME NEW threw \in BOOLEAN, LeavePlatform(r, threw)
        PROVE  TypeOK'
    BY <1>3 DEF LeavePlatform, TypeOK
  <1>4. ASSUME NEW kind \in {"read", "write", "create"},
               NEW id \in IdsFor(kind), Query(r, kind, id)
        PROVE  TypeOK'
    <2> DEFINE j == [scoped |-> TRUE, filtered |-> FALSE, kind |-> kind,
                     ids |-> <<id>>]
    <2>1. id \in Id
      BY <1>4 DEF IdsFor, TypeOK
    <2>2. j \in Job
      BY <2>1 DEF Job
    <2>3. pc[r] = "handler" /\ (Throws(r) \/ Submit(r, j))
      BY <1>4 DEF Query
    <2>4. QED
      BY <2>2, <2>3, SubmitType, ThrowsType
  <1>5. ASSUME NEW kind \in {"write", "create"}, NEW filtered \in BOOLEAN,
               NEW list \in IdLists(kind), WithTenantTx(r, kind, filtered, list)
        PROVE  TypeOK'
    <2> DEFINE j == [scoped |-> FALSE, filtered |-> filtered, kind |-> kind,
                     ids |-> list]
    <2>1. j \in Job
      BY ListType DEF Job
    <2>2. pc[r] = "handler" /\ (Throws(r) \/ Submit(r, j))
      BY <1>5 DEF WithTenantTx
    <2>3. QED
      BY <2>1, <2>2, SubmitType, ThrowsType
  <1>6. QED
    BY <1>1, <1>2, <1>3, <1>4, <1>5 DEF Handler

LEMMA AdvanceType ==
    ASSUME TypeOK, NEW r \in Req, Advance(r), job[r].ids # <<>>
    PROVE  job' \in [Req -> Job] /\ NextId(r) \in Id
  <1>1. job[r] \in Job /\ job[r].ids \in Seq(Id)
    BY DEF TypeOK, Job
  <1>2. Tail(job[r].ids) \in Seq(Id) /\ Head(job[r].ids) \in Id
    BY <1>1
  <1>3. [job[r] EXCEPT !.ids = Tail(job[r].ids)] \in Job
    BY <1>1, <1>2 DEF Job
  <1>4. QED
    BY <1>2, <1>3 DEF Advance, NextId, TypeOK

\* A statement leaves the rest of the job as it is.
LEMMA AdvanceKeeps ==
    ASSUME TypeOK, NEW r \in Req, Advance(r)
    PROVE  \A q \in Req : /\ job'[q].kind = job[q].kind
                          /\ job'[q].scoped = job[q].scoped
                          /\ job'[q].filtered = job[q].filtered
  BY DEF Advance, TypeOK, Job

LEMMA HolderType ==
    ASSUME TypeOK, NEW c \in Conn, holder[c] # NoReq
    PROVE  holder[c] \in Req
  BY DEF TypeOK

LEMMA RollbackType ==
    ASSUME TypeOK, NEW c \in Conn, holder[c] # NoReq, Rollback(c)
    PROVE  TypeOK'
  BY HolderType, NoJobType, NoWorkType
     DEF Rollback, Release, TypeOK, Owner, serverVars, dataVars

LEMMA TypeTx ==
    ASSUME TypeOK, NEW c \in Conn, TxStep(c) \/ Abort(c)
    PROVE  TypeOK'
  <1> USE DEF serverVars, dataVars, connVars
  <1>1. CASE SetConfig(c)
    BY <1>1, HolderType DEF SetConfig, TypeOK
  <1>2. CASE ReadRow(c)
    <2> DEFINE r == holder[c]
    <2>1. r \in Req /\ job[r].ids # <<>> /\ Advance(r)
      BY <1>2, HolderType DEF ReadRow, AtStatement
    <2>2. job' \in [Req -> Job] /\ NextId(r) \in Id
      BY <2>1, AdvanceType
    <2>3. Current(r, NextId(r)).owner \in Owner
      BY <2>1, <2>2, CurrentType DEF Row
    <2>4. seen' \in [Req -> SUBSET Owner]
      BY <1>2, <2>1, <2>3 DEF ReadRow, TypeOK
    <2>5. QED
      BY <1>2, <2>2, <2>4 DEF ReadRow, TypeOK
  <1>3. CASE WriteRow(c)
    <2> DEFINE r == holder[c]
               row == [owner |-> Current(r, NextId(r)).owner, by |-> r]
    <2>1. r \in Req /\ job[r].ids # <<>> /\ Advance(r) /\ pc[r] = "running"
      BY <1>3, HolderType DEF WriteRow, AtStatement
    <2>2. job' \in [Req -> Job] /\ NextId(r) \in Id
      BY <2>1, AdvanceType
    <2>3. row \in Row
      BY <2>1, <2>2, CurrentType DEF Row
    <2>4. Put(work[r], NextId(r), row) \in Work
      BY <2>1, <2>2, <2>3, PutType DEF TypeOK
    <2>5. \/ work' = work
          \/ work' = [work EXCEPT ![r] = Put(work[r], NextId(r), row)]
      BY <1>3 DEF WriteRow
    <2> HIDE DEF r, row
    <2>6. /\ work' \in [Req -> Work]
          /\ \A q \in Req : pc[q] # "running" => work'[q] = NoWork
      BY <2>1, <2>4, <2>5 DEF TypeOK
    <2>7. QED
      BY <1>3, <2>2, <2>6 DEF WriteRow, TypeOK
  <1>4. ASSUME NEW owner \in Owner, CreateRow(c, owner)
        PROVE  TypeOK'
    <2> DEFINE r == holder[c]
               row == [owner |-> owner, by |-> r]
    <2>1. r \in Req /\ job[r].ids # <<>> /\ Advance(r) /\ pc[r] = "running"
      BY <1>4, HolderType DEF CreateRow, AtStatement
    <2>2. job' \in [Req -> Job] /\ NextId(r) \in Id
      BY <2>1, AdvanceType
    <2>3. row \in Row
      BY <2>1, <1>4 DEF Row
    <2>4. Put(work[r], NextId(r), row) \in Work
      BY <2>1, <2>2, <2>3, PutType DEF TypeOK
    <2>5. work' = [work EXCEPT ![r] = Put(work[r], NextId(r), row)]
      BY <1>4 DEF CreateRow
    <2> HIDE DEF r, row
    <2>6. /\ work' \in [Req -> Work]
          /\ \A q \in Req : pc[q] # "running" => work'[q] = NoWork
      BY <2>1, <2>4, <2>5 DEF TypeOK
    <2>7. QED
      BY <1>4, <2>2, <2>6 DEF CreateRow, TypeOK
  <1>5. CASE Commit(c)
    <2>1. holder[c] \in Req
      BY <1>5, HolderType DEF Commit
    <2>2. rows' \in [Id -> Row]
      BY <1>5, <2>1, CurrentType DEF Commit
    <2>3. QED
      BY <1>5, <2>1, <2>2, NoJobType, NoWorkType DEF Commit, Release, TypeOK, Owner
  <1>6. CASE CreateRefused(c)
    BY <1>6, RollbackType DEF CreateRefused, AtStatement
  <1>7. CASE BreakDeadlock(c)
    <2>1. holder[c] # NoReq
      BY <1>7, TenantScopeAssumption DEF BreakDeadlock
    <2>2. QED
      BY <1>7, <2>1, RollbackType DEF BreakDeadlock
  <1>8. CASE Abort(c)
    BY <1>8, RollbackType DEF Abort
  <1>9. QED
    BY <1>1, <1>2, <1>3, <1>4, <1>5, <1>6, <1>7, <1>8 DEF TxStep

LEMMA TypeInit == Init => TypeOK
  BY NoJobType, NoWorkType, TenantScopeAssumption DEF Init, TypeOK, Owner, Row

LEMMA TypeNext == TypeOK /\ [Next]_vars => TypeOK'
  <1> SUFFICES ASSUME TypeOK, [Next]_vars PROVE TypeOK'
    OBVIOUS
  <1> USE DEF serverVars, dataVars, connVars, reqVars
  <1>1. CASE OnModuleInit
    BY <1>1 DEF OnModuleInit, TypeOK
  <1>2. ASSUME NEW r \in Req, Handler(r)
        PROVE  TypeOK'
    BY <1>2, TypeHandler
  <1>3. ASSUME NEW r \in Req, NEW c \in Conn, Acquire(r, c)
        PROVE  TypeOK'
    BY <1>3 DEF Acquire, TypeOK
  <1>4. ASSUME NEW c \in Conn, TxStep(c) \/ Abort(c)
        PROVE  TypeOK'
    BY <1>4, TypeTx
  <1>5. CASE UNCHANGED vars
    BY <1>5 DEF vars, TypeOK
  <1>6. QED
    BY <1>1, <1>2, <1>3, <1>4, <1>5 DEF Next

\* Every reachable state is well typed, and a transaction that is over has left
\* no uncommitted row behind (prisma.service.ts:78-85).
THEOREM TypeCorrect == Spec => []TypeOK
  BY TypeInit, TypeNext, PTL DEF Spec

-----------------------------------------------------------------------------
(* Isolation.                                                              *)
(* The server is only up with a role the policies bind, or one that owns   *)
(* the tables.  In the first case a policy lets a transaction see and      *)
(* write only rows of the tenant set on its connection; and that is its    *)
(* request's tenant, for the setting ends with the transaction and the     *)
(* tenant of a request that has begun never changes.  In the second layer  *)
(* 1 is there: every read goes through it, and of the writes those that    *)
(* name the tenant are as good.                                            *)

\* What is submitted has a tenant; reads go through prisma.db, and a create in
\* withTenantTx has no filter.
JobInv ==
    \A r \in Req : pc[r] \in {"waiting", "begun", "running"} =>
        /\ context[r] # NoTenant
        /\ job[r].kind = "read" => job[r].scoped
        /\ job[r].kind = "create" => ~job[r].filtered

ScopeInv ==
    /\ server = "up" => ~bypasses
    /\ layer1 \/ ~owns
    /\ SettingIsLocal
    /\ ReadsConfined
    /\ \A r \in Req : pc[r] # "new" => server = "up"
    /\ \A r \in Req : pc[r] = "new" => seen[r] = {}
    /\ \A c \in Conn : holder[c] # NoReq => pc[holder[c]] # "new"

\* What a transaction wrote under either layer and has not committed is its
\* tenant's, and nobody else has written the same row.
WorkInv ==
    \A r \in Req : \A id \in DOMAIN work[r] :
        /\ work[r][id].by = r
        /\ context[r] # NoTenant
        /\ ~owns \/ NamesTenant(r) =>
              /\ work[r][id].owner = context[r]
              /\ id \in unborn \/ rows[id].owner = context[r]
        /\ \A q \in Req : id \in DOMAIN work[q] => q = r

IsolationInv == TypeOK /\ JobInv /\ ScopeInv /\ WorkInv

\* The policies bind: what they allow belongs to the tenant of the request.
LEMMA PolicyBinds ==
    ASSUME TypeOK, ScopeInv, NEW c \in Conn, holder[c] # NoReq, ~owns,
           NEW owner, PolicyAllows(c, owner)
    PROVE  owner = context[holder[c]] /\ owner # NoTenant
  <1>1. holder[c] \in Req
    BY HolderType
  <1>2. ~bypasses
    BY <1>1 DEF ScopeInv
  <1>3. owner # NoTenant /\ owner = setting[c]
    BY <1>2 DEF PolicyAllows
  <1>4. QED
    BY <1>3 DEF ScopeInv, SettingIsLocal

\* Either layer confines what a statement finds.
LEMMA FindsItsOwn ==
    ASSUME TypeOK, JobInv, ScopeInv, NEW c \in Conn, NEW id,
           holder[c] # NoReq, pc[holder[c]] = "running", Finds(c, id),
           ~owns \/ NamesTenant(holder[c])
    PROVE  /\ Current(holder[c], id).owner = context[holder[c]]
           /\ Current(holder[c], id).owner # NoTenant
  <1> DEFINE owner == Current(holder[c], id).owner
  <1>1. FilterSelects(holder[c], owner) /\ PolicyAllows(c, owner)
    BY DEF Finds
  <1> HIDE DEF owner
  <1>2. CASE ~owns
    BY <1>1, <1>2, PolicyBinds DEF owner
  <1>3. CASE NamesTenant(holder[c])
    <2>1. owner = context[holder[c]]
      BY <1>1, <1>3 DEF FilterSelects
    <2>2. context[holder[c]] # NoTenant
      BY HolderType DEF JobInv
    <2>3. QED
      BY <2>1, <2>2 DEF owner
  <1>4. QED
    BY <1>2, <1>3

LEMMA JobNext == TypeOK /\ JobInv /\ [Next]_vars => JobInv'
  <1> SUFFICES ASSUME TypeOK, JobInv, [Next]_vars
               PROVE  JobInv'
    OBVIOUS
  <1> USE DEF serverVars, dataVars, connVars, reqVars
  <1>1. ASSUME NEW r \in Req, NEW v, v \notin {"waiting", "begun", "running"},
               pc' = [pc EXCEPT ![r] = v],
               \A q \in Req \ {r} : job'[q] = job[q] /\ context'[q] = context[q]
        PROVE  JobInv'
    BY <1>1 DEF JobInv, TypeOK
  <1>2. ASSUME NEW r \in Req, pc[r] \in {"waiting", "begun", "running"},
               NEW v, pc' = [pc EXCEPT ![r] = v], UNCHANGED <<job, context>>
        PROVE  JobInv'
    BY <1>2 DEF JobInv, TypeOK
  <1>3. ASSUME NEW r \in Req, Advance(r), UNCHANGED <<pc, context>>
        PROVE  JobInv'
    BY <1>3, AdvanceKeeps DEF JobInv
  <1>4. ASSUME NEW r \in Req, NEW j, Submit(r, j), context[r] # NoTenant,
               j.kind = "read" => j.scoped, j.kind = "create" => ~j.filtered
        PROVE  JobInv'
    BY <1>4 DEF Submit, JobInv, TypeOK
  <1>5. ASSUME NEW r \in Req, Throws(r)
        PROVE  JobInv'
    BY <1>1, <1>5 DEF Throws
  <1>6. ASSUME NEW r \in Req, Handler(r)
        PROVE  JobInv'
    <2>1. ASSUME NEW t \in Owner, Arrive(r, t)
          PROVE  JobInv'
      BY <1>1, <2>1 DEF Arrive, TypeOK
    <2>2. CASE EnterPlatform(r)
      BY <1>1, <2>2 DEF EnterPlatform
    <2>3. ASSUME NEW threw \in BOOLEAN, LeavePlatform(r, threw)
          PROVE  JobInv'
      BY <1>1, <2>3 DEF LeavePlatform
    <2>4. ASSUME NEW kind, NEW id, Query(r, kind, id)
          PROVE  JobInv'
      <3> DEFINE j == [scoped |-> TRUE, filtered |-> FALSE, kind |-> kind,
                       ids |-> <<id>>]
      <3>1. j.scoped /\ ~j.filtered
        OBVIOUS
      <3>2. Throws(r) \/ (context[r] # NoTenant /\ Submit(r, j))
        BY <2>4 DEF Query
      <3> HIDE DEF j
      <3>3. QED
        BY <1>4, <1>5, <3>1, <3>2
    <2>5. ASSUME NEW kind \in {"write", "create"},
                 NEW filtered \in {FALSE, kind = "write"}, NEW list,
                 WithTenantTx(r, kind, filtered, list)
          PROVE  JobInv'
      <3> DEFINE j == [scoped |-> FALSE, filtered |-> filtered, kind |-> kind,
                       ids |-> list]
      <3>1. j.kind # "read" /\ (j.kind = "create" => ~j.filtered)
        OBVIOUS
      <3>2. Throws(r) \/ (context[r] # NoTenant /\ Submit(r, j))
        BY <2>5 DEF WithTenantTx
      <3> HIDE DEF j
      <3>3. QED
        BY <1>4, <1>5, <3>1, <3>2
    <2>6. QED
      BY <1>6, <2>1, <2>2, <2>3, <2>4, <2>5 DEF Handler
  <1>7. ASSUME NEW r \in Req, NEW c \in Conn, Acquire(r, c)
        PROVE  JobInv'
    BY <1>2, <1>7 DEF Acquire
  <1>8. ASSUME NEW c \in Conn, holder[c] # NoReq, Rollback(c)
        PROVE  JobInv'
    BY <1>1, <1>8, HolderType DEF Rollback, TypeOK
  <1>9. ASSUME NEW c \in Conn, TxStep(c) \/ Abort(c)
        PROVE  JobInv'
    <2>1. CASE SetConfig(c)
      BY <1>2, <2>1, HolderType DEF SetConfig
    <2>2. CASE ReadRow(c) \/ WriteRow(c) \/ \E owner \in Owner : CreateRow(c, owner)
      BY <1>3, <2>2, HolderType DEF ReadRow, WriteRow, CreateRow, AtStatement
    <2>3. CASE Commit(c)
      BY <1>1, <2>3, HolderType DEF Commit, TypeOK
    <2>4. CASE CreateRefused(c) \/ BreakDeadlock(c) \/ Abort(c)
      BY <1>8, <2>4, TenantScopeAssumption
         DEF CreateRefused, AtStatement, BreakDeadlock, Abort
    <2>5. QED
      BY <1>9, <2>1, <2>2, <2>3, <2>4 DEF TxStep
  <1>10. CASE OnModuleInit \/ UNCHANGED vars
    BY <1>10 DEF OnModuleInit, vars, JobInv
  <1>11. QED
    BY <1>6, <1>7, <1>9, <1>10 DEF Next

LEMMA ScopeInit == Init => JobInv /\ ScopeInv /\ WorkInv
  BY TenantScopeAssumption
     DEF Init, JobInv, ScopeInv, SettingIsLocal, ReadsConfined, WorkInv, NoWork

\* A step that leaves the data of the requests alone.
LEMMA WorkKept ==
    ASSUME WorkInv, UNCHANGED <<dataVars, work, owns, layer1>>,
           \A r \in Req : DOMAIN work[r] # {} =>
               /\ context'[r] = context[r]
               /\ job'[r].scoped = job[r].scoped
               /\ job'[r].filtered = job[r].filtered
    PROVE  WorkInv'
  <1>1. \A r \in Req : DOMAIN work[r] # {} => (NamesTenant(r)' <=> NamesTenant(r))
    BY DEF NamesTenant
  <1>2. QED
    BY <1>1 DEF WorkInv, dataVars

LEMMA ScopeHandler ==
    ASSUME TypeOK, ScopeInv, WorkInv, NEW r \in Req, Handler(r)
    PROVE  ScopeInv' /\ WorkInv'
  <1> USE DEF serverVars, dataVars, connVars
  <1>1. ASSUME NEW t \in Owner, Arrive(r, t)
        PROVE  ScopeInv' /\ WorkInv'
    <2>1. /\ pc[r] = "new" /\ server = "up"
          /\ \A q \in Req \ {r} : context'[q] = context[q] /\ pc'[q] = pc[q]
          /\ pc'[r] = "handler"
      BY <1>1 DEF Arrive, TypeOK
    <2>2. \A c \in Conn : holder[c] # r
      BY <2>1, TenantScopeAssumption DEF ScopeInv
    <2>3. work[r] = NoWork
      BY <2>1 DEF TypeOK
    <2>4. \A q \in Req : DOMAIN work[q] # {} => context'[q] = context[q]
      BY <2>1, <2>3 DEF NoWork
    <2>5. WorkInv'
      BY <1>1, <2>4, WorkKept DEF Arrive
    <2>6. SettingIsLocal'
      <3> SUFFICES ASSUME NEW c \in Conn, setting'[c] # NoTenant
                   PROVE  holder'[c] # NoReq /\ setting'[c] = context'[holder'[c]]
        BY DEF SettingIsLocal
      <3>1. holder' = holder /\ setting' = setting
        BY <1>1 DEF Arrive
      <3>2. holder[c] # NoReq /\ setting[c] = context[holder[c]]
        BY <3>1 DEF ScopeInv, SettingIsLocal
      <3>3. holder[c] \in Req \ {r}
        BY <2>2, <3>2, HolderType
      <3>4. QED
        BY <2>1, <3>1, <3>2, <3>3
    <2>7. ReadsConfined'
      BY <1>1, <2>1 DEF Arrive, ScopeInv, ReadsConfined
    <2>8. QED
      BY <1>1, <2>1, <2>2, <2>5, <2>6, <2>7, HolderType DEF Arrive, ScopeInv
  <1>2. ASSUME UNCHANGED <<serverVars, dataVars, connVars, context, work, seen>>,
               pc[r] # "new", NEW v, v # "new", pc' = [pc EXCEPT ![r] = v],
               \A q \in Req : DOMAIN work[q] # {} => job'[q] = job[q]
        PROVE  ScopeInv' /\ WorkInv'
    <2>1. \A q \in Req : pc'[q] = "new" <=> pc[q] = "new"
      BY <1>2 DEF TypeOK
    <2>2. WorkInv'
      BY <1>2, WorkKept
    <2>3. SettingIsLocal' /\ ReadsConfined'
      BY <1>2 DEF ScopeInv, SettingIsLocal, ReadsConfined
    <2>4. QED
      BY <1>2, <2>1, <2>2, <2>3, HolderType DEF ScopeInv
  <1>3. CASE EnterPlatform(r)
    BY <1>2, <1>3 DEF EnterPlatform
  <1>4. ASSUME NEW threw \in BOOLEAN, LeavePlatform(r, threw)
        PROVE  ScopeInv' /\ WorkInv'
    BY <1>2, <1>4 DEF LeavePlatform
  <1>5. ASSUME pc[r] = "handler", Throws(r) \/ \E j : Submit(r, j)
        PROVE  ScopeInv' /\ WorkInv'
    <2>1. DOMAIN work[r] = {}
      BY <1>5 DEF NoWork, TypeOK
    <2>2. \A q \in Req : DOMAIN work[q] # {} => job'[q] = job[q]
      BY <1>5, <2>1 DEF Throws, Submit, TypeOK
    <2>3. QED
      BY <1>2, <1>5, <2>2 DEF Throws, Submit
  <1>6. ASSUME NEW kind, NEW id, Query(r, kind, id)
        PROVE  ScopeInv' /\ WorkInv'
    BY <1>5, <1>6 DEF Query
  <1>7. ASSUME NEW kind, NEW filtered, NEW list,
               WithTenantTx(r, kind, filtered, list)
        PROVE  ScopeInv' /\ WorkInv'
    BY <1>5, <1>7 DEF WithTenantTx
  <1>8. QED
    BY <1>1, <1>3, <1>4, <1>6, <1>7 DEF Handler

LEMMA ScopeAcquire ==
    ASSUME TypeOK, ScopeInv, WorkInv, NEW r \in Req, NEW c \in Conn,
           Acquire(r, c)
    PROVE  ScopeInv' /\ WorkInv'
  <1> USE DEF serverVars, dataVars
  <1>1. /\ pc[r] = "waiting" /\ holder[c] = NoReq
        /\ holder' = [holder EXCEPT ![c] = r]
        /\ pc' = [pc EXCEPT ![r] = "begun"]
        /\ UNCHANGED <<serverVars, dataVars, setting, context, job, work, seen>>
    BY DEF Acquire
  <1>2. WorkInv'
    BY <1>1, WorkKept
  <1>3. setting[c] = NoTenant
    BY <1>1 DEF ScopeInv, SettingIsLocal
  <1>4. SettingIsLocal'
    <2> SUFFICES ASSUME NEW d \in Conn, setting[d] # NoTenant
                 PROVE  holder'[d] # NoReq /\ setting[d] = context[holder'[d]]
      BY <1>1 DEF SettingIsLocal
    <2>1. holder'[d] = holder[d]
      BY <1>1, <1>3 DEF TypeOK
    <2>2. QED
      BY <2>1 DEF ScopeInv, SettingIsLocal
  <1>5. ASSUME NEW d \in Conn, holder'[d] # NoReq
        PROVE  pc'[holder'[d]] # "new"
    <2>1. CASE d = c
      BY <1>1, <2>1 DEF TypeOK
    <2>2. CASE d # c
      BY <1>1, <1>5, <2>2, HolderType DEF TypeOK, ScopeInv
    <2>3. QED
      BY <2>1, <2>2
  <1>6. QED
    BY <1>1, <1>2, <1>4, <1>5 DEF TypeOK, ScopeInv, ReadsConfined

\* The end of a transaction, whichever way it goes.
LEMMA ScopeRelease ==
    ASSUME TypeOK, ScopeInv, NEW c \in Conn, holder[c] # NoReq, Release(c),
           NEW v \in {"handler", "done"}, pc' = [pc EXCEPT ![holder[c]] = v],
           UNCHANGED <<serverVars, context, seen>>
    PROVE  ScopeInv'
  <1> USE DEF serverVars
  <1>1. holder[c] \in Req
    BY HolderType
  <1>2. /\ \A d \in Conn \ {c} : holder'[d] = holder[d] /\ setting'[d] = setting[d]
        /\ holder'[c] = NoReq /\ setting'[c] = NoTenant
    BY DEF Release, TypeOK
  <1>3. pc[holder[c]] # "new" /\ \A q \in Req : pc'[q] = "new" <=> pc[q] = "new"
    BY <1>1 DEF TypeOK, ScopeInv
  <1>4. SettingIsLocal'
    BY <1>2 DEF ScopeInv, SettingIsLocal
  <1>5. \A d \in Conn : holder'[d] # NoReq => pc'[holder'[d]] # "new"
    BY <1>2, <1>3, HolderType DEF ScopeInv
  <1>6. QED
    BY <1>3, <1>4, <1>5 DEF ScopeInv, ReadsConfined

LEMMA ScopeRollback ==
    ASSUME TypeOK, ScopeInv, WorkInv, NEW c \in Conn, holder[c] # NoReq,
           Rollback(c)
    PROVE  ScopeInv' /\ WorkInv'
  <1> DEFINE r == holder[c]
  <1>1. r \in Req
    BY HolderType
  <1>2. ScopeInv'
    BY ScopeRelease DEF Rollback, serverVars
  <1>3. /\ work' = [work EXCEPT ![r] = NoWork]
        /\ UNCHANGED <<rows, unborn, context, owns, layer1>>
    BY DEF Rollback, dataVars, serverVars
  <1>4. /\ DOMAIN work'[r] = {}
        /\ \A q \in Req \ {r} : work'[q] = work[q] /\ job'[q] = job[q]
    BY <1>1, <1>3 DEF NoWork, Rollback, TypeOK
  <1>5. WorkInv'
    BY <1>3, <1>4 DEF WorkInv, NamesTenant
  <1>6. QED
    BY <1>2, <1>5

\* A statement writes a row nobody else has written, and for its own tenant
\* if a layer covers it.
LEMMA WorkPut ==
    ASSUME TypeOK, WorkInv, NEW r \in Req, NEW id \in Id, NEW row \in Row,
           ~LockedByOther(r, id), row.by = r, context[r] # NoTenant,
           ~owns \/ NamesTenant(r) =>
              /\ row.owner = context[r]
              /\ id \in unborn \/ rows[id].owner = context[r],
           work' = [work EXCEPT ![r] = Put(work[r], id, row)],
           Advance(r), UNCHANGED <<serverVars, dataVars, context>>
    PROVE  WorkInv'
  <1>1. /\ DOMAIN work'[r] = DOMAIN work[r] \union {id}
        /\ work'[r][id] = row
        /\ \A i \in DOMAIN work[r] \ {id} : work'[r][i] = work[r][i]
        /\ \A q \in Req \ {r} : work'[q] = work[q]
    <2> DEFINE new == Put(work[r], id, row)
    <2>1. work[r] \in Work
      BY DEF TypeOK
    <2>2. work'[r] = new
      BY DEF TypeOK
    <2>3. \A q \in Req \ {r} : work'[q] = work[q]
      BY DEF TypeOK
    <2>4. /\ DOMAIN new = DOMAIN work[r] \union {id}
          /\ new[id] = row
          /\ \A i \in DOMAIN work[r] \ {id} : new[i] = work[r][i]
      <3> HIDE DEF new
      <3>1. \A f \in Work : f = work[r] => Put(f, id, row) = new
        BY DEF new
      <3>2. PICK f \in Work : f = work[r]
        BY <2>1
      <3>3. /\ DOMAIN Put(f, id, row) = DOMAIN f \union {id}
            /\ Put(f, id, row)[id] = row
            /\ \A i \in DOMAIN f \ {id} : Put(f, id, row)[i] = f[i]
        BY ONLY <3>2, PutType, id \in Id, row \in Row
      <3>4. QED
        BY <3>1, <3>2, <3>3
    <2> HIDE DEF new
    <2>5. QED
      BY <2>2, <2>3, <2>4, Zenon
  <1> DEFINE Confined(p, f, i) ==
               ~owns \/ NamesTenant(p) =>
                  /\ f[p][i].owner = context[p]
                  /\ i \in unborn \/ rows[i].owner = context[p]
  <1>2. \A p \in Req : NamesTenant(p)' <=> NamesTenant(p)
    BY AdvanceKeeps DEF NamesTenant, serverVars
  <1> SUFFICES ASSUME NEW p \in Req, NEW i \in DOMAIN work'[p]
               PROVE  /\ work'[p][i].by = p
                      /\ context[p] # NoTenant
                      /\ Confined(p, work', i)
                      /\ \A q \in Req : i \in DOMAIN work'[q] => q = p
    BY <1>2 DEF WorkInv, dataVars, serverVars
  <1>3. CASE p = r /\ i = id
    BY <1>1, <1>3 DEF LockedByOther
  <1>4. CASE p = r /\ i # id
    BY <1>1, <1>4 DEF WorkInv
  <1>5. CASE p # r
    <2>1. i \in DOMAIN work[p] /\ work'[p][i] = work[p][i]
      BY <1>1, <1>5
    <2>2. i # id
      BY <2>1, <1>5 DEF LockedByOther
    <2>3. QED
      BY <1>1, <1>5, <2>1, <2>2 DEF WorkInv
  <1>6. QED
    BY <1>3, <1>4, <1>5

\* What a commit makes of a row: the transaction's own, or what it was.
LEMMA CommitRows ==
    ASSUME TypeOK, WorkInv, NEW c \in Conn, Commit(c), NEW id \in Id
    PROVE  /\ holder[c] \in Req
           /\ id \notin DOMAIN work[holder[c]] => rows'[id] = rows[id]
           /\ id \in DOMAIN work[holder[c]] =>
                 /\ rows'[id].by = holder[c]
                 /\ context[holder[c]] # NoTenant
                 /\ ~owns \/ NamesTenant(holder[c]) =>
                       /\ rows'[id].owner = context[holder[c]]
                       /\ id \in unborn \/ rows[id].owner = context[holder[c]]
  <1>1. holder[c] \in Req
    BY HolderType DEF Commit
  <1>2. rows'[id] = Current(holder[c], id)
    BY DEF Commit
  <1>3. QED
    BY <1>1, <1>2 DEF Current, WorkInv

LEMMA ScopeCommit ==
    ASSUME TypeOK, ScopeInv, WorkInv, NEW c \in Conn, Commit(c)
    PROVE  ScopeInv' /\ WorkInv'
  <1> DEFINE r == holder[c]
  <1>1. r \in Req
    BY HolderType DEF Commit
  <1>2. ScopeInv'
    BY ScopeRelease DEF Commit, serverVars
  <1>3. /\ DOMAIN work'[r] = {}
        /\ \A q \in Req \ {r} : work'[q] = work[q] /\ job'[q] = job[q]
    BY <1>1 DEF Commit, NoWork, TypeOK
  <1>4. /\ unborn' = unborn \ DOMAIN work[r]
        /\ UNCHANGED <<context, owns, layer1>>
    BY DEF Commit, serverVars
  <1>5. ASSUME NEW p \in Req, NEW i \in DOMAIN work'[p]
        PROVE  /\ work'[p][i].by = p
               /\ context[p] # NoTenant
               /\ ~owns \/ NamesTenant(p)' =>
                     /\ work'[p][i].owner = context[p]
                     /\ i \in unborn' \/ rows'[i].owner = context[p]
               /\ \A q \in Req : i \in DOMAIN work'[q] => q = p
    <2>1. p # r /\ i \in DOMAIN work[p] /\ work'[p][i] = work[p][i]
      BY <1>3, <1>5
    <2>2. i \in Id
      BY <2>1, WorkDomain DEF TypeOK
    <2>3. i \notin DOMAIN work[r]
      BY <1>1, <2>1 DEF WorkInv
    <2>4. rows'[i] = rows[i]
      BY <2>2, <2>3, CommitRows
    <2>5. NamesTenant(p)' <=> NamesTenant(p)
      BY <1>3, <1>4, <2>1 DEF NamesTenant
    <2>6. QED
      BY <1>3, <1>4, <2>1, <2>3, <2>4, <2>5 DEF WorkInv
  <1>6. WorkInv'
    BY <1>4, <1>5 DEF WorkInv
  <1>7. QED
    BY <1>2, <1>6

LEMMA ScopeTx ==
    ASSUME TypeOK, JobInv, ScopeInv, WorkInv, NEW c \in Conn,
           TxStep(c) \/ Abort(c)
    PROVE  ScopeInv' /\ WorkInv'
  <1> USE DEF serverVars, dataVars, connVars
  <1>1. CASE SetConfig(c)
    <2> DEFINE r == holder[c]
    <2>1. /\ r \in Req /\ r # NoReq
          /\ setting' = [setting EXCEPT ![c] = context[r]]
          /\ pc' = [pc EXCEPT ![r] = "running"]
          /\ UNCHANGED <<serverVars, dataVars, holder, context, job, work, seen>>
      BY <1>1, HolderType DEF SetConfig
    <2>2. \A q \in Req : pc'[q] = "new" <=> pc[q] = "new"
      BY <1>1, <2>1 DEF SetConfig, TypeOK
    <2>3. SettingIsLocal'
      BY <2>1 DEF ScopeInv, SettingIsLocal, TypeOK
    <2>4. WorkInv'
      BY <2>1, WorkKept
    <2>5. QED
      BY <2>1, <2>2, <2>3, <2>4, HolderType DEF ScopeInv, ReadsConfined
  <1>2. CASE ReadRow(c)
    <2> DEFINE r == holder[c]
               owner == Current(r, NextId(r)).owner
    <2>1. /\ r \in Req /\ r # NoReq /\ pc[r] = "running" /\ job[r].kind = "read"
          /\ UNCHANGED <<serverVars, dataVars, connVars, pc, context, work>>
          /\ Advance(r)
          /\ \/ seen' = seen
             \/ /\ Finds(c, NextId(r))
                /\ seen' = [seen EXCEPT ![r] = @ \union {owner}]
      BY <1>2, HolderType DEF ReadRow, AtStatement
    <2>2. ~owns \/ NamesTenant(r)
      BY <2>1 DEF JobInv, ScopeInv, NamesTenant
    <2>3. Finds(c, NextId(r)) => owner = context[r] /\ owner # NoTenant
      BY <2>1, <2>2, FindsItsOwn
    <2> HIDE DEF owner
    <2>4. ReadsConfined'
      BY <2>1, <2>3 DEF ScopeInv, ReadsConfined, TypeOK
    <2>5. WorkInv'
      BY <2>1, WorkKept, AdvanceKeeps
    <2>6. \A q \in Req : pc[q] = "new" => seen'[q] = {}
      BY <2>1 DEF ScopeInv, TypeOK
    <2>7. QED
      BY <2>1, <2>4, <2>5, <2>6 DEF ScopeInv, SettingIsLocal
  <1>3. ASSUME UNCHANGED <<serverVars, connVars, pc, context, seen>>
        PROVE  ScopeInv'
    BY <1>3 DEF ScopeInv, SettingIsLocal, ReadsConfined
  <1>4. CASE WriteRow(c)
    <2> DEFINE r == holder[c]
               id == NextId(r)
               row == [owner |-> Current(r, id).owner, by |-> r]
    <2>1. r \in Req /\ r # NoReq /\ id \in Id
      BY <1>4, HolderType, AdvanceType DEF WriteRow, AtStatement
    <2>2. row \in Row
      BY <2>1, CurrentType DEF Row
    <2>3. CASE work' = work
      <3>1. /\ Advance(r)
            /\ UNCHANGED <<serverVars, dataVars, connVars, pc, context, seen>>
        BY <1>4 DEF WriteRow
      <3> HIDE DEF r
      <3>2. WorkInv'
        BY <2>1, <2>3, <3>1, WorkKept, AdvanceKeeps
      <3>3. QED
        BY <1>3, <3>1, <3>2
    <2>4. CASE /\ Finds(c, id) /\ ~LockedByOther(r, id)
               /\ work' = [work EXCEPT ![r] = Put(work[r], id, row)]
      <3>1. pc[r] = "running" /\ context[r] # NoTenant
        BY <1>4, <2>1 DEF WriteRow, AtStatement, JobInv
      <3>2. ~owns \/ NamesTenant(r) => Current(r, id).owner = context[r]
        BY <2>1, <2>4, <3>1, FindsItsOwn
      <3>3. ~owns \/ NamesTenant(r) =>
                id \in unborn \/ rows[id].owner = context[r]
        BY <2>1, <3>2 DEF Current, WorkInv
      <3>4. /\ Advance(r)
            /\ UNCHANGED <<serverVars, dataVars, connVars, pc, context, seen>>
        BY <1>4 DEF WriteRow
      <3>5. row.by = r /\ row.owner = Current(r, id).owner
        OBVIOUS
      <3> HIDE DEF r, id, row
      <3>6. WorkInv'
        BY <2>1, <2>2, <2>4, <3>1, <3>2, <3>3, <3>4, <3>5, WorkPut
      <3>7. QED
        BY <1>3, <3>4, <3>6
    <2>5. QED
      BY <1>4, <2>3, <2>4 DEF WriteRow
  <1>5. ASSUME NEW owner \in Owner, CreateRow(c, owner)
        PROVE  ScopeInv' /\ WorkInv'
    <2> DEFINE r == holder[c]
               id == NextId(r)
               row == [owner |-> owner, by |-> r]
    <2>1. r \in Req /\ r # NoReq /\ id \in Id
      BY <1>5, HolderType, AdvanceType DEF CreateRow, AtStatement
    <2>2. row \in Row
      BY <2>1 DEF Row
    <2>3. pc[r] = "running" /\ context[r] # NoTenant /\ job[r].kind = "create"
      BY <1>5, <2>1 DEF CreateRow, AtStatement, JobInv
    <2>4. ~owns \/ NamesTenant(r) => owner = context[r]
      <3>1. CASE ~owns
        BY <1>5, <2>1, <3>1, PolicyBinds DEF CreateRow
      <3>2. CASE NamesTenant(r)
        BY <1>5, <2>1, <2>3, <3>2 DEF CreateRow, Stamp, NamesTenant, JobInv
      <3>3. QED
        BY <3>1, <3>2
    <2>5. /\ id \in unborn /\ ~LockedByOther(r, id) /\ Advance(r)
          /\ work' = [work EXCEPT ![r] = Put(work[r], id, row)]
          /\ UNCHANGED <<serverVars, dataVars, connVars, pc, context, seen>>
      BY <1>5 DEF CreateRow
    <2>6. row.by = r /\ row.owner = owner
      OBVIOUS
    <2> HIDE DEF r, id, row
    <2>7. WorkInv'
      BY <2>1, <2>2, <2>3, <2>4, <2>5, <2>6, WorkPut
    <2>8. QED
      BY <1>3, <2>5, <2>7
  <1>6. CASE Commit(c)
    BY <1>6, ScopeCommit
  <1>7. CASE CreateRefused(c) \/ BreakDeadlock(c) \/ Abort(c)
    BY <1>7, ScopeRollback, TenantScopeAssumption
       DEF CreateRefused, AtStatement, BreakDeadlock, Abort
  <1>8. QED
    BY <1>1, <1>2, <1>4, <1>5, <1>6, <1>7 DEF TxStep

LEMMA ScopeNext == IsolationInv /\ [Next]_vars => ScopeInv' /\ WorkInv'
  <1> SUFFICES ASSUME TypeOK, JobInv, ScopeInv, WorkInv, [Next]_vars
               PROVE  ScopeInv' /\ WorkInv'
    BY DEF IsolationInv
  <1> USE DEF serverVars, dataVars, connVars, reqVars
  <1>1. CASE OnModuleInit
    BY <1>1, WorkKept
       DEF OnModuleInit, ScopeInv, SettingIsLocal, ReadsConfined, TypeOK
  <1>2. ASSUME NEW r \in Req, Handler(r)
        PROVE  ScopeInv' /\ WorkInv'
    BY <1>2, ScopeHandler
  <1>3. ASSUME NEW r \in Req, NEW c \in Conn, Acquire(r, c)
        PROVE  ScopeInv' /\ WorkInv'
    BY <1>3, ScopeAcquire
  <1>4. ASSUME NEW c \in Conn, TxStep(c) \/ Abort(c)
        PROVE  ScopeInv' /\ WorkInv'
    BY <1>4, ScopeTx
  <1>5. CASE UNCHANGED vars
    BY <1>5, WorkKept DEF vars, ScopeInv, SettingIsLocal, ReadsConfined
  <1>6. QED
    BY <1>1, <1>2, <1>3, <1>4, <1>5 DEF Next

LEMMA Isolation == Spec => []IsolationInv
  BY TypeInit, TypeNext, ScopeInit, JobNext, ScopeNext, PTL
     DEF Spec, IsolationInv

\* Under either layer alone, a row read through the app client belongs to the
\* tenant of the request that reads it (tenant-scope.ts:14-16).
THEOREM ReadsAreConfined == Spec => []ReadsConfined
  <1>1. IsolationInv => ReadsConfined
    BY DEF IsolationInv, ScopeInv
  <1>2. QED
    BY <1>1, Isolation, PTL

\* A pooled connection never carries the tenant of an earlier request
\* (tenant-scope.ts:139-143).
THEOREM SettingStaysLocal == Spec => []SettingIsLocal
  <1>1. IsolationInv => SettingIsLocal
    BY DEF IsolationInv, ScopeInv
  <1>2. QED
    BY <1>1, Isolation, PTL

\* Only a commit changes a row.
LEMMA OnlyCommitsWrite ==
    ASSUME [Next]_vars
    PROVE  rows' = rows \/ \E c \in Conn : Commit(c)
  <1> USE DEF serverVars, dataVars, connVars, reqVars
  <1>1. ASSUME NEW r \in Req, Handler(r)
        PROVE  rows' = rows
    BY <1>1 DEF Handler, Arrive, EnterPlatform, LeavePlatform, Query,
                WithTenantTx, Submit, Throws
  <1>2. ASSUME NEW c \in Conn, TxStep(c) \/ Abort(c)
        PROVE  rows' = rows \/ Commit(c)
    BY <1>2 DEF TxStep, Abort, SetConfig, ReadRow, WriteRow, CreateRow,
                CreateRefused, BreakDeadlock, Rollback
  <1>3. QED
    BY <1>1, <1>2 DEF Next, OnModuleInit, Acquire, vars

LEMMA WritesStep == IsolationInv /\ [Next]_vars =>
    \A id \in Id : rows'[id] # rows[id] =>
        LET r == rows'[id].by IN
        /\ r \in Req
        /\ context[r] # NoTenant
        /\ ~owns \/ NamesTenant(r) =>
              /\ rows'[id].owner = context[r]
              /\ id \in unborn \/ rows[id].owner = context[r]
  <1> SUFFICES ASSUME IsolationInv, [Next]_vars,
                      NEW id \in Id, rows'[id] # rows[id]
               PROVE  LET r == rows'[id].by IN
                      /\ r \in Req
                      /\ context[r] # NoTenant
                      /\ ~owns \/ NamesTenant(r) =>
                            /\ rows'[id].owner = context[r]
                            /\ id \in unborn \/ rows[id].owner = context[r]
    OBVIOUS
  <1>1. PICK c \in Conn : Commit(c)
    BY OnlyCommitsWrite
  <1>2. QED
    BY <1>1, CommitRows DEF IsolationInv

\* A change that is committed under either layer is made for the tenant that
\* owns the row before and after it, whatever ids the statement names.  For a
\* role that owns the tables, which the server does not refuse
\* (prisma.service.ts:101-108), this leaves out what withTenantTx writes without
\* naming the tenant.
THEOREM WritesAreConfined == Spec => WritesConfined
  BY Isolation, WritesStep, PTL DEF Spec, WritesConfined
=============================================================================
