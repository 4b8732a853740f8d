---------------------------- MODULE TenantScope ----------------------------
(***************************************************************************)
(* Tenant isolation: the Prisma extension that scopes every query          *)
(* (tenant-scope.ts), the transactions that set the tenant for Row Level   *)
(* Security (prisma.service.ts and the policies of the migrations) and the *)
(* request context both read (request-context.ts, auth.guard.ts).          *)
(*                                                                         *)
(* The application's client has a pool of connections, shared by all       *)
(* requests.  A query is a transaction on one of them: set_config, one or  *)
(* more statements, commit.  Requests run these steps interleaved, writers *)
(* of a row wait for one another, and Postgres breaks a circle of waits.   *)
(* A statement is seen row by row: it names an id, and what it does with   *)
(* that row depends on its filter and on the policy.  An update and a      *)
(* delete are both a write of the rows they select.                        *)
(***************************************************************************)
EXTENDS Naturals, Sequences

CONSTANTS
    Tenant,    \* the organizations
    Id,        \* primary keys in the tenant-owned tables
    Req,       \* requests, each made at most once
    Conn,      \* the connections of the app client's pool
    NoTenant,  \* a NULL tenant_id, and a context without a tenant
    NoReq,     \* nobody
    MaxBatch,  \* bound on the ids one transaction names
    MaxQueries \* bound on the transactions one request opens

ASSUME TenantScopeAssumption ==
    /\ NoTenant \notin Tenant
    /\ NoReq \notin Req
    /\ MaxBatch \in Nat
    /\ MaxQueries \in Nat

VARIABLES
    server,    \* "starting", "up", or "refused" by onModuleInit
    bypasses,  \* the app client's role is a superuser's or has BYPASSRLS
    owns,      \* it owns the tables, whose policies are enabled, not forced
    layer1,    \* FALSE: the case of tenant-scope.ts:14-16, the policies alone
    rows,      \* id -> its tenant_id and the request that wrote it last
    unborn,    \* the ids no row has yet
    holder,    \* connection -> the request whose transaction is open on it
    setting,   \* connection -> app.tenant_id there
    pc,        \* request -> where it stands
    context,   \* request -> RequestStore.tenantId
    platform,  \* request -> RequestStore.platformScope
    job,       \* request -> the query it is running
    opened,    \* request -> how many transactions it has asked for
    work,      \* request -> the rows its open transaction wrote
    seen       \* history: request -> tenant_id of every row returned to it

serverVars == <<server, bypasses, owns, layer1>>
dataVars == <<rows, unborn>>
connVars == <<holder, setting>>
reqVars == <<pc, context, platform, job, opened, work, seen>>
vars == <<serverVars, dataVars, connVars, reqVars>>

Owner == Tenant \union {NoTenant}
Row == [owner : Owner, by : Req \union {NoReq}]

\* scoped: through prisma.db; otherwise a statement of withTenantTx.
\* filtered: a raw statement that names the tenant itself (reorder does).
\* ids: the ids named that are still to be looked at.
Job == [scoped   : BOOLEAN,
        filtered : BOOLEAN,
        kind     : {"read", "write", "create"},
        ids      : Seq(Id)]
NoJob == [scoped |-> TRUE, filtered |-> TRUE, kind |-> "read", ids |-> <<>>]

\* What an open transaction has written, by id.
Work == UNION {[S -> Row] : S \in SUBSET Id}
NoWork == [id \in {} |-> NoReq]

\* A create makes rows to be; a read or a write names rows there are.
IdsFor(kind) == IF kind = "create" THEN unborn ELSE Id \ unborn

\* Lists of different ids, as the bodies of reorder and import carry them.
IdLists(kind) == UNION {{s \in [1 .. n -> IdsFor(kind)] :
                            \A i, j \in 1 .. n : s[i] = s[j] => i = j} :
                        n \in 1 .. MaxBatch}

-----------------------------------------------------------------------------
Init ==
    /\ server = "starting"
    /\ bypasses \in BOOLEAN
    /\ owns \in BOOLEAN
    /\ layer1 \in BOOLEAN
    /\ layer1 \/ ~owns
    /\ unborn \in SUBSET Id
    /\ rows \in {f \in [Id -> [owner : Owner, by : {NoReq}]] :
                    \A id \in unborn : f[id].owner = NoTenant}
    /\ holder = [c \in Conn |-> NoReq]
    /\ setting = [c \in Conn |-> NoTenant]
    /\ pc = [r \in Req |-> "new"]
    /\ context = [r \in Req |-> NoTenant]
    /\ platform = [r \in Req |-> FALSE]
    /\ job = [r \in Req |-> NoJob]
    /\ opened = [r \in Req |-> 0]
    /\ work = [r \in Req |-> NoWork]
    /\ seen = [r \in Req |-> {}]

-----------------------------------------------------------------------------
(* The server and the requests                                             *)

\* Mutant: the check of the role is only a warning.
OnModuleInitWarns ==
    /\ server = "starting"
    /\ server' = "up"
    /\ UNCHANGED <<bypasses, owns, layer1, dataVars, connVars, reqVars>>

\* PrismaService.onModuleInit: a role that pg_roles says skips every policy is
\* refused.  That a role owns the tables is not looked at: appDatabaseUrl falls
\* back to the owner's URL, whose role need not be a superuser.
OnModuleInit ==
    /\ server = "starting"
    /\ server' = IF bypasses THEN "refused" ELSE "up"
    /\ UNCHANGED <<bypasses, owns, layer1, dataVars, connVars, reqVars>>

\* CorrelationIdMiddleware opens the context, and AuthGuard sets its tenant
\* from the claims: none for a super admin or on a public route.  From here on
\* the handler may do any of what follows, and has answered when it does no more.
Arrive(r, t) ==
    /\ server = "up"
    /\ pc[r] = "new"
    /\ pc' = [pc EXCEPT ![r] = "handler"]
    /\ context' = [context EXCEPT ![r] = t]
    /\ UNCHANGED <<serverVars, dataVars, connVars, platform, job, opened, work,
                   seen>>

\* RequestContext.asPlatform: the flag goes up, the callback queries through
\* the owner's client, and the finally block puts the flag back.
EnterPlatform(r) ==
    /\ pc[r] = "handler"
    /\ pc' = [pc EXCEPT ![r] = "platform"]
    /\ platform' = [platform EXCEPT ![r] = TRUE]
    /\ UNCHANGED <<serverVars, dataVars, connVars, context, job, opened, work,
                   seen>>

\* The callback returned or threw; what it threw ends the request, unless a
\* caller catches it, as the audit interceptor does.
LeavePlatform(r, threw) ==
    /\ pc[r] = "platform"
    /\ platform' = [platform EXCEPT ![r] = FALSE]
    /\ pc' = [pc EXCEPT ![r] = "handler"]
    /\ UNCHANGED <<serverVars, dataVars, connVars, context, job, opened, work,
                   seen>>

-----------------------------------------------------------------------------
(* The two ways into the app client                                        *)

Submit(r, j) ==
    /\ opened[r] < MaxQueries
    /\ opened' = [opened EXCEPT ![r] = @ + 1]
    /\ pc' = [pc EXCEPT ![r] = "waiting"]
    /\ job' = [job EXCEPT ![r] = j]
    /\ UNCHANGED <<serverVars, dataVars, connVars, context, platform, work, seen>>

Throws(r) ==
    /\ pc' = [pc EXCEPT ![r] = "done"]
    /\ UNCHANGED <<serverVars, dataVars, connVars, context, platform, job, opened,
                   work, seen>>

\* An operation of prisma.db on a tenant-owned model.  Each row it may touch is
\* decided by itself, so one stands for all of them.
Query(r, kind, id) ==
    /\ pc[r] = "handler"
    /\ IF platform[r] \/ context[r] = NoTenant
       THEN Throws(r)
       ELSE Submit(r, [scoped |-> TRUE, filtered |-> FALSE, kind |-> kind,
                       ids |-> <<id>>])

\* withTenantTx: reorder writes with the tenant in every filter, import writes
\* by primary key alone and creates with the tenant in the data.
WithTenantTx(r, kind, filtered, list) ==
    /\ pc[r] = "handler"
    /\ IF context[r] = NoTenant
       THEN Throws(r)
       ELSE Submit(r, [scoped |-> FALSE, filtered |-> filtered, kind |-> kind,
                       ids |-> list])

-----------------------------------------------------------------------------
(* The transaction                                                         *)

Acquire(r, c) ==
    /\ pc[r] = "waiting"
    /\ holder[c] = NoReq
    /\ holder' = [holder EXCEPT ![c] = r]
    /\ pc' = [pc EXCEPT ![r] = "begun"]
    /\ UNCHANGED <<serverVars, dataVars, setting, context, platform, job, opened,
                   work, seen>>

\* SELECT set_config('app.tenant_id', tenant, true)
SetConfig(c) ==
    LET r == holder[c] IN
    /\ r # NoReq
    /\ pc[r] = "begun"
    /\ setting' = [setting EXCEPT ![c] = context[r]]
    /\ pc' = [pc EXCEPT ![r] = "running"]
    /\ UNCHANGED <<serverVars, dataVars, holder, context, platform, job, opened,
                   work, seen>>

\* A transaction sees its own writes and what is committed.
Current(r, id) == IF id \in DOMAIN work[r] THEN work[r][id] ELSE rows[id]
LockedByOther(r, id) == \E q \in Req \ {r} : id \in DOMAIN work[q]

\* Mutant: the policies are not in force.
PolicyAllowsAll(c, owner) == TRUE

\* tenant_id = current_tenant_id(), where a NULL on either side matches nothing,
\* for every role but a privileged one and the owner of the tables.
PolicyAllows(c, owner) ==
    \/ bypasses \/ owns
    \/ owner # NoTenant /\ owner = setting[c]

\* The statement names the tenant: layer 1 put it there, or the code did.
NamesTenant(r) == IF job[r].scoped THEN layer1 ELSE job[r].filtered

\* The where clause of the statement.
FilterSelects(r, owner) == NamesTenant(r) => owner = context[r]

\* The row the next statement names is one it can find.
Finds(c, id) ==
    LET owner == Current(holder[c], id).owner IN
    /\ id \notin unborn
    /\ FilterSelects(holder[c], owner)
    /\ PolicyAllows(c, owner)

NextId(r) == Head(job[r].ids)
AtStatement(c, kind) ==
    /\ holder[c] # NoReq
    /\ pc[holder[c]] = "running"
    /\ job[holder[c]].ids # <<>>
    /\ job[holder[c]].kind = kind
Advance(r) ==
    job' = [job EXCEPT ![r] = [@ EXCEPT !.ids = Tail(job[r].ids)]]

Put(f, id, row) == [i \in DOMAIN f \union {id} |-> IF i = id THEN row ELSE f[i]]

ReadRow(c) ==
    LET r == holder[c] IN
    /\ AtStatement(c, "read")
    /\ seen' = IF Finds(c, NextId(r))
               THEN [seen EXCEPT ![r] = @ \union {Current(r, NextId(r)).owner}]
               ELSE seen
    /\ Advance(r)
    /\ UNCHANGED <<serverVars, dataVars, connVars, pc, context, platform, opened,
                   work>>

\* A row that is not found is skipped; one that another transaction wrote has
\* to be waited for.
WriteRow(c) ==
    LET r == holder[c] IN
    /\ AtStatement(c, "write")
    /\ IF Finds(c, NextId(r))
       THEN /\ ~LockedByOther(r, NextId(r))
            /\ work' = [work EXCEPT ![r] =
                          Put(@, NextId(r),
                              [owner |-> Current(r, NextId(r)).owner, by |-> r])]
       ELSE work' = work
    /\ Advance(r)
    /\ UNCHANGED <<serverVars, dataVars, connVars, pc, context, platform, opened,
                   seen>>

\* Layer 1 stamps the tenant on the data; elsewhere the data carries one.
Stamp(r) == IF job[r].scoped /\ layer1 THEN {context[r]} ELSE Tenant

\* The policy's WITH CHECK has to accept the new row.
CreateRow(c, owner) ==
    LET r == holder[c] IN
    /\ AtStatement(c, "create")
    /\ NextId(r) \in unborn
    /\ ~LockedByOther(r, NextId(r))
    /\ owner \in Stamp(r)
    /\ PolicyAllows(c, owner)
    /\ work' = [work EXCEPT ![r] =
                   Put(@, NextId(r), [owner |-> owner, by |-> r])]
    /\ Advance(r)
    /\ UNCHANGED <<serverVars, dataVars, connVars, pc, context, platform, opened,
                   seen>>

\* Mutant: the setting is the session's (the third argument of set_config).
ReleaseOnly(c) ==
    /\ holder' = [holder EXCEPT ![c] = NoReq]
    /\ setting' = setting

\* The end of a transaction: set_config was local to it.
Release(c) ==
    /\ holder' = [holder EXCEPT ![c] = NoReq]
    /\ setting' = [setting EXCEPT ![c] = NoTenant]

Commit(c) ==
    LET r == holder[c] IN
    /\ r # NoReq
    /\ pc[r] = "running"
    /\ job[r].ids = <<>>
    /\ rows' = [id \in Id |-> Current(r, id)]
    /\ unborn' = unborn \ DOMAIN work[r]
    /\ work' = [work EXCEPT ![r] = NoWork]
    /\ Release(c)
    /\ pc' = [pc EXCEPT ![r] = "handler"]
    /\ job' = [job EXCEPT ![r] = NoJob]
    /\ UNCHANGED <<serverVars, context, platform, opened, seen>>

\* Mutant: what the transaction wrote outlives its rollback.
RollbackKeepsWork(c) ==
    LET r == holder[c] IN
    /\ work' = work
    /\ Release(c)
    /\ pc' = [pc EXCEPT ![r] = "done"]
    /\ job' = [job EXCEPT ![r] = NoJob]
    /\ UNCHANGED <<serverVars, dataVars, context, platform, opened, seen>>

Rollback(c) ==
    LET r == holder[c] IN
    /\ work' = [work EXCEPT ![r] = NoWork]
    /\ Release(c)
    /\ pc' = [pc EXCEPT ![r] = "done"]
    /\ job' = [job EXCEPT ![r] = NoJob]
    /\ UNCHANGED <<serverVars, dataVars, context, platform, opened, seen>>

\* The policy refuses the new row, or another has its unique key by now.
CreateRefused(c) ==
    LET r == holder[c] IN
    /\ AtStatement(c, "create")
    /\ \/ NextId(r) \notin unborn
       \/ \E owner \in Stamp(r) : ~PolicyAllows(c, owner)
    /\ Rollback(c)

\* A statement fails, or the time of an interactive transaction is over.
Abort(c) ==
    /\ holder[c] # NoReq
    /\ Rollback(c)

\* r's next statement waits for a row, or a unique key, that q has written.
WaitsFor(r, q) ==
    /\ q # r
    /\ \E c \in Conn :
          /\ holder[c] = r
          /\ \/ AtStatement(c, "write") /\ Finds(c, NextId(r))
             \/ AtStatement(c, "create")
    /\ NextId(r) \in DOMAIN work[q]

\* Mutant: nothing breaks a circle of waiting transactions.
BreakDeadlockNever(c) == FALSE /\ Rollback(c)

\* Postgres picks one transaction of a circle and rolls it back.
BreakDeadlock(c) ==
    /\ \E S \in SUBSET Req :
          /\ holder[c] \in S
          /\ \A r \in S : \E q \in S : WaitsFor(r, q)
    /\ Rollback(c)

-----------------------------------------------------------------------------
TxStep(c) ==
    \/ SetConfig(c)
    \/ ReadRow(c)
    \/ WriteRow(c)
    \/ \E owner \in Owner : CreateRow(c, owner)
    \/ CreateRefused(c)
    \/ Commit(c)
    \/ BreakDeadlock(c)

Handler(r) ==
    \/ \E t \in Owner : Arrive(r, t)
    \/ EnterPlatform(r)
    \/ \E threw \in BOOLEAN : LeavePlatform(r, threw)
    \/ \E kind \in {"read", "write", "create"} :
          \E id \in IdsFor(kind) : Query(r, kind, id)
    \/ \E kind \in {"write", "create"} :
          \E filtered \in {FALSE, kind = "write"}, list \in IdLists(kind) :
              WithTenantTx(r, kind, filtered, list)

Next ==
    \/ OnModuleInit
    \/ \E r \in Req : Handler(r)
    \/ \E r \in Req, c \in Conn : Acquire(r, c)
    \/ \E c \in Conn : TxStep(c) \/ Abort(c)

\* An open transaction goes on; a failure is a step of it too.
Spec == Init /\ [][Next]_vars /\ \A c \in Conn : WF_vars(TxStep(c))
-----------------------------------------------------------------------------
(* Properties                                                              *)

\* Every variable has its type, and only an open transaction has rows that are
\* not committed.
TypeOK ==
    /\ server \in {"starting", "up", "refused"}
    /\ bypasses \in BOOLEAN
    /\ owns \in BOOLEAN
    /\ layer1 \in BOOLEAN
    /\ rows \in [Id -> Row]
    /\ unborn \subseteq Id
    /\ holder \in [Conn -> Req \union {NoReq}]
    /\ setting \in [Conn -> Owner]
    /\ pc \in [Req -> {"new", "handler", "platform", "waiting", "begun",
                       "running", "done"}]
    /\ context \in [Req -> Owner]
    /\ platform \in [Req -> BOOLEAN]
    /\ job \in [Req -> Job]
    /\ opened \in [Req -> 0 .. MaxQueries]
    /\ work \in [Req -> Work]
    /\ \A r \in Req : pc[r] # "running" => work[r] = NoWork
    /\ seen \in [Req -> SUBSET Owner]

\* "If layer 1 were removed entirely, the database would still refuse to
\* return another tenant's rows" (tenant-scope.ts:14-16): with either layer
\* alone, layer 1 being all there is for a role that owns the tables, a row read
\* through the app client is the reader's tenant's own, and a request without a
\* tenant reads nothing.
ReadsConfined == \A r \in Req : seen[r] \subseteq {context[r]} \ {NoTenant}

\* A committed change to a row is the work of a request that has a tenant, and
\* that tenant owns the row before and after, for every statement that either
\* layer covers: the policies bind its role, or it names the tenant
\* (tenant-scope.ts:118-133, prisma.service.ts:71-76).  Nothing confines a
\* statement of withTenantTx that does not name it, for a role that owns the
\* tables.
WritesConfined ==
    [][\A id \in Id : rows'[id] # rows[id] =>
          LET r == rows'[id].by IN
          /\ r \in Req
          /\ context[r] # NoTenant
          /\ ~owns \/ NamesTenant(r) =>
                /\ rows'[id].owner = context[r]
                /\ id \in unborn \/ rows[id].owner = context[r]]_vars

\* "A session-level value would leak one tenant's scope into another request"
\* (tenant-scope.ts:139-143): a connection in the pool carries no tenant, and
\* one in use carries its holder's or none.
SettingIsLocal ==
    \A c \in Conn :
        setting[c] # NoTenant =>
            holder[c] # NoReq /\ setting[c] = context[holder[c]]

\* A transaction that was opened ends and gives its connection back: writers
\* that wait for one another do not keep the pool (tenant-scope.ts:144-147,
\* prisma.service.ts:81-84).
ConnectionsReturn ==
    \A c \in Conn : holder[c] # NoReq ~> holder[c] = NoReq
=============================================================================
