# Face-Cam: TLA+ specifications

Face-Cam is a multi-tenant service that keeps the members of organizations
(tenants), the face data they consented to, and the accounts of those who manage
them. It is a NestJS API on Postgres (`src/apps/api`), a Next.js portal
(`src/apps/web`) and a package of schemas that both share
(`src/packages/shared`). CompreFace, an external engine, holds the faces; a
storage driver holds the images.

These specifications model the parts of the API and of the portal where requests
overlap, fail half way or are judged by data that has changed meanwhile. Each is
translated from the source; `PROJECT.json` gives the lines behind every definition (`map`).

- [1 The system](#1-the-system)
- [2 The modules](#2-the-modules)
- [3 What the runs check](#3-what-the-runs-check)
- [4 Where code and documentation disagree](#4-where-code-and-documentation-disagree)
- [5 What is proved](#5-what-is-proved)
- [6 What is not modelled](#6-what-is-not-modelled)
- [7 Plan](#7-plan)

## 1 The system

Every HTTP request runs in one Node process as an asynchronous function.
Between two `await`s it has the process to itself; at an `await` other requests
run. That, the pool of database connections, and the calls to the engine and to
storage that can fail on their own are where the hard behaviour is.

| Component | State it keeps | Operations | Talks to | Hard behaviour |
|---|---|---|---|---|
| Biometric data (`api/src/face`: enrolment, face-data, controller) | `face_templates`, consent columns of `members`, images, the engine's subjects | enrol, erase, withdraw and record consent, list | engine, storage, database | three stores without a common transaction, overlapping requests, timeouts, partial failure, crashes |
| Face engine client, anti-spoofing (`compreface.client.ts`, `antispoof.client.ts`, `docker/antispoof`) | cached admin session | add face, delete subject, recognize, provision a collection | CompreFace over HTTP | a call that times out after it took effect |
| Tenant isolation (`api/src/prisma`, `common/context`, `auth.guard.ts`, the RLS migrations) | per request: tenant, platform flag; per connection: `app.tenant_id` | scoped queries, `withTenantTx`, `asPlatform` | Postgres | pooled connections, batches, deadlocks, a role that bypasses the policies, or owns the tables |
| Sign-in and sessions (`api/src/auth`) | failure count, lock, `tokenVersion`; tokens live with the clients | login, refresh, logout, logout everywhere | database, cookies | read-modify-write of the count, refreshes in flight at a sign-out |
| Member fields, members, import (`api/src/members`, `shared/src/field-schema.ts`, `member.ts`) | field definitions, members and their attributes | field create, update, archive, restore, reorder; member create, update, archive; import | database | definitions that change under a write, one import read at four moments |
| Tenants (`api/src/tenants`, `shared/src/templates.ts`) | tenant, branding, settings, status | create, update, suspend, reactivate, public profile | database | slug taken between look-up and insert |
| Seed script (`api/prisma/seed.ts`) | none of its own | super admin, demo organizations, back-fill of fields | database, as its owner | a second process without a transaction; killed and run again beside the API |
| Request pipeline (`common/guards`, `interceptors`, `filters`) | none of its own | status guard, roles guard, audit, errors | all of the above | status read before the handler runs, audit written after the answer |
| Storage drivers (`api/src/storage`) | files or objects | put, get, delete, signed URL | disk, S3 | failures, expiry |
| Health, configuration, encryption | a Redis client | probes | everything | a client that stays closed |
| Web client, requests (`web/src/lib/api.ts`) | cookies, one shared refresh | requests, refresh on 401 | API | one refresh shared by many requests |
| Web client, routing (`web/src/middleware.ts`, `lib/session.ts`, `lib/portal.ts`, layouts, login forms) | cookies of each host, what a tab shows | rewrite, session look-ups, redirects, sign-in, sign-out | API | layout and page look separately, redirects to one another |
| Web client, screens (field manager, member form, archive button, import wizard) | what the server rendered last, a `pending` flag each | clicks | API | stale screens, lost answers, second clicks, row locks under them |

What makes each one right:

- *Biometric data*: nothing is stored for someone who never consented; deletion
  means engine, table and images; withdrawal leaves nothing; the engine forgets
  a face before its image or row goes; what enrolment reports is what it did.
- *Tenant isolation*: a request reads its own tenant's rows only, even with one
  of the two layers missing, and writes no others in a statement that a layer covers; a connection carries no tenant from
  one request to another; batches do not wedge the pool.
- *Sessions*: a lock lasts and the number of guesses is bounded, as far as attempts
  that overlap allow; a sign-out everywhere ends every session.
- *Portal and pipeline*: a session lasts as long as the refresh token, nothing is
  done twice by a retry, a suspended tenant's data does not change.
- *Fields and members*: what is stored fits the definitions, an import is all or
  nothing, required fields are enforced.
- *Tenants*: nobody's organization is half made or taken over; the script completes
  what it finds and undoes no organization's choices.
- *Routing*: a page is shown on its own host to its own accounts; a sign-in reaches
  the page of its role; no two pages redirect to one another for ever.
- *Screens*: a reordering is whole, everything is created once, a request sent again
  does no harm, buttons come back.

## 2 The modules

| Module | Models |
|---|---|
| `BiometricRecord` | the promise of the face subsystem: for each member, consent and one set of recognisable faces |
| `FaceData` | enrolment, erasure and consent over engine, storage and table, with faults |
| `MCFaceData` | its symmetry for TLC |
| `FaceDataProofs` | its theorems |
| `TenantScope` | scoped queries, transactions, the pool and Row Level Security |
| `TenantScopeProofs` | its theorems |
| `Sessions` | one account: login, lockout, refresh, sign-out everywhere |
| `SessionsProofs` | its theorems |
| `MemberFields` | field definitions, member writes and the import |
| `MCMemberFields` | its symmetry for TLC |
| `MemberFieldsProofs` | its theorems |
| `Portal` | one browser: requests, the shared refresh, cookies, the guards, suspension |
| `PortalProofs` | its theorems |
| `Tenants` | registration, changes of a tenant, and the seed script beside them |
| `MCTenants` | its symmetry for TLC |
| `TenantsProofs` | its theorems |
| `Routing` | what tabs are shown: middleware, layouts, pages, redirects, sign-in and sign-out |
| `RoutingProofs` | its theorems |
| `Console` | screens that work on what they were shown, and the API under them |
| `ConsoleProofs` | its theorems |

`FaceData` implements `BiometricRecord` (property `RecordSpec`), the engine's
subjects being the faces by which a member can be recognised. The detailed modules
do not share state, with one exception: members are never deleted, consent is
touched by `FaceData` alone, and the field definitions by `MemberFields` alone.
The account is seen from three sides: `Sessions` has every token there is, `Portal`
the cookies of one browser against the guards of the API, `Routing` the cookies of
each host against what is rendered. The status of a tenant is set in `Tenants`,
met by a write in `Portal` and by a page in `Routing`. What a field or a member
holds is in `MemberFields`; their places, and who created them, in `Console`.

### FaceData

A request is a process with the local variables of the function it runs
(`call[r]`). One step is one call to the engine, the storage or the database;
`call[r].pc` names the call that comes next.

| Code | Actions |
|---|---|
| `enrol`: checks, one look at member and key | `EnrolStart`, `EnrolRefused` |
| the loop over captures | `ImageRejected`, `AddFace`, `PutImage`, `CreateRow`; failures `AddFaceLate`, `PutImageFails`, `CreateRowFails` |
| after the loop | `EnrolDone` (sets `faceEnrolledAt`), `EnrolNone` |
| `eraseMemberFaces` | `EraseStart` (reads the rows, may return at once), `EraseEngine`, `EraseImage`, `EraseRows`, `EraseFlag`; failures `EraseEngineFails`, `StatementFails` |
| `withdrawConsent` | the same, then `WithdrawConsent` |
| `recordConsent`, members' `update` | `RecordConsent`, `UpdateMember` |
| the process dies | `Crash` |

`code`, `consent`, `withdrawn` and `enrolled` are columns of `members`; `rows` is
`face_templates`; `engine` and `store` are outside the database. A capture has
the identifier `<<request, number>>`, for both the `image_id` of the engine and
the random storage key. The tenant's key (`apiKey`) and `storeEmbeddingOnly`
(`storeImages`) are never written by the code in the repository: the key may
appear at any time (`Provision`), the setting is arbitrary and fixed. A failure
leaves open whether the call took effect, where the code cannot know. The 404
that the engine gives for a subject it does not know reaches the request as the
same error as an engine that is down. `lost` is a history variable: the faces that
an erasure made the engine forget, until an erasure has deleted their rows too.

### TenantScope

A query is a transaction on a connection of the app client's pool: `Acquire`,
`SetConfig`, one or more statements (`ReadRow`, `WriteRow`, `CreateRow`), and
`Commit`, or a rollback (`CreateRefused`, `Abort`, `BreakDeadlock`). `Query` is
an operation of `prisma.db`, with the checks of the extension; `WithTenantTx` is
the raw transaction of `reorder` (every filter names the tenant) and `import`
(updates by id alone). `EnterPlatform` and `LeavePlatform` are `asPlatform`.
Statements are seen row by row: what a statement does with a row depends on its
filter (`FilterSelects`) and on the policy (`PolicyAllows`). Uncommitted writes
are in `work[r]`, and lock their rows.

Either layer may be missing, but not both. `layer1 = FALSE` is the case the comment
in `tenant-scope.ts:14-16` speaks of, in which the extension injects no filter. Row
Level Security does not bind a role in two cases: `bypasses`, a superuser or one
with BYPASSRLS, which the start-up check refuses; and `owns`, the owner of the
tables, which Postgres exempts because the policies are enabled without FORCE, and
for which the check does not look. `NamesTenant` says whether a statement has the
tenant in it: one of `prisma.db` by `layer1`, one of `withTenantTx` by itself.

Postgres is external: read committed, row locks, deadlock detection, settings
that are local to a transaction, policies in which NULL matches nothing. A
request runs one query at a time; the one place that runs two at once
(`members.list`) has two independent reads, each in its own transaction.

### Sessions

The server keeps no session. `tokens` is every token issued and not expired,
whoever holds it, so that presenting one is `Refresh` or `LogoutStart` with any
of them. Login is two steps: the account is read and found usable (`LoginRead`),
then, after the hash, `LoginRight` or `RecordFailure`; issuing a pair is a step
of its own (`IssueSession`), for the pair carries a version read earlier.
`verifyRefresh` and the look-up that follows are one step. Time is a number of
ticks for each lifetime. A refused request changes nothing and is not an action.
Three history variables, kept by `NoteWrong`, tell what overlapping attempts can do
to the count and the lock: `wrong`, the wrong answers recorded since the last success
or lock; `stale`, those of them that were added to a count no longer the account's;
`racing`, the other attempts that were under way when the account was last locked.
`DISABLED` accounts are left out, because nothing in the source disables one.

### MemberFields

`Validate` reads the definitions and judges the payload; `CreateMember`,
`UpdateMember` or `WriteRefused` comes later and writes what the validation
left. The import reads the schema (`ImportSchema`), then the keys and the file
(`ImportParse`), then the members with the codes of the file (`ImportLookup`),
then commits in one transaction (`ImportCommit`) or rolls back
(`ImportRollback`). Field edits may come between any two of these.

Field types are reduced to text (takes any value) and select (takes its
options). A blank input and a missing one are both `NoValue`. The look-up for a
taken code and the write are one step, since the unique index decides in the
end; an index violation is the same refusal. A dry run writes nothing and is not
an action. Archiving a member sets two columns that none of these steps reads.

### Portal

A call of `apiFetch` (`call[c]`) goes to the API and passes `AuthGuard`,
`TenantStatusGuard` and its handler in separate steps, for there is an `await` in
each. A 401 makes it wait for the refresh of its tab (`inFlight` is the module
variable `refreshInFlight`, named by the call that began it). `refresh[b]` is that
request, which the API serves in two steps, as in `Sessions`.

| Code | Actions |
|---|---|
| `requestWithRefresh`, `refreshSession` | `Send`, `Receive`, `ReceiveUnauthorized`, `RefreshArrives`, `RefreshLost` |
| the guards | `AuthGuard`, `TenantStatusGuard` |
| handlers | `Read`, `Write`, `HandlerThrows`, `Login`, `Logout`, `LogoutEverywhere` |
| `AuthController.refresh`, `AuthService.refresh` | `RefreshRead`, `RefreshIssue` |
| the rest of the world | `SetStatus`, `OtherDevice`, `Lock`, `Lost`, `Tick` |

Calls are reads, writes, or one of three auth routes. A cookie and its token
expire together, so a cookie is the time at which it does. `jar` is shared by the
tabs. A write is one step: what happens inside one is in the other modules. A
call that the server makes while it renders a page is left out: it does not
refresh (`isServer`).

### Tenants

A tenant is a record at its address, with the rows that belong to it: whether it
has an administrator, and for each field and member whether there is none, a seeded
one, or one that the organization made or changed (`own`). An address is a base and
the number that `resolveSlug` appends. Rows inserted in a transaction are not seen
before `Commit`, except by the unique index, for which the next insert waits.

| Code | Actions |
|---|---|
| `create`, `resolveSlug` | `CreateStart`, `resolveSlug` (one look-up each) |
| the transaction of `create` | `InsertTenant`, `InsertAdmin`, `InsertFields`, `Commit`, `Rollback` |
| `update`, `suspend`, `reactivate` | `Update`, `Suspend`, `Reactivate` |
| what organizations do with their rows | `OwnField`, `OwnMember` |
| `main`, `seedSuperAdmin`, `seedOrg` of the script | `SeedStart`, `seedSuperAdmin`, `UpsertTenant`, `UpsertUser`, `SeedMember`, `OrgReady` |
| `seedFieldDefinitions` | `ReadKeys`, `CreateFields` |
| `backfillFieldDefinitions` | `ListTenants`, `Backfill` |
| an error, a kill | `SeedDies` |

Templates and demo organizations are those of the code, save that one member stands
for the handful of each. The suspension reason, branding and settings are
left out: nothing decides by them here.

### Routing

A tab shows a page or has a request under way; `tab[t]` has both, and what the
rendering has read so far. Layout and page each ask for the session, in either
order, and all look-ups use the cookies that came with the request (`cookie`), which
may have expired since.

| Code | Actions |
|---|---|
| `middleware` | `middleware` |
| layouts and pages | `getTenantBySlug`, `LayoutSession`, `PageSession`, `PageData`, `RenderFails` |
| what they answer | `redirect`, `Rendered` |
| login forms, sign-out button | `SubmitLogin`, `LoginAnswered`, `SignOut`, `SignOutAnswered` |
| the user | `Visit` (any address), `Follow` (a link, which keeps the layout) |
| the rest of the world | `LoginElsewhere`, `LogoutElsewhere`, `Refresh`, `Expire`, `SetStatus` |

Four paths of a portal and three of the platform stand for all. The API does not
look at the host: whoever has its documentation open on a host may sign in to any
account there (`LoginElsewhere`), which is what the session checks of the pages are
for. `calm` is a history variable: the tabs whose sign-in met nothing on its way.

### Console

A click is a request (`job[i]`) made from what the screen shows (`seen`), which is
what the server rendered last. Each form has a `pending` of its own (`waits[s]`).
`Break` loses the connection: the screen gets an error, the API goes on.

| Code | Actions |
|---|---|
| field manager | `ToggleRequired`, `ArchiveOrRestore`, `move`, `AddField` |
| member form, archive button | `SaveMember`, `ArchiveMember` |
| import wizard | `onFile`, `run` |
| answers | `Answered`, `Break`, `Refreshed` (`router.refresh` or a navigation) |
| `update`, `archive` | `Update`, `Archive`, `ArchiveOfMember` |
| `reorder` | `ReorderBegins`, `ReorderRow` (takes the lock of one row), `ReorderCommits`, `ReorderFails` |
| `create` of a field or a member, import | `Look`, `Insert` |

A request names the fields its values cover, instead of the values. A tab is at one
screen (`TabAssumption`): the import wizard has a tab of its own. `past` is a
history variable: who created what, and the last change.

## 3 What the runs check

| Run | Module | Expected | Question |
|---|---|---|---|
| `FaceFaults` | MCFaceData | pass | what holds under any overlap and any fault |
| `FaceSerial` | MCFaceData | pass | what holds when requests do not overlap and only the engine may refuse; refinement and liveness |
| `TenantScope` | TenantScope | pass | isolation with both layers, and with either alone; no lost connection |
| `Sessions` | Sessions | pass | guesses, locks and sign-outs when requests of every kind overlap |
| `MemberFields` | MCMemberFields | pass | one form and one import under any field edits |
| `Portal` | Portal | pass | the session of a browser and its writes, under refreshes, sign-outs, suspensions and lost messages |
| `Tenants` | MCTenants | pass | registrations and changes beside a script that dies and is run again |
| `Routing` | Routing | pass | who is shown what, while cookies and tenants change under the rendering |
| `Console` | Console | pass | screens that overlap, are stale, and send again what was lost |
| `FaceConsentRace` | MCFaceData | violation | section 4 |
| `LoginRace` | Sessions | violation | section 4 |
| `SignOutStrands` | Routing | violation | section 4 |

Bounds, and why they are enough:

- `FaceFaults`: one member, three requests, two captures each (`MAX_IMAGES` is 8),
  all faults. Three requests allow an enrolment, an erasure and one more of
  either that meets what the two left. Members share nothing but the engine, in
  which subjects are apart by the member's id. Requests are symmetric.
- `FaceSerial`: two members and two codes, three requests one after the other:
  enrol, enrol again, erase. No symmetry, because of liveness.
- `TenantScope`: two tenants, two ids, two requests with one transaction each of
  at most two ids, two connections. That is the least in which two batches cross
  and a connection passes from one tenant's request to another's. Requests stop
  after `MaxQueries` transactions, so the run does not check for deadlock;
  `ConnectionsReturn` does, for the state in which it matters.
- `Sessions`: two requests at a time, lock after 3 failures (5 in the code) for 2
  ticks, access tokens live 1 tick and refresh tokens 2, at most 2 sign-outs
  everywhere and 2 answers added to an old count between two locks or successes
  (`MaxStale`, where the history stops: an answer beyond it is not recorded). Two
  attempts are the least that overlap, and with 3 failures the count that one of them
  undoes can be more than one. The proofs hold for every `MaxStale`.
- `MemberFields`: one key, two members and codes (symmetric), one option and one
  other value, one writer, one importer with files of up to two rows: a file with
  a repeated code, one with a new and an existing member, and a field that
  appears, changes, disappears and comes back between any two steps.
- `Portal`: two calls in two tabs or one, access tokens that live 1 tick and refresh
  tokens that live 2, one tick, one sign-out everywhere from each side at most
  (`MaxVersion` is 1). Two calls are the least that share a refresh, or race for the
  cookies from two tabs; each may be any kind. Calls are made once each, so the run
  does not check for deadlock; `CallsEnd` does.
- `Tenants`: two requests, two addresses for each base (50 attempts in the code),
  the slug of a demo organization, which may also be that of a tenant older than
  the seeding of fields, and one reserved slug. Both demo organizations with their
  real templates, two runs of the script. Two requests are enough to race for an
  address; the script races with both; a second run finds what a first left
  anywhere. One field and one member stand for those that organizations change.
  Requests come to an end and the script need not run, so there is no deadlock check.
- `Routing`: one tab on two portals and the apex; what other tabs do is there as
  changes of the cookies. Four events (`MaxEvents`), of users, other clients and the
  clock: enough to open a form, sign in, have the session replaced and follow a link.
  Users need not do anything, so there is no deadlock check.
- `Console`: one tab of each kind, three fields of which two are there at first, one
  member, three requests (`MaxClicks`). Three requests are two that overlap and one
  that is sent again; the tab at the field manager has its table and its form, and a
  broken connection lets it overlap with itself. Users need not click, so there is
  no deadlock check; `ButtonsComeBack` is for those who did.

Fairness. `FaceData` and `Sessions` assume weak fairness of what a request does
once it has started: Node resumes every `await`, the engine's calls are bounded
by `REQUEST_TIMEOUT_MS`, and failures are steps too. `Sessions` also assumes that
time passes. `TenantScope` assumes that Postgres executes the statements of an
open transaction and detects deadlocks; nothing obliges a request to arrive or
to abort. `Portal` assumes that
what has been sent arrives or is lost and that the API answers: nobody is obliged
to make a call, and time, suspensions and sign-outs may stay away.
`Routing` assumes that the server
goes on with a rendering and answers (`StepOf`), and nothing of users, other tabs
or the clock. `Console` assumes that the API serves what reached it, that PostgreSQL
or the time limit ends a reordering that is blocked, and that the answer arrives if
the connection did not break (`Goes`). `MemberFields` and `Tenants` have no liveness
property and no fairness: nobody has to run the script to its end.

The properties, each stated with the line it comes from in its module:

- `FaceFaults`: `NeverConsentedNothingStored`; `FaceGoneBeforeImage` (a row whose
  image is gone has no face in the engine); `RowBacked` (a listed face is in the
  engine, or it is one that an erasure made the engine forget and whose row has not
  been deleted since: an erasure that found no row, or that the engine refused,
  excuses nothing). It says nothing of a face without a row, which a failed image
  leaves behind (section 4).
- `FaceSerial`: `EraseMeansAllThree`, `RecordSpec`, `RequestsEnd`. The first two
  fail when requests overlap, when a code changes or when storage fails half way;
  section 4 has these cases.
- `TenantScope`: `ReadsConfined` (with either layer alone), `WritesConfined` (every
  statement that either layer covers: the policies bind its role, or it names the
  tenant), `SettingIsLocal`, `ConnectionsReturn`.
- `Sessions`: `GuessesBounded` (one fewer wrong answers than the limit, and as many
  again for each that was added to a count out of date), `LockLasts` (only time ends a
  lock, or an attempt that was under way when it was set), `LogoutKillsAll`,
  `RevokedSessionEnds`.
- `Portal`: `AppliedOnce`, `SuspensionHolds` (a change is made only for a request
  that was under way while writing was allowed),
  `SessionLasts`, `CallsEnd`. `SessionLasts` is about calls during which the
  session is sound (`SessionSound`): the refresh token is good, the account not
  locked, no refusal from before is still on its way to the tab, and no new access
  token expires on its way, since requests are short next to 15 minutes. A refresh that is lost is not a refusal: the caller throws the 401
  it had, which the model marks as `lost`.
- `MemberFields`: `StoredValuesTyped`, `ImportAllOrNothing`, `RequiredEnforced`.
- `Tenants`: `NeverHalfRegistered`, `RegistrationKept` (an answered registration
  has the tenant it asked for, whoever found the same address free),
  `SeedConverges` (what a run that reached its end leaves behind, wherever earlier
  ones died), `SeedKeepsChoices`.
- `Routing`: `PageIsForItsOwn`, `SignInLands`, `NavigationEnds`.
- `Console`: `ReorderIsWhole` (the list committed last is in its order, whatever else
  was committed since), `CreatedOnce`, `RetryIsHarmless` (the same change twice in a
  row changes nothing the second time), `ButtonsComeBack`.

Every property has a mutant: a definition of the model changed as a plausible
mistake in the code would change it, which the run must catch. Mutants stand
before the definition they change and say what the mistake is.

## 4 Where code and documentation disagree

Each run below checks one statement of the documentation and TLC finds a trace
in which the code breaks it.

- `FaceConsentRace`: an enrolment that passed the consent gate goes on storing
  faces after a withdrawal that found nothing to erase (`enrolment.service.ts:83`).
- `LoginRace`: of two wrong passwords tried at once, the second clears the lock
  that the first set (`auth.service.ts:203`).
- `SignOutStrands`: the sign-out button navigates whatever came back, but when the
  call was lost, or refused in a suspended organization, the form it leads to finds
  the session still there and goes back to the dashboard (`sign-out-button.tsx:18`).

These are in the models without a run of their own:

- Erasure deletes the subject of one row; a member enrolled under two codes has two,
  and one stays in the engine (`face-data.service.ts:61`; TLC finds
  `EraseMeansAllThree` violated in `FaceSerial` with `CodesChange = TRUE` and one
  member, so that a code is free).
- A face whose image could not be stored stays in the engine without a row
  (`enrolment.service.ts:156`), and an erasure that finds no row returns
  `comprefaceCleared: true` without asking it (`face-data.service.ts:53`; TLC finds
  it violated with `Faults = {"storage"}`).
- "Row Level Security still applies, so a mistake is refused by the database", says
  `prisma.service.ts:75` of `withTenantTx`, and `app-config.service.ts:50` that without
  an application role the server refuses to start. The check looks for superusers and
  BYPASSRLS only (`prisma.service.ts:103`): a role that merely owns the tables, which
  `appDatabaseUrl` falls back to, passes it, and a statement that leaves out the tenant
  then changes another tenant's row (`OnModuleInit` and `WriteRow` with `owns`, the case
  that `WritesConfined` leaves out). The owner in `.env.example` is a superuser, which
  is refused; nothing requires one.
- Editing a member drops the values under archived fields (`members.service.ts:123`),
  and an update of a field without options empties them
  (`field-definitions.service.ts:126`), both in `MemberFields`.
- `Logout` stands behind both guards and is not refreshed for, so that with an
  expired access token, or while the tenant is suspended, "Sign out on this device"
  (`auth.controller.ts:77`) clears no cookie. And an exchanged refresh token stays
  good until it expires, while the client's comment (`api.ts:50-52`) says that it is
  rotated (`Portal`).
- Of two registrations of one name the second gets the error of the index, not the
  next free slug (`tenants.service.ts:244`; `InsertTenant`). A registration whose
  answer was lost and that is tried again makes a second organization, with `-2`.
- Reactivating makes any status `ACTIVE`, a trial's too (`tenants.service.ts:174`).
- The script's upsert goes by the slug: an ordinary organization that has the slug of
  a demo organization gets its name and its administrator (`seed.ts:180`; `UpsertTenant`).

And these were met while reading, outside the models: the suspension reason is said to
be "shown in the audit log" (`shared/src/tenant.ts:46-48`), which no code writes there;
`tenants.controller.ts:115` calls `provisionFaceEngine`, which the service does not
have; `createTenantCollection`, `deleteTenantCollection`, `listSubjects`, `deleteFace`,
`recognize`, `deletePrefix`, `memberPrefix` and `exists` have no callers; the Redis
client of the health check does not reconnect; the button for signing out keeps its
`pending` (`sign-out-button.tsx:12`); a page rendered with an expired access token
redirects to the form although the refresh token is good, because the server does not
refresh.

## 5 What is proved

TLAPS checks these for every value of the constants, under the assumptions named
in the modules (`FaceDataAssumption`, `TenantScopeAssumption`,
`SessionsAssumption`, `MemberFieldsAssumption`, `PortalAssumption`,
`TenantsAssumption`, `RoutingAssumption`, `NobodyAssumption`, `ConsoleAssumption`,
`TabAssumption`). They cover the type invariant of every detailed module, every
safety property the passing runs check, and the refinement. Some theorems assume
more, which is said below. The larger inductive invariants (those of `FaceData`,
`MemberFields`, `Portal`, `Tenants` and `Console`) were checked by TLC on the runs'
instances before they were proved.

**FaceData.** Of the actions, most change the three places in few ways. `StepFacts`
says what any step may do to them, and the invariants are preserved by that rather
than by thirty actions each.

- `TypeCorrect`: `TypeOK`. By itself it is not inductive: that the
  count stays below the bound needs `LoopOK`, count plus captures left.
- `NeverConsented`: `NeverConsentedNothingStored`, for any requests
  and faults. The inductive invariant (`ConsentInv`) also says that every request
  in an enrolment is at work on a member who consented, and that a face, an image
  or a row belongs to such a request. Erasures only remove, so each of their steps
  is one lemma (`KeptPreserves`).
- `RowsAreBacked`: `RowBacked`, for any requests, faults and changes of codes. What is
  stored has to lead back to the request that stored it (`OriginInv`): a face names
  its request, so a row and its face have the same subject, and a capture that is
  under way is nobody else's. `BackedInv` adds the capture between engine and table,
  which an erasure may make the engine forget before its row is written.
- `ImagesGoLast`: `FaceGoneBeforeImage`, assuming that codes stay put
  (`~CodesChange`). `SubjectInv` says that a row has the one subject its member's code
  makes, `ImageInv` that the images an erasure is about to delete are of faces the
  engine has forgotten. With changed codes the property would need the rows under the
  other subject to be excluded, which the code does not do; section 4 has that case.
- `ErasedMeansGone`, `KeepsTheRecord`, `SerialConsentCovers`: `EraseMeansAllThree`, the
  refinement `RecordSpec`, and `ConsentCoversFaces`, assuming `SerialAndSound`, which
  is what run `FaceSerial` sets: one request at a time, no changed code, and no fault
  but an engine that refuses. `SerialInv` says that engine, table and storage agree
  but for the capture at hand (`PlacesInv`), and what an erasure has dealt with at each
  of its steps (`PhaseOK`). In the refinement, adding a face and forgetting a subject
  are steps of `BiometricRecord`, consent is recorded and withdrawn in one step each,
  and everything else stutters. `SerialConsentCovers` is the statement that run
  `FaceConsentRace` refutes when requests overlap: the overlap is what breaks it.

**TenantScope.** `TypeCorrect`, `ReadsAreConfined`, `SettingStaysLocal`,
`WritesAreConfined`, with either layer missing, but not both. The invariant
(`JobInv`, `ScopeInv`, `WorkInv`): a request with a transaction has a tenant, and a
read is one of the scoped client; a server that is up has no superuser's role; a
connection in use by a running request carries that request's tenant; what a
transaction has written in a statement that a layer covers belongs to its tenant.
`FindsItsOwn` then gives each step: for a role that does not own the tables by the
policy (`PolicyBinds`), for the owner by the filter.

**Sessions.**

- `TypeCorrect`, `SignOutReachesAll`: no token or pending pair has a
  version above the account's (`VersionInv`), and the increment is the database's.
- `GuessesAreBounded`, for attempts that overlap in any way: an answer added to the
  present count raises both counts by one, and one added to a count out of date undoes
  at most what a count below the limit can hold (`CountInv`).
- `LockIsKept`: while the account is locked every attempt under way is `racing`
  (`LockInv`), for a new one is turned away. What such an attempt may do to the lock
  is run `LoginRace`.

**MemberFields**, for any keys, members, writers, importers and lengths of files.

- `TypeCorrect`: `TypeOK`, which includes that a file about to be written has no code
  twice; `CodedInv` adds that a write past its validation has a code.
- `ValuesFit`: `StoredValuesTyped`. Fields are never deleted and keep their type
  (`FieldsStay`), so a value that fitted a schema read earlier fits the fields of
  today: `ValuesInv` says that of the rows, of payloads and files that wait, and of the
  schema an import holds (`SchemaHolds`).
- `RequiredIsEnforced`: `RequiredEnforced`. `MustInv` carries what a schema required
  from the moment it was read to the write; the import reads it two steps earlier.
- `ImportsAreWhole`: `ImportAllOrNothing`. `WholeInv`: the rows of an import are as many
  as those of its file, and the members its look-up found exist and differ, so that
  no row of the commit writes over another.

**Portal**, for any calls, tabs, lifetimes and lengths of a run.

- `TypeCorrect`: `TypeOK`, with `Linked`: a call that waits does so for a refresh of its
  own tab, begun by a call that waits for itself.
- `EffectsAreSingle`: `AppliedOnce`. What was applied was answered with success
  (`AppliedInv`), and only a call that the guard turned away is repeated.
- `SuspensionIsKept`: `SuspensionHolds`, from `OpenInv` for writes past the guard.
- `SoundSessionLasts`: `SessionLasts`. `QuietInv`: a call repeated during a sound session
  is not turned away again. The proof found what the bounds of the run had hidden: a
  refresh refused while the account was locked may still be on its way when the lock
  ends, and a call that joins it then is told to sign in although the session is good
  again. It takes a refresh token that lives three ticks, where the run has two.
  `SessionSound` now excludes that case by name, and the hazard is listed.

**Tenants.**

- `TypeCorrect`, `RegisteredWhole`, `RegisteredKept`. The properties are
  not inductive without two facts: the tenant the script works at is there (`AtInv`),
  and who has inserted a tenant that is not committed has its address to itself
  (`HoldsInv`). From them one lemma says what any step may do to the tenants
  (`TenantsStep`): those there are keep owner, template, administrator and rows
  (`Grows`), and one that appears is complete or the script's (`NewComplete`).
- `ScriptConverges`, `ChoicesKept`. `SeedInv` says what is behind the
  script at each of its steps: demo organizations, tenants of the list, the rows of
  the one it is at. By `Grows` nobody else's step undoes any of it, so only the
  script's own steps need an argument (`SeedAtOrg`, `SeedCreate`, `SeedAtList`).

**Routing**, for any tabs, hosts and events.

- `TypeCorrect`, `PagesAreForTheirOwn`: `TypeOK`, `PageIsForItsOwn`.
  What is shown says nothing of the reads it came from, so `PageInv`
  adds what is true while a page is rendered (`RenderOK`): the host fits the path, and
  the account that a read found is the one the cookies of that request still stand for,
  unless they have expired. The data of a member page, read later than its session,
  is therefore that account's. Cookies that others change are not those of the request,
  so of the rest of the world only `Expire` needs an argument.
- `SignInsLand`: `SignInLands`. `CalmInv` says where a tab is whose sign-in met nothing:
  on the landing page of its account, or on its way there with reads that agree with
  the cookies (`Lands`). Each redirect the API chooses has to be one that middleware,
  layout and page let through (`LandingFacts`).

**Console**, for any tabs, fields, members and clicks, stale screens included.

- `TypeCorrect`: `TypeOK`, with `JobOK` and `ScreenOK`: what a request names was there
  when it was clicked, and nothing disappears, archived or not.
- `ReorderingsAreWhole`: `ReorderIsWhole`. A list that was shown names every field once
  (`InOrder`, then an exchange of neighbours), so that its places are those it sets;
  later commits leave them or replace the whole list (`OrderOK`).
- `CreatedByOne`: `CreatedOnce`. Who looked may be out of date when it inserts; that
  `Insert` finds nothing of the same key is what decides (`MadeOK`).
- `RetriesAreHarmless`: `RetryIsHarmless`. `Effect` says of the last change that it is
  visible, which a second one of the same kind leaves as it is.

Proofs of `Console` showed that two arms of a `CASE` in `After` overlapped for a member
form that was refused, where a `CASE` may take either; the arms exclude one another now.

Only model-checked: the liveness properties (`RequestsEnd`, `ConnectionsReturn`,
`RevokedSessionEnds`, `CallsEnd`, `NavigationEnds`, `ButtonsComeBack`), which rest on
fairness and `ENABLED`, beyond the prover.

## 6 What is not modelled

- The audit log: a row is written after the answer and its failure is swallowed, by
  design, so there is nothing to promise. The exception filter and the request log
  keep no state.
- Storage drivers beyond `put` and `delete`: a signed URL is a digest of its inputs.
- The admin session and the collections of the engine client, which nothing calls.
- Number, date and boolean fields and their coercion; the parsing of a CSV file; search
  and export of members, which only read.
- The forms of the platform console and the filters of the member list: one request
  each, from what was typed.
- The effect of platform queries, made as the database's owner; that the script resets
  passwords and locks.
- Health checks, configuration, encryption, logging, layout and deployment.

## 7 Plan

1. (done) `FaceData`, with `BiometricRecord`, faults and first proofs: the data
   that is worst to get wrong.
2. (done) `TenantScope` and its proofs: the promise every other part rests on.
3. (done) `Sessions`, `MemberFields` and `Portal`.
4. (done) `Tenants` with the seed script, and its proofs.
5. (done) `Routing` with its proofs, and `Console`: the web client above its API client.
6. `FieldSchema`: the validation schema as pure functions (coercion, blanks, core
   columns), checked against a reference over bounded inputs.
7. That `Portal` with one device implements `Sessions`; what a refresh that arrives
   after a sign-out leaves behind.
8. (done) Proofs of every safety property that the runs check, and that serial
   `FaceData` implements `BiometricRecord`.
9. What overlap leaves of the promises of `FaceData`: how far `EraseMeansAllThree` holds
   when only requests for different members overlap.
