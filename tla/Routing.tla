------------------------------ MODULE Routing ------------------------------
(***************************************************************************)
(* What a browser is shown: the middleware that turns a host into a tenant *)
(* (apps/web/src/middleware.ts), the pages and layouts that look for a     *)
(* session while they are rendered (lib/session.ts, lib/portal.ts, app/),  *)
(* the redirects they answer with, and the sign-in form and the sign-out   *)
(* button that navigate by themselves.                                     *)
(*                                                                         *)
(* Every host has cookies of its own.  Layout and page are rendered side   *)
(* by side and ask the API one after the other, with the cookies that came *)
(* with the request; meanwhile tokens expire and other tabs sign in or     *)
(* out.  A token that has expired, or was never there, is Nobody's.        *)
(***************************************************************************)
EXTENDS Naturals

CONSTANTS
    Tab,       \* tabs of the browser
    Slug,      \* hosts that tenantSlugFromHost takes for a tenant's
    Platform,  \* the other hosts: the apex and reserved subdomains
    NoTenant,  \* the tenant of a platform account
    Nobody,    \* no session
    Unread,    \* a read that the rendering has not done
    MaxEvents  \* bound on what users, other clients and the clock do

ASSUME RoutingAssumption ==
    /\ Platform # {}
    /\ Slug \cap Platform = {}
    /\ NoTenant \notin Slug \union Platform
    /\ MaxEvents \in Nat

VARIABLES
    status,  \* slug -> its tenant: open, suspended or gone (unknown, cancelled)
    jar,     \* host -> its cookies: whose session, and whether fc_at is good
    tab,     \* tab -> the page it shows and the request it has under way
    calm,    \* history: tabs that signed in, with nothing in their way since
    events   \* how many of MaxEvents have happened

vars == <<status, jar, tab, calm, events>>

-----------------------------------------------------------------------------
Host == Slug \union Platform
Account == [role : {"super_admin"}, tenant : {NoTenant}]
               \union [role : {"org_admin", "operator"}, tenant : Slug]
ASSUME NobodyAssumption == Nobody \notin Account
Someone == Account \union {Nobody}
Tenant(who) == IF who = Nobody THEN NoTenant ELSE who.tenant
IsSuperAdmin(who) == who # Nobody /\ who.role = "super_admin"

\* /members stands for the pages under it and for /settings/fields, /admin for
\* the lists under it.  via: typed as the internal /t/<slug>/...
PlatformPath == {"/", "/login", "/admin"}
PortalPath == {"/", "/login", "/kiosk", "/members"}
Path == PlatformPath \union PortalPath
Target == [via : Slug \union {NoTenant}, path : Path]
Public(path) == [via |-> NoTenant, path |-> path]

Jar == {j \in [who : Someone, access : BOOLEAN] : j.access => j.who # Nobody}
NoSession == [who |-> Nobody, access |-> FALSE]
Cookie(h) == IF jar[h].access THEN jar[h].who ELSE Nobody

\* page: what is shown; to whom, as the server saw it.  The rest is the
\* request; layout, session and data are its calls to the API, by whom.
TabRec == [pc : {"idle", "request", "render", "signingIn", "signingOut"},
           page : {"blank", "home", "login", "console", "portal", "kiosk",
                   "notFound", "error"},
           who : Someone, host : Host, target : Target,
           why : {"visit", "signIn", "signOut"}, cookie : Someone,
           tenant : {"unread", "found"},
           layout : Someone \union {Unread}, session : Someone \union {Unread},
           data : Someone \union {Unread}]
NewTab == [pc |-> "idle", page |-> "blank", who |-> Nobody,
           host |-> CHOOSE h \in Platform : TRUE, target |-> Public("/"),
           why |-> "visit", cookie |-> Nobody, tenant |-> "unread",
           layout |-> Unread, session |-> Unread, data |-> Unread]

\* A request for `target` that is yet to be sent.
Request(rec, target) ==
    [rec EXCEPT !.pc = "request", !.target = target, !.tenant = "unread",
                !.layout = Unread, !.session = Unread, !.data = Unread]
Show(rec, page, who) ==
    [Request(rec, Public("/")) EXCEPT !.pc = "idle", !.page = page, !.who = who,
                                      !.cookie = Nobody, !.layout = rec.layout]

Init ==
    /\ status = [s \in Slug |-> "open"]
    /\ jar = [h \in Host |-> NoSession]
    /\ tab = [t \in Tab |-> NewTab]
    /\ calm = {}
    /\ events = 0

-----------------------------------------------------------------------------
(* The server: middleware, layouts, pages                                  *)

Becomes(t, rec) == tab' = [tab EXCEPT ![t] = rec]

\* The middleware rewrites a tenant's host to /t/<slug>, and lets nobody type
\* that; what it leads to may not exist.
Routed(h, target) ==
    /\ target.via = NoTenant
    /\ target.path \in (IF h \in Slug THEN PortalPath ELSE PlatformPath)

\* The tenant of the route: the rewritten host's, or the one in the path.
Portal(rec) == IF rec.host \in Slug THEN rec.host ELSE rec.target.via
InPortal(rec) == Portal(rec) # NoTenant

middleware(t) ==
    LET rec == tab[t] IN
    /\ rec.pc = "request"
    /\ Becomes(t, IF Routed(rec.host, rec.target)
                  THEN [rec EXCEPT !.pc = "render", !.cookie = Cookie(rec.host)]
                  ELSE Show(rec, "notFound", Nobody))
    /\ UNCHANGED <<status, jar>>

\* One public look-up, which layout and page share.
getTenantBySlug(t) ==
    LET rec == tab[t] IN
    /\ rec.pc = "render" /\ InPortal(rec) /\ rec.tenant = "unread"
    /\ Becomes(t, IF status[Portal(rec)] = "gone" THEN Show(rec, "notFound", Nobody)
                  ELSE [rec EXCEPT !.tenant = "found"])
    /\ UNCHANGED <<status, jar>>

HasLayout(rec) == InPortal(rec) \/ rec.target.path = "/admin"
HasSession(rec) ==
    \/ rec.target.path = "/login"
    \/ InPortal(rec) /\ rec.target.path # "/kiosk"
HasData(rec) == rec.target.path \in {"/members", "/admin"}
TenantKnown(rec) == InPortal(rec) => rec.tenant = "found"

\* Mutant: whoever is signed in belongs here.
OwnAny(rec, who) == who # Nobody

\* "A session belonging to a different organization is treated as no session".
Own(rec, who) == who # Nobody /\ Tenant(who) = Portal(rec)

\* getSession, as the layout and as the page call it: /auth/me.
LayoutSession(t) ==
    LET rec == tab[t] IN
    /\ rec.pc = "render" /\ TenantKnown(rec)
    /\ HasLayout(rec) /\ rec.layout = Unread
    /\ Becomes(t, [rec EXCEPT !.layout = rec.cookie])
    /\ UNCHANGED <<status, jar>>

PageSession(t) ==
    LET rec == tab[t] IN
    /\ rec.pc = "render" /\ TenantKnown(rec)
    /\ HasSession(rec) /\ rec.session = Unread
    /\ Becomes(t, [rec EXCEPT !.session = rec.cookie])
    /\ UNCHANGED <<status, jar>>

\* What the page lists, once it has found its session.  The API answers for
\* the account of the token; RolesGuard keeps /admin/tenants for super admins.
PageData(t) ==
    LET rec == tab[t] IN
    /\ rec.pc = "render" /\ HasData(rec) /\ rec.data = Unread
    /\ HasSession(rec) => rec.session # Unread /\ Own(rec, rec.session)
    /\ Becomes(t, IF \/ rec.cookie = Nobody
                     \/ rec.target.path = "/admin" /\ ~IsSuperAdmin(rec.cookie)
                  THEN Show(rec, "error", Nobody)
                  ELSE [rec EXCEPT !.data = rec.cookie])
    /\ UNCHANGED <<status, jar>>

\* Any of these calls fails in another way.
RenderFails(t) ==
    /\ tab[t].pc = "render"
    /\ Becomes(t, [Show(tab[t], "error", Nobody) EXCEPT !.why = "visit"])
    /\ UNCHANGED <<status, jar>>

LayoutDone(rec) == HasLayout(rec) => rec.layout # Unread
SessionDone(rec) == HasSession(rec) => rec.session # Unread

\* Mutant: a signed-in visitor of a login page is sent to the dashboard.
RedirectsSignedIn(rec) ==
    \/ rec.target.path \in {"/", "/members"} /\ InPortal(rec) /\ ~Own(rec, rec.session)
    \/ rec.target.path = "/admin" /\ ~IsSuperAdmin(rec.layout)
    \/ rec.target.path = "/login" /\ rec.session # Nobody

Redirects(rec) ==
    \/ rec.target.path \in {"/", "/members"} /\ InPortal(rec) /\ ~Own(rec, rec.session)
    \/ rec.target.path = "/admin" /\ ~IsSuperAdmin(rec.layout)
    \/ rec.target.path = "/login" /\ InPortal(rec) /\ Own(rec, rec.session)
    \/ rec.target.path = "/login" /\ ~InPortal(rec) /\ rec.session # Nobody

RedirectPath(rec) ==
    IF rec.target.path = "/login"
    THEN IF ~InPortal(rec) /\ IsSuperAdmin(rec.session) THEN "/admin" ELSE "/"
    ELSE IF rec.target.path = "/admin" /\ rec.layout # Nobody THEN "/" ELSE "/login"

redirect(t) ==
    LET rec == tab[t] IN
    /\ rec.pc = "render" /\ TenantKnown(rec)
    /\ LayoutDone(rec) /\ SessionDone(rec) /\ Redirects(rec)
    /\ Becomes(t, Request(rec, [rec.target EXCEPT !.path = RedirectPath(rec)]))
    /\ UNCHANGED <<status, jar>>

PageOf(rec) ==
    CASE rec.target.path = "/login" -> "login"
      [] rec.target.path = "/admin" -> "console"
      [] rec.target.path = "/kiosk" -> "kiosk"
      [] rec.target.path = "/" /\ ~InPortal(rec) -> "home"
      [] OTHER -> "portal"

Rendered(t) ==
    LET rec == tab[t] IN
    /\ rec.pc = "render" /\ TenantKnown(rec)
    /\ LayoutDone(rec) /\ SessionDone(rec) /\ ~Redirects(rec)
    /\ HasData(rec) => rec.data # Unread
    /\ Becomes(t, Show(rec, PageOf(rec), IF HasData(rec) THEN rec.data
                                         ELSE IF HasSession(rec) THEN rec.session
                                         ELSE Nobody))
    /\ UNCHANGED <<status, jar>>

-----------------------------------------------------------------------------
(* The user                                                                *)

Visit(t, h, target) ==
    /\ tab[t].pc = "idle"
    /\ Becomes(t, [Request(NewTab, target) EXCEPT !.host = h])
    /\ UNCHANGED <<status, jar>>

\* A link within one layout: the router keeps the layout it has.
Follow(t, path) ==
    LET rec == tab[t] IN
    /\ rec.pc = "idle"
    /\ \/ rec.page = "portal" /\ path \in {"/", "/members"}
       \/ rec.page = "console" /\ path = "/admin"
    /\ Becomes(t, [Request(rec, Public(path)) EXCEPT !.layout = rec.layout,
                                                     !.why = "visit"])
    /\ UNCHANGED <<status, jar>>

SubmitLogin(t) ==
    /\ tab[t].pc = "idle" /\ tab[t].page = "login"
    /\ Becomes(t, [tab[t] EXCEPT !.pc = "signingIn"])
    /\ UNCHANGED <<status, jar>>

\* Mutant: the form has no place of its own for operators.
redirectForAdmins(who) == IF IsSuperAdmin(who) THEN "/" ELSE "/admin"

redirectFor(who) ==
    IF IsSuperAdmin(who) THEN "/admin"
    ELSE IF who.role = "operator" THEN "/kiosk" ELSE "/"

\* The accounts a form signs in to are those of its host's tenant.
HostTenant(h) == IF h \in Slug THEN h ELSE NoTenant

LoginAnswered(t) ==
    LET h == tab[t].host IN
    /\ tab[t].pc = "signingIn"
    /\ \/ \E who \in Account :
             /\ who.tenant = HostTenant(h)
             /\ jar' = [jar EXCEPT ![h] = [who |-> who, access |-> TRUE]]
             /\ Becomes(t, [Request(tab[t], Public(redirectFor(who)))
                               EXCEPT !.why = "signIn"])
       \/ /\ Becomes(t, [tab[t] EXCEPT !.pc = "idle"])
          /\ UNCHANGED jar
    /\ UNCHANGED status

\* The portal's header has the button, if the layout found its session.
SignOut(t) ==
    LET rec == tab[t] IN
    /\ rec.pc = "idle" /\ rec.page \in {"portal", "console"}
    /\ Becomes(t, [rec EXCEPT !.pc = "signingOut", !.cookie = Cookie(rec.host)])
    /\ UNCHANGED <<status, jar>>

\* The guards may refuse, the call may be lost; the button navigates anyway.
\* signedOut: the answer cleared the cookies.
SignOutAnswered(t) ==
    LET rec == tab[t]
        allowed == /\ rec.cookie # Nobody
                   /\ Tenant(rec.cookie) \in Slug =>
                          status[Tenant(rec.cookie)] = "open"
    IN
    /\ rec.pc = "signingOut"
    /\ \/ allowed /\ jar' = [jar EXCEPT ![rec.host] = NoSession]
       \/ UNCHANGED jar
    /\ Becomes(t, [Request(rec, Public("/login")) EXCEPT !.why = "signOut"])
    /\ UNCHANGED status

-----------------------------------------------------------------------------
(* Other tabs, other clients of the API on the same host, and the clock    *)

SetJar(h, j) ==
    /\ jar' = [jar EXCEPT ![h] = j]
    /\ UNCHANGED <<status, tab>>

\* The API does not look at the host: its documentation, at /api/docs of every
\* host, can sign in to any account.
LoginElsewhere(h, who) == SetJar(h, [who |-> who, access |-> TRUE])
LogoutElsewhere(h) == jar[h] # NoSession /\ SetJar(h, NoSession)

\* Mutant: a refresh does not ask for a session.
RefreshAnyone(h) == ~jar[h].access /\ SetJar(h, [jar[h] EXCEPT !.access = TRUE])

\* A call of the browser renews fc_at; the requests of the server cannot.
Refresh(h) ==
    /\ jar[h].who # Nobody /\ ~jar[h].access
    /\ SetJar(h, [jar[h] EXCEPT !.access = TRUE])

\* The access token expires, also in requests that were sent with it.
Expire(h) ==
    /\ jar[h].access
    /\ jar' = [jar EXCEPT ![h].access = FALSE]
    /\ tab' = [t \in Tab |-> IF tab[t].host = h THEN [tab[t] EXCEPT !.cookie = Nobody]
                             ELSE tab[t]]
    /\ UNCHANGED status

SetStatus(s, st) ==
    /\ status[s] # st
    /\ status' = [status EXCEPT ![s] = st]
    /\ UNCHANGED <<jar, tab>>

-----------------------------------------------------------------------------
Event ==
    \/ \E t \in Tab :
          \/ \E h \in Host, target \in Target : Visit(t, h, target)
          \/ \E path \in Path : Follow(t, path)
          \/ SubmitLogin(t) \/ SignOut(t)
    \/ \E h \in Host :
          \/ \E who \in Account : LoginElsewhere(h, who)
          \/ LogoutElsewhere(h) \/ Refresh(h) \/ Expire(h)
    \/ \E s \in Slug, st \in {"open", "suspended", "gone"} : SetStatus(s, st)

\* What goes on by itself once a request is under way.
Step(t) ==
    \/ middleware(t) \/ getTenantBySlug(t) \/ LayoutSession(t) \/ PageSession(t)
    \/ PageData(t) \/ RenderFails(t) \/ redirect(t) \/ Rendered(t)
    \/ LoginAnswered(t) \/ SignOutAnswered(t)

\* A sign-in is calm while its cookies and its tenant stay as they were.
Watch ==
    calm' = {t \in Tab :
        /\ tab'[t].why = "signIn"
        /\ \/ tab[t].pc = "signingIn" /\ tab'[t].pc = "request"
           \/ /\ t \in calm
              /\ jar'[tab[t].host] = jar[tab[t].host]
              /\ tab[t].host \in Slug => status'[tab[t].host] # "gone"}

StepOf(t) == Step(t) /\ Watch /\ UNCHANGED events

Next ==
    \/ events < MaxEvents /\ Event /\ Watch /\ events' = events + 1
    \/ \E t \in Tab : StepOf(t)

\* The server answers what reaches it; nobody has to do anything.
Spec == Init /\ [][Next]_vars /\ \A t \in Tab : WF_vars(StepOf(t))

-----------------------------------------------------------------------------
(* Properties                                                              *)

\* The types of the variables.
TypeOK ==
    /\ status \in [Slug -> {"open", "suspended", "gone"}]
    /\ jar \in [Host -> Jar]
    /\ tab \in [Tab -> TabRec]
    /\ calm \subseteq Tab
    /\ events \in 0 .. MaxEvents

\* "The tenant is identified by hostname, never by a path segment the user can
\* type" (middleware.ts:7-9), "a session belonging to a different organization
\* is treated as no session at all" (lib/portal.ts:17-19), and the console
\* "lives on the apex domain only" (admin/layout.tsx:8-9): whatever other tabs
\* put into the cookies while a page is rendered, a portal's page is shown on
\* its own host to an account of its own, and the console to super admins.
PageIsForItsOwn ==
    \A t \in Tab :
        /\ tab[t].page = "portal" =>
              tab[t].host \in Slug /\ Tenant(tab[t].who) = tab[t].host
        /\ tab[t].page = "console" =>
              tab[t].host \in Platform /\ IsSuperAdmin(tab[t].who)

\* The sign-in form goes where the API says (auth.controller.ts:134-138), and
\* layouts, pages and middleware know nothing of that: with nothing in between,
\* whoever has signed in sees the page meant for the role, not another form.
Landing(who) == IF IsSuperAdmin(who) THEN "console"
                ELSE IF who.role = "operator" THEN "kiosk" ELSE "portal"
SignInLands ==
    \A t \in calm : tab[t].pc = "idle" =>
        tab[t].page = Landing(jar[tab[t].host].who)

\* Pages redirect to one another, a sign-in form to the dashboard and the
\* dashboard to the form: every request comes to an end, for every account on
\* every host ("Only skip the form for a session belonging to THIS portal",
\* t/[slug]/login/page.tsx:18-20).
NavigationEnds == \A t \in Tab : tab[t].pc = "request" ~> tab[t].pc = "idle"

\* "Navigate regardless: a failed logout call must not strand the user on a page
\* they believe they have left" (sign-out-button.tsx:16-17): where a sign-out
\* navigates to, there is a form, not a page of the account.
SignOutLeaves ==
    \A t \in Tab : tab[t].why = "signOut" /\ tab[t].pc = "idle" =>
        tab[t].page \notin {"portal", "console"}

=============================================================================
