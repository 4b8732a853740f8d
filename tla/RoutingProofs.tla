--------------------------- MODULE RoutingProofs ---------------------------
(***************************************************************************)
(* Proofs about Routing, for any tabs, hosts and number of events.         *)
(***************************************************************************)
EXTENDS Routing, TLAPS

-----------------------------------------------------------------------------
(* Types.                                                                  *)

LEMMA PublicType == \A path \in Path : Public(path) \in Target
  BY DEF Public, Target

LEMMA PathType ==
    /\ "/" \in Path /\ "/login" \in Path /\ "/kiosk" \in Path
    /\ "/admin" \in Path /\ "/members" \in Path
  BY DEF Path, PlatformPath, PortalPath

LEMMA RequestType ==
    ASSUME NEW rec \in TabRec, NEW target \in Target
    PROVE  Request(rec, target) \in TabRec
  BY DEF Request, TabRec

Page == {"blank", "home", "login", "console", "portal", "kiosk", "notFound",
         "error"}

LEMMA ShowType ==
    ASSUME NEW rec \in TabRec, NEW page \in Page, NEW who \in Someone
    PROVE  Show(rec, page, who) \in TabRec
  <1>1. Request(rec, Public("/")) \in TabRec
    BY RequestType, PublicType, PathType
  <1>2. rec.layout \in Someone \union {Unread}
    BY DEF TabRec
  <1>3. Nobody \in Someone
    BY DEF Someone
  <1>4. QED
    BY <1>1, <1>2, <1>3 DEF Show, TabRec, Page

LEMMA NewTabType == NewTab \in TabRec
  <1>1. (CHOOSE h \in Platform : TRUE) \in Host
    BY RoutingAssumption DEF Host
  <1>2. Public("/") \in Target
    BY PublicType, PathType
  <1>3. Nobody \in Someone
    BY DEF Someone
  <1>4. QED
    BY <1>1, <1>2, <1>3 DEF NewTab, TabRec

LEMMA CookieType ==
    ASSUME jar \in [Host -> Jar], NEW h \in Host
    PROVE  Cookie(h) \in Someone
  <1>1. jar[h].who \in Someone
    BY DEF Jar
  <1>2. QED
    BY <1>1 DEF Cookie, Someone

LEMMA TypeInit == Init => TypeOK
  <1> SUFFICES ASSUME Init PROVE TypeOK
    OBVIOUS
  <1>1. NoSession \in Jar
    BY DEF NoSession, Jar, Someone
  <1>2. QED
    BY <1>1, NewTabType, RoutingAssumption DEF Init, TypeOK

\* A step of one tab that gives it a typed record.
LEMMA BecomesType ==
    ASSUME TypeOK, NEW t \in Tab, NEW rec \in TabRec, Becomes(t, rec)
    PROVE  tab' \in [Tab -> TabRec]
  BY DEF TypeOK, Becomes

LEMMA RedirectType ==
    ASSUME NEW rec \in TabRec
    PROVE  [rec.target EXCEPT !.path = RedirectPath(rec)] \in Target
  <1>1. RedirectPath(rec) \in Path
    BY PathType DEF RedirectPath
  <1>2. QED
    BY <1>1 DEF TabRec, Target

\* The server's steps, and the record they leave.
ServerStep(t) ==
    \/ middleware(t) \/ getTenantBySlug(t) \/ LayoutSession(t) \/ PageSession(t)
    \/ PageData(t) \/ RenderFails(t) \/ redirect(t) \/ Rendered(t)

LEMMA ServerType ==
    ASSUME TypeOK, NEW t \in Tab, ServerStep(t)
    PROVE  tab' \in [Tab -> TabRec] /\ UNCHANGED <<status, jar>>
  <1> DEFINE rec == tab[t]
  <1>0. /\ rec \in TabRec /\ rec.host \in Host /\ rec.cookie \in Someone
        /\ Nobody \in Someone
    BY DEF TypeOK, TabRec, Someone
  <1>1. UNCHANGED <<status, jar>>
    BY DEF ServerStep, middleware, getTenantBySlug, LayoutSession, PageSession,
           PageData, RenderFails, redirect, Rendered
  <1>2. \A page \in {"notFound", "error"} : Show(rec, page, Nobody) \in TabRec
    BY <1>0, ShowType DEF Page
  <1>3. CASE middleware(t)
    <2>1. [rec EXCEPT !.pc = "render", !.cookie = Cookie(rec.host)] \in TabRec
      BY <1>0, CookieType DEF TabRec, TypeOK
    <2>2. QED
      BY <1>1, <1>2, <1>3, <2>1, BecomesType DEF middleware
  <1>4. CASE getTenantBySlug(t)
    <2>1. [rec EXCEPT !.tenant = "found"] \in TabRec
      BY <1>0 DEF TabRec
    <2>2. QED
      BY <1>1, <1>2, <1>4, <2>1, BecomesType DEF getTenantBySlug
  <1>5. CASE LayoutSession(t)
    <2>1. [rec EXCEPT !.layout = rec.cookie] \in TabRec
      BY <1>0 DEF TabRec
    <2>2. QED
      BY <1>1, <1>5, <2>1, BecomesType DEF LayoutSession
  <1>6. CASE PageSession(t)
    <2>1. [rec EXCEPT !.session = rec.cookie] \in TabRec
      BY <1>0 DEF TabRec
    <2>2. QED
      BY <1>1, <1>6, <2>1, BecomesType DEF PageSession
  <1>7. CASE PageData(t)
    <2>1. [rec EXCEPT !.data = rec.cookie] \in TabRec
      BY <1>0 DEF TabRec
    <2>2. QED
      BY <1>1, <1>2, <1>7, <2>1, BecomesType DEF PageData
  <1>8. CASE RenderFails(t)
    <2>1. [Show(rec, "error", Nobody) EXCEPT !.why = "visit"] \in TabRec
      BY <1>2 DEF TabRec
    <2>2. QED
      BY <1>1, <1>8, <2>1, BecomesType DEF RenderFails
  <1>9. CASE redirect(t)
    BY <1>0, <1>1, <1>9, RedirectType, RequestType, BecomesType DEF redirect
  <1>10. CASE Rendered(t)
    <2> DEFINE who == IF HasData(rec) THEN rec.data
                      ELSE IF HasSession(rec) THEN rec.session ELSE Nobody
    <2>1. who \in Someone
      <3>1. HasData(rec) => rec.data # Unread
        BY <1>10 DEF Rendered
      <3>2. HasSession(rec) => rec.session # Unread
        BY <1>10 DEF Rendered, SessionDone
      <3>3. rec.data \in Someone \union {Unread}
            /\ rec.session \in Someone \union {Unread}
        BY <1>0 DEF TabRec
      <3>4. QED
        BY <1>0, <3>1, <3>2, <3>3
    <2>2. PageOf(rec) \in Page
      BY DEF PageOf, Page
    <2>3. Show(rec, PageOf(rec), who) \in TabRec
      BY <1>0, <2>1, <2>2, ShowType
    <2>4. QED
      BY <1>1, <1>10, <2>3, BecomesType DEF Rendered
  <1>11. QED
    BY <1>3, <1>4, <1>5, <1>6, <1>7, <1>8, <1>9, <1>10 DEF ServerStep

LEMMA FormType ==
    ASSUME TypeOK, NEW t \in Tab, LoginAnswered(t) \/ SignOutAnswered(t)
    PROVE  tab' \in [Tab -> TabRec] /\ jar' \in [Host -> Jar] /\ UNCHANGED status
  <1> DEFINE rec == tab[t]
  <1>0. rec \in TabRec /\ jar \in [Host -> Jar] /\ rec.host \in Host
    BY DEF TypeOK, TabRec
  <1>1. CASE LoginAnswered(t)
    <2>1. ASSUME NEW who \in Account,
                 jar' = [jar EXCEPT ![rec.host] = [who |-> who, access |-> TRUE]],
                 Becomes(t, [Request(rec, Public(redirectFor(who)))
                                EXCEPT !.why = "signIn"])
          PROVE  tab' \in [Tab -> TabRec] /\ jar' \in [Host -> Jar]
      <3>1. [who |-> who, access |-> TRUE] \in Jar
        BY NobodyAssumption DEF Jar, Someone
      <3>2. redirectFor(who) \in Path
        BY PathType DEF redirectFor
      <3>3. Request(rec, Public(redirectFor(who))) \in TabRec
        BY <1>0, <3>2, PublicType, RequestType
      <3>4. [Request(rec, Public(redirectFor(who))) EXCEPT !.why = "signIn"]
               \in TabRec
        BY <3>3 DEF TabRec
      <3>5. QED
        BY <1>0, <2>1, <3>1, <3>4, BecomesType
    <2>2. [rec EXCEPT !.pc = "idle"] \in TabRec
      BY <1>0 DEF TabRec
    <2>3. QED
      BY <1>0, <1>1, <2>1, <2>2, BecomesType DEF LoginAnswered
  <1>2. CASE SignOutAnswered(t)
    <2>1. Request(rec, Public("/login")) \in TabRec
      BY <1>0, PublicType, PathType, RequestType
    <2>2. [Request(rec, Public("/login")) EXCEPT !.why = "signOut"] \in TabRec
      BY <2>1 DEF TabRec
    <2>3. NoSession \in Jar
      BY DEF NoSession, Jar, Someone
    <2>4. QED
      BY <1>0, <1>2, <2>2, <2>3, BecomesType DEF SignOutAnswered
  <1>3. QED
    BY <1>1, <1>2 DEF LoginAnswered, SignOutAnswered

LEMMA UserType ==
    ASSUME TypeOK, NEW t \in Tab,
           \/ \E h \in Host, target \in Target : Visit(t, h, target)
           \/ \E path \in Path : Follow(t, path)
           \/ SubmitLogin(t) \/ SignOut(t)
    PROVE  tab' \in [Tab -> TabRec] /\ UNCHANGED <<status, jar>>
  <1> DEFINE rec == tab[t]
  <1>0. rec \in TabRec /\ rec.host \in Host
        /\ rec.layout \in Someone \union {Unread}
    BY DEF TypeOK, TabRec
  <1>1. ASSUME NEW h \in Host, NEW target \in Target, Visit(t, h, target)
        PROVE  tab' \in [Tab -> TabRec]
    <2>1. Request(NewTab, target) \in TabRec
      BY NewTabType, RequestType
    <2>2. [Request(NewTab, target) EXCEPT !.host = h] \in TabRec
      BY <2>1 DEF TabRec
    <2>3. QED
      BY <1>1, <2>2, BecomesType DEF Visit
  <1>2. ASSUME NEW path \in Path, Follow(t, path)
        PROVE  tab' \in [Tab -> TabRec]
    <2>1. Request(rec, Public(path)) \in TabRec
      BY <1>0, PublicType, RequestType
    <2>2. [Request(rec, Public(path)) EXCEPT !.layout = rec.layout,
                                             !.why = "visit"] \in TabRec
      BY <1>0, <2>1 DEF TabRec
    <2>3. QED
      BY <1>2, <2>2, BecomesType DEF Follow
  <1>3. CASE SubmitLogin(t)
    <2>1. [rec EXCEPT !.pc = "signingIn"] \in TabRec
      BY <1>0 DEF TabRec
    <2>2. QED
      BY <1>3, <2>1, BecomesType DEF SubmitLogin
  <1>4. CASE SignOut(t)
    <2>1. Cookie(rec.host) \in Someone
      BY <1>0, CookieType DEF TypeOK
    <2>2. [rec EXCEPT !.pc = "signingOut", !.cookie = Cookie(rec.host)] \in TabRec
      BY <1>0, <2>1 DEF TabRec
    <2>3. QED
      BY <1>4, <2>2, BecomesType DEF SignOut
  <1>5. QED
    BY <1>1, <1>2, <1>3, <1>4 DEF Visit, Follow, SubmitLogin, SignOut

\* Steps of the rest of the world change no tab but for its cookie.
OtherStep ==
    \/ \E h \in Host :
          \/ \E who \in Account : LoginElsewhere(h, who)
          \/ LogoutElsewhere(h) \/ Refresh(h) \/ Expire(h)
    \/ \E s \in Slug, st \in {"open", "suspended", "gone"} : SetStatus(s, st)

LEMMA OtherType ==
    ASSUME TypeOK, OtherStep
    PROVE  /\ tab' \in [Tab -> TabRec] /\ jar' \in [Host -> Jar]
           /\ status' \in [Slug -> {"open", "suspended", "gone"}]
  <1>0. /\ tab \in [Tab -> TabRec] /\ jar \in [Host -> Jar]
        /\ status \in [Slug -> {"open", "suspended", "gone"}]
    BY DEF TypeOK
  <1>1. ASSUME NEW h \in Host, NEW j \in Jar, SetJar(h, j)
        PROVE  /\ tab' \in [Tab -> TabRec] /\ jar' \in [Host -> Jar]
               /\ status' \in [Slug -> {"open", "suspended", "gone"}]
    BY <1>0, <1>1 DEF SetJar
  <1>2. ASSUME NEW h \in Host, NEW who \in Account, LoginElsewhere(h, who)
        PROVE  /\ tab' \in [Tab -> TabRec] /\ jar' \in [Host -> Jar]
               /\ status' \in [Slug -> {"open", "suspended", "gone"}]
    <2>1. [who |-> who, access |-> TRUE] \in Jar
      BY NobodyAssumption DEF Jar, Someone
    <2>2. QED
      BY <1>1, <1>2, <2>1 DEF LoginElsewhere
  <1>3. ASSUME NEW h \in Host, LogoutElsewhere(h)
        PROVE  /\ tab' \in [Tab -> TabRec] /\ jar' \in [Host -> Jar]
               /\ status' \in [Slug -> {"open", "suspended", "gone"}]
    <2>1. NoSession \in Jar
      BY DEF NoSession, Jar, Someone
    <2>2. QED
      BY <1>1, <1>3, <2>1 DEF LogoutElsewhere
  <1>4. ASSUME NEW h \in Host, Refresh(h)
        PROVE  /\ tab' \in [Tab -> TabRec] /\ jar' \in [Host -> Jar]
               /\ status' \in [Slug -> {"open", "suspended", "gone"}]
    <2>1. [jar[h] EXCEPT !.access = TRUE] \in Jar
      BY <1>0, <1>4 DEF Refresh, Jar
    <2>2. QED
      BY <1>1, <1>4, <2>1 DEF Refresh
  <1>5. ASSUME NEW h \in Host, Expire(h)
        PROVE  /\ tab' \in [Tab -> TabRec] /\ jar' \in [Host -> Jar]
               /\ status' \in [Slug -> {"open", "suspended", "gone"}]
    <2>1. [jar[h] EXCEPT !.access = FALSE] \in Jar
      BY <1>0 DEF Jar
    <2>2. jar' \in [Host -> Jar]
      BY <1>0, <1>5, <2>1 DEF Expire
    <2>3. \A t \in Tab : [tab[t] EXCEPT !.cookie = Nobody] \in TabRec
      BY <1>0 DEF TabRec, Someone
    <2>4. tab' \in [Tab -> TabRec]
      BY <1>0, <1>5, <2>3 DEF Expire
    <2>5. QED
      BY <1>0, <1>5, <2>2, <2>4 DEF Expire
  <1>6. ASSUME NEW s \in Slug, NEW st \in {"open", "suspended", "gone"},
               SetStatus(s, st)
        PROVE  /\ tab' \in [Tab -> TabRec] /\ jar' \in [Host -> Jar]
               /\ status' \in [Slug -> {"open", "suspended", "gone"}]
    BY <1>0, <1>6 DEF SetStatus
  <1>7. QED
    BY <1>2, <1>3, <1>4, <1>5, <1>6 DEF OtherStep

\* The four kinds of step.
LEMMA Kinds ==
    ASSUME [Next]_vars
    PROVE  \/ OtherStep
           \/ UNCHANGED <<tab, jar, status>>
           \/ \E t \in Tab :
                 \/ ServerStep(t) \/ LoginAnswered(t) \/ SignOutAnswered(t)
                 \/ \E h \in Host, target \in Target : Visit(t, h, target)
                 \/ \E path \in Path : Follow(t, path)
                 \/ SubmitLogin(t) \/ SignOut(t)
  BY DEF Next, vars, Event, StepOf, Step, ServerStep, OtherStep

LEMMA TypeNext == TypeOK /\ [Next]_vars => TypeOK'
  <1> SUFFICES ASSUME TypeOK, [Next]_vars PROVE TypeOK'
    OBVIOUS
  <1>1. calm' \subseteq Tab /\ events' \in 0 .. MaxEvents
    BY RoutingAssumption DEF Next, vars, StepOf, Watch, TypeOK
  <1>2. /\ tab' \in [Tab -> TabRec] /\ jar' \in [Host -> Jar]
        /\ status' \in [Slug -> {"open", "suspended", "gone"}]
    <2>1. /\ tab \in [Tab -> TabRec] /\ jar \in [Host -> Jar]
          /\ status \in [Slug -> {"open", "suspended", "gone"}]
      BY DEF TypeOK
    <2>2. QED
      BY <2>1, Kinds, ServerType, FormType, UserType, OtherType
  <1>3. QED
    BY <1>1, <1>2 DEF TypeOK

\* Every reachable state is well typed: in particular what is shown, and what
\* a rendering has read, is somebody's or nobody's.
THEOREM TypeCorrect == Spec => []TypeOK
  BY TypeInit, TypeNext, PTL DEF Spec

-----------------------------------------------------------------------------
(* Who is shown what.                                                      *)
(* Layout, page and data are asked for with the cookies of one request:    *)
(* what each has read is nobody or the account that the cookies still      *)
(* stand for, unless they have expired.  The data of a page for which that *)
(* matters is therefore read for the account its session was found to be.  *)

\* What a request has read: nothing before the middleware has let it in.
RenderOK(rec) ==
    /\ rec.pc = "request" => rec.session = Unread /\ rec.data = Unread
    /\ rec.pc = "render" =>
        /\ Routed(rec.host, rec.target)
        /\ rec.session = Unread \/ rec.cookie = Nobody
               \/ rec.session = rec.cookie
        /\ rec.data # Unread =>
              /\ rec.target.path = "/members" => Own(rec, rec.data)
              /\ rec.target.path = "/admin" => IsSuperAdmin(rec.data)

\* What a tab shows, also while it has a request under way.
ShownOK(rec) ==
    /\ rec.page = "portal" => rec.host \in Slug /\ Tenant(rec.who) = rec.host
    /\ rec.page = "console" => rec.host \in Platform /\ IsSuperAdmin(rec.who)

PageInv == \A t \in Tab : RenderOK(tab[t]) /\ ShownOK(tab[t])

LEMMA NewTabOK ==
    /\ NewTab.pc = "idle" /\ NewTab.page = "blank"
    /\ RenderOK(NewTab) /\ ShownOK(NewTab)
  <1>1. NewTab.pc = "idle" /\ NewTab.page = "blank"
    BY DEF NewTab
  <1>2. QED
    BY <1>1 DEF RenderOK, ShownOK

LEMMA PageInit == Init => PageInv
  BY NewTabOK DEF Init, PageInv

\* A new request leaves the page that is shown as it is.
LEMMA RequestKeeps ==
    ASSUME NEW rec \in TabRec, ShownOK(rec), NEW target
    PROVE  /\ Request(rec, target).pc = "request"
           /\ RenderOK(Request(rec, target)) /\ ShownOK(Request(rec, target))
  <1>1. /\ Request(rec, target).pc = "request"
        /\ Request(rec, target).page = rec.page
        /\ Request(rec, target).host = rec.host
        /\ Request(rec, target).who = rec.who
        /\ Request(rec, target).session = Unread
        /\ Request(rec, target).data = Unread
    BY DEF Request, TabRec
  <1>2. QED
    BY <1>1 DEF RenderOK, ShownOK

LEMMA ShowFacts ==
    ASSUME NEW rec \in TabRec, NEW page, NEW who
    PROVE  /\ Show(rec, page, who).pc = "idle"
           /\ Show(rec, page, who).page = page
           /\ Show(rec, page, who).who = who
           /\ Show(rec, page, who).host = rec.host
  BY DEF Show, Request, TabRec

\* One tab changes, and the others stay as they are.
LEMMA BecomesKeeps ==
    ASSUME TypeOK, PageInv, NEW t \in Tab, NEW rec, Becomes(t, rec),
           RenderOK(rec), ShownOK(rec)
    PROVE  PageInv'
  BY DEF TypeOK, PageInv, Becomes, RenderOK, ShownOK

LEMMA OtherHost == Slug \cap Platform = {} /\ NoTenant \notin Slug \union Platform
  BY RoutingAssumption

LEMMA RenderedKeeps ==
    ASSUME TypeOK, PageInv, NEW t \in Tab, Rendered(t)
    PROVE  PageInv'
  <1> DEFINE rec == tab[t]
             who == IF HasData(rec) THEN rec.data
                    ELSE IF HasSession(rec) THEN rec.session ELSE Nobody
             new == Show(rec, PageOf(rec), who)
  <1>1. /\ rec \in TabRec /\ rec.host \in Host /\ rec.pc = "render"
        /\ RenderOK(rec) /\ Becomes(t, new)
    BY DEF TypeOK, TabRec, PageInv, Rendered
  <1>2. /\ LayoutDone(rec) /\ SessionDone(rec) /\ ~Redirects(rec)
        /\ HasData(rec) => rec.data # Unread
    BY DEF Rendered
  <1>3. Routed(rec.host, rec.target)
    BY <1>1 DEF RenderOK
  <1>4. /\ new.pc = "idle" /\ new.page = PageOf(rec) /\ new.who = who
        /\ new.host = rec.host
    BY <1>1, ShowFacts
  <1>5. rec.target.via = NoTenant
    BY <1>3 DEF Routed
  <1>6. CASE rec.target.path = "/admin"
    <2>1. rec.host \notin Slug
      BY <1>3, <1>6 DEF Routed, PortalPath
    <2>2. IsSuperAdmin(rec.data) /\ HasData(rec)
      BY <1>1, <1>2, <1>6 DEF RenderOK, HasData
    <2>3. PageOf(rec) = "console" /\ rec.host \in Platform
      BY <1>1, <1>6, <2>1 DEF PageOf, Host
    <2>4. ShownOK(new)
      BY <1>4, <2>2, <2>3 DEF ShownOK
    <2>5. QED
      BY <1>1, <1>4, <2>4, BecomesKeeps DEF RenderOK
  <1>7. CASE rec.target.path = "/members"
    <2>1. rec.host \in Slug
      BY <1>3, <1>7 DEF Routed, PlatformPath
    <2>2. Own(rec, rec.data) /\ HasData(rec)
      BY <1>1, <1>2, <1>7 DEF RenderOK, HasData
    <2>3. Tenant(rec.data) = rec.host
      BY <2>1, <2>2 DEF Own, Portal
    <2>4. PageOf(rec) = "portal"
      BY <1>7 DEF PageOf
    <2>5. ShownOK(new)
      BY <1>4, <2>1, <2>2, <2>3, <2>4 DEF ShownOK
    <2>6. QED
      BY <1>1, <1>4, <2>5, BecomesKeeps DEF RenderOK
  <1>8. CASE rec.target.path = "/" /\ rec.host \in Slug
    <2>1. InPortal(rec) /\ Portal(rec) = rec.host
      BY <1>8, OtherHost DEF InPortal, Portal
    <2>2. Own(rec, rec.session)
      BY <1>2, <1>8, <2>1 DEF Redirects
    <2>3. who = rec.session
      BY <1>8, <2>1 DEF HasData, HasSession
    <2>4. Tenant(who) = rec.host
      BY <2>1, <2>2, <2>3 DEF Own
    <2>5. PageOf(rec) = "portal"
      BY <1>8, <2>1 DEF PageOf
    <2>6. ShownOK(new)
      BY <1>4, <1>8, <2>4, <2>5 DEF ShownOK
    <2>7. QED
      BY <1>1, <1>4, <2>6, BecomesKeeps DEF RenderOK
  <1>9. CASE /\ rec.target.path \notin {"/admin", "/members"}
             /\ rec.target.path = "/" => rec.host \notin Slug
    <2>1. rec.target.path \in {"/", "/login", "/kiosk"}
      BY <1>3, <1>9 DEF Routed, PlatformPath, PortalPath
    <2>2. rec.host \notin Slug => ~InPortal(rec)
      BY <1>5 DEF InPortal, Portal
    <2>3. PageOf(rec) \in {"home", "login", "kiosk"}
      BY <1>9, <2>1, <2>2 DEF PageOf
    <2>4. ShownOK(new)
      BY <1>4, <2>3 DEF ShownOK
    <2>5. QED
      BY <1>1, <1>4, <2>4, BecomesKeeps DEF RenderOK
  <1>10. QED
    BY <1>6, <1>7, <1>8, <1>9

LEMMA FailKeeps ==
    ASSUME TypeOK, PageInv, NEW t \in Tab, NEW page \in {"notFound", "error"},
           Becomes(t, Show(tab[t], page, Nobody))
    PROVE  PageInv'
  <1>1. tab[t] \in TabRec
    BY DEF TypeOK
  <1>2. /\ Show(tab[t], page, Nobody).pc = "idle"
        /\ Show(tab[t], page, Nobody).page = page
    BY <1>1, ShowFacts
  <1>3. RenderOK(Show(tab[t], page, Nobody)) /\ ShownOK(Show(tab[t], page, Nobody))
    BY <1>2 DEF RenderOK, ShownOK
  <1>4. QED
    BY <1>3, BecomesKeeps

LEMMA ReadingKeeps ==
    ASSUME TypeOK, PageInv, NEW t \in Tab,
           getTenantBySlug(t) \/ LayoutSession(t) \/ PageSession(t) \/ PageData(t)
    PROVE  PageInv'
  <1> DEFINE rec == tab[t]
  <1>1. rec \in TabRec /\ RenderOK(rec) /\ ShownOK(rec)
    BY DEF TypeOK, PageInv
  <1>2. CASE getTenantBySlug(t)
    <2> DEFINE new == [rec EXCEPT !.tenant = "found"]
    <2>1. /\ new.pc = rec.pc /\ new.page = rec.page /\ new.who = rec.who
          /\ new.host = rec.host /\ new.target = rec.target
          /\ new.cookie = rec.cookie /\ new.session = rec.session
          /\ new.data = rec.data
      BY <1>1 DEF TabRec
    <2>2. RenderOK(new) /\ ShownOK(new)
      <3> HIDE DEF new
      <3>1. QED
        BY <1>1, <2>1 DEF RenderOK, ShownOK, Own, Portal
    <2>3. QED
      BY <1>2, <2>2, BecomesKeeps, FailKeeps DEF getTenantBySlug
  <1>3. CASE LayoutSession(t)
    <2> DEFINE new == [rec EXCEPT !.layout = rec.cookie]
    <2>1. /\ new.pc = rec.pc /\ new.page = rec.page /\ new.who = rec.who
          /\ new.host = rec.host /\ new.target = rec.target
          /\ new.cookie = rec.cookie /\ new.session = rec.session
          /\ new.data = rec.data
      BY <1>1 DEF TabRec
    <2>2. RenderOK(new) /\ ShownOK(new)
      <3> HIDE DEF new
      <3>1. QED
        BY <1>1, <2>1 DEF RenderOK, ShownOK, Own, Portal
    <2>3. QED
      BY <1>3, <2>2, BecomesKeeps DEF LayoutSession
  <1>4. CASE PageSession(t)
    <2> DEFINE new == [rec EXCEPT !.session = rec.cookie]
    <2>1. /\ new.pc = rec.pc /\ new.page = rec.page /\ new.who = rec.who
          /\ new.host = rec.host /\ new.target = rec.target
          /\ new.cookie = rec.cookie /\ new.session = rec.cookie
          /\ new.data = rec.data /\ rec.pc = "render"
      BY <1>1, <1>4 DEF TabRec, PageSession
    <2>2. RenderOK(new) /\ ShownOK(new)
      <3> HIDE DEF new
      <3>1. QED
        BY <1>1, <2>1 DEF RenderOK, ShownOK, Own, Portal
    <2>3. QED
      BY <1>4, <2>2, BecomesKeeps DEF PageSession
  <1>5. CASE PageData(t)
    <2> DEFINE new == [rec EXCEPT !.data = rec.cookie]
    <2>1. CASE /\ rec.cookie # Nobody
               /\ rec.target.path = "/admin" => IsSuperAdmin(rec.cookie)
      <3>1. /\ new.pc = rec.pc /\ new.page = rec.page /\ new.who = rec.who
            /\ new.host = rec.host /\ new.target = rec.target
            /\ new.cookie = rec.cookie /\ new.session = rec.session
            /\ new.data = rec.cookie
        BY <1>1 DEF TabRec
      <3>2. rec.pc = "render" /\ Routed(rec.host, rec.target)
        BY <1>1, <1>5 DEF PageData, RenderOK
      <3>3. rec.target.path = "/members" => Own(rec, rec.cookie)
        <4>1. SUFFICES ASSUME rec.target.path = "/members"
                       PROVE  Own(rec, rec.cookie)
          OBVIOUS
        <4>2. rec.host \in Slug
          BY <3>2, <4>1 DEF Routed, PlatformPath
        <4>3. HasSession(rec)
          BY <4>1, <4>2, OtherHost DEF HasSession, InPortal, Portal
        <4>4. rec.session # Unread /\ Own(rec, rec.session)
          BY <1>5, <4>3 DEF PageData
        <4>5. rec.session = rec.cookie
          BY <1>1, <2>1, <3>2, <4>4 DEF RenderOK
        <4>6. QED
          BY <4>4, <4>5
      <3>4. RenderOK(new) /\ ShownOK(new)
        <4> HIDE DEF new
        <4>1. Own(new, new.data) <=> Own(rec, rec.cookie)
          BY <3>1 DEF Own, Portal
        <4>2. QED
          BY <1>1, <2>1, <3>1, <3>2, <3>3, <4>1 DEF RenderOK, ShownOK
      <3>5. QED
        BY <1>5, <2>1, <3>4, BecomesKeeps DEF PageData
    <2>2. CASE \/ rec.cookie = Nobody
               \/ rec.target.path = "/admin" /\ ~IsSuperAdmin(rec.cookie)
      BY <1>5, <2>2, FailKeeps DEF PageData
    <2>3. QED
      BY <2>1, <2>2
  <1>6. QED
    BY <1>2, <1>3, <1>4, <1>5

LEMMA ServerKeeps ==
    ASSUME TypeOK, PageInv, NEW t \in Tab, ServerStep(t)
    PROVE  PageInv'
  <1> DEFINE rec == tab[t]
  <1>1. rec \in TabRec /\ RenderOK(rec) /\ ShownOK(rec)
    BY DEF TypeOK, PageInv
  <1>2. CASE middleware(t)
    <2> DEFINE new == [rec EXCEPT !.pc = "render", !.cookie = Cookie(rec.host)]
    <2>1. /\ new.pc = "render" /\ new.page = rec.page /\ new.who = rec.who
          /\ new.host = rec.host /\ new.target = rec.target
          /\ new.session = rec.session /\ new.data = rec.data
      BY <1>1 DEF TabRec
    <2>2. rec.session = Unread /\ rec.data = Unread
      BY <1>1, <1>2 DEF middleware, RenderOK
    <2>3. Routed(rec.host, rec.target) => RenderOK(new) /\ ShownOK(new)
      <3> HIDE DEF new
      <3>1. QED
        BY <1>1, <2>1, <2>2 DEF RenderOK, ShownOK
    <2>4. QED
      BY <1>2, <2>3, BecomesKeeps, FailKeeps DEF middleware
  <1>3. CASE RenderFails(t)
    <2> DEFINE old == Show(rec, "error", Nobody)
               new == [old EXCEPT !.why = "visit"]
    <2>1. old \in TabRec /\ old.pc = "idle" /\ old.page = "error"
      BY <1>1, ShowFacts, ShowType DEF Page, Someone
    <2>2. new.pc = "idle" /\ new.page = "error"
      <3> HIDE DEF old
      <3>1. QED
        BY <2>1 DEF TabRec
    <2>3. RenderOK(new) /\ ShownOK(new)
      <3> HIDE DEF new
      <3>1. QED
        BY <2>2 DEF RenderOK, ShownOK
    <2>4. QED
      BY <1>3, <2>3, BecomesKeeps DEF RenderFails
  <1>4. CASE redirect(t)
    BY <1>1, <1>4, RequestKeeps, BecomesKeeps DEF redirect
  <1>5. QED
    BY <1>2, <1>3, <1>4, ReadingKeeps, RenderedKeeps DEF ServerStep

\* Whatever else is written into a request, it has read nothing yet and the
\* page on display is still the old one.
LEMMA NewRequestKeeps ==
    ASSUME TypeOK, PageInv, NEW t \in Tab, NEW target, NEW why, NEW layout,
           \/ Becomes(t, [Request(tab[t], target) EXCEPT !.why = why])
           \/ Becomes(t, [Request(tab[t], target) EXCEPT !.layout = layout,
                                                         !.why = why])
    PROVE  PageInv'
  <1> DEFINE req == Request(tab[t], target)
             one == [req EXCEPT !.why = why]
             two == [req EXCEPT !.layout = layout, !.why = why]
  <1>1. /\ req.pc = "request" /\ req.session = Unread /\ req.data = Unread
        /\ req.page = tab[t].page /\ req.host = tab[t].host
        /\ req.who = tab[t].who
    BY DEF Request, TypeOK, TabRec
  <1>2. /\ one.pc = req.pc /\ one.session = req.session
        /\ one.data = req.data /\ one.page = req.page
        /\ one.host = req.host /\ one.who = req.who
    BY DEF Request, TypeOK, TabRec
  <1>3. /\ two.pc = req.pc /\ two.session = req.session
        /\ two.data = req.data /\ two.page = req.page
        /\ two.host = req.host /\ two.who = req.who
    BY DEF Request, TypeOK, TabRec
  <1>4. ShownOK(tab[t])
    BY DEF PageInv
  <1>5. RenderOK(one) /\ ShownOK(one) /\ RenderOK(two) /\ ShownOK(two)
    <2> HIDE DEF req, one, two
    <2>1. QED
      BY <1>1, <1>2, <1>3, <1>4 DEF RenderOK, ShownOK
  <1>6. QED
    BY <1>5, BecomesKeeps

LEMMA UserKeeps ==
    ASSUME TypeOK, PageInv, NEW t \in Tab,
           \/ LoginAnswered(t) \/ SignOutAnswered(t)
           \/ \E h \in Host, target \in Target : Visit(t, h, target)
           \/ \E path \in Path : Follow(t, path)
           \/ SubmitLogin(t) \/ SignOut(t)
    PROVE  PageInv'
  <1> DEFINE rec == tab[t]
  <1>1. rec \in TabRec /\ ShownOK(rec)
    BY DEF TypeOK, PageInv
  <1>2. \A pc \in {"idle", "signingIn", "signingOut"} : \A cookie :
           LET new == [rec EXCEPT !.pc = pc, !.cookie = cookie]
               old == [rec EXCEPT !.pc = pc]
           IN  /\ new.pc = pc /\ new.page = rec.page /\ new.host = rec.host
               /\ new.who = rec.who
               /\ old.pc = pc /\ old.page = rec.page /\ old.host = rec.host
               /\ old.who = rec.who
    BY <1>1 DEF TabRec
  <1>3. \A pc \in {"idle", "signingIn", "signingOut"} : \A cookie :
           LET new == [rec EXCEPT !.pc = pc, !.cookie = cookie]
               old == [rec EXCEPT !.pc = pc]
           IN  RenderOK(new) /\ ShownOK(new) /\ RenderOK(old) /\ ShownOK(old)
    BY <1>1, <1>2 DEF RenderOK, ShownOK
  <1>4. CASE LoginAnswered(t)
    BY <1>3, <1>4, NewRequestKeeps, BecomesKeeps DEF LoginAnswered
  <1>5. CASE SignOutAnswered(t)
    BY <1>5, NewRequestKeeps DEF SignOutAnswered
  <1>6. ASSUME NEW h \in Host, NEW target \in Target, Visit(t, h, target)
        PROVE  PageInv'
    <2> DEFINE req == Request(NewTab, target)
               new == [req EXCEPT !.host = h]
    <2>1. /\ req.pc = "request" /\ req.page = "blank"
          /\ req.session = Unread /\ req.data = Unread
      BY NewTabOK, NewTabType DEF Request, TabRec
    <2>2. /\ new.pc = req.pc /\ new.page = req.page
          /\ new.session = req.session /\ new.data = req.data
      BY NewTabType DEF Request, TabRec
    <2>3. RenderOK(new) /\ ShownOK(new)
      <3> HIDE DEF req, new
      <3>1. QED
        BY <2>1, <2>2 DEF RenderOK, ShownOK
    <2>4. QED
      BY <1>6, <2>3, BecomesKeeps DEF Visit
  <1>7. CASE \E path \in Path : Follow(t, path)
    BY <1>7, NewRequestKeeps DEF Follow
  <1>8. CASE SubmitLogin(t)
    BY <1>3, <1>8, BecomesKeeps DEF SubmitLogin
  <1>9. CASE SignOut(t)
    BY <1>3, <1>9, BecomesKeeps DEF SignOut
  <1>10. QED
    BY <1>4, <1>5, <1>6, <1>7, <1>8, <1>9

\* Tokens expire also in requests under way: what these have read stays.
LEMMA ExpireKeeps ==
    ASSUME TypeOK, PageInv, NEW h \in Host, Expire(h)
    PROVE  PageInv'
  <1> SUFFICES ASSUME NEW t \in Tab PROVE RenderOK(tab'[t]) /\ ShownOK(tab'[t])
    BY DEF PageInv, RenderOK, ShownOK
  <1> DEFINE rec == tab[t]
             new == [rec EXCEPT !.cookie = Nobody]
  <1>1. rec \in TabRec /\ RenderOK(rec) /\ ShownOK(rec)
    BY DEF TypeOK, PageInv
  <1>2. /\ new.pc = rec.pc /\ new.page = rec.page /\ new.who = rec.who
        /\ new.host = rec.host /\ new.target = rec.target
        /\ new.cookie = Nobody /\ new.session = rec.session
        /\ new.data = rec.data
    BY <1>1 DEF TabRec
  <1>3. RenderOK(new) /\ ShownOK(new)
    <2> HIDE DEF new
    <2>1. QED
      BY <1>1, <1>2 DEF RenderOK, ShownOK, Own, Portal
  <1>4. tab'[t] = new \/ tab'[t] = rec
    BY DEF Expire
  <1>5. QED
    BY <1>1, <1>3, <1>4

LEMMA StillKeeps ==
    ASSUME PageInv, UNCHANGED tab
    PROVE  PageInv'
  BY DEF PageInv, RenderOK, ShownOK

LEMMA PageNext == TypeOK /\ PageInv /\ [Next]_vars => PageInv'
  <1> SUFFICES ASSUME TypeOK, PageInv, [Next]_vars PROVE PageInv'
    OBVIOUS
  <1>1. CASE OtherStep
    <2>1. (\E h \in Host : Expire(h)) \/ UNCHANGED tab
      BY <1>1 DEF OtherStep, LoginElsewhere, LogoutElsewhere, Refresh, SetJar,
                  SetStatus
    <2>2. QED
      BY <2>1, ExpireKeeps, StillKeeps
  <1>2. CASE UNCHANGED <<tab, jar, status>>
    BY <1>2, StillKeeps
  <1>3. QED
    BY <1>1, <1>2, Kinds, ServerKeeps, UserKeeps

\* PageIsForItsOwn, whatever cookies come and go while a page is rendered: a
\* portal's page is shown on its own host to an account of its own, and the
\* console on the apex to super admins.
THEOREM PagesAreForTheirOwn == Spec => []PageIsForItsOwn
  <1>1. Init => TypeOK /\ PageInv
    BY TypeInit, PageInit
  <1>2. TypeOK /\ PageInv /\ [Next]_vars => (TypeOK /\ PageInv)'
    BY TypeNext, PageNext
  <1>3. PageInv => PageIsForItsOwn
    BY DEF PageInv, ShownOK, PageIsForItsOwn
  <1>4. QED
    BY <1>1, <1>2, <1>3, PTL DEF Spec

-----------------------------------------------------------------------------
(* Where a sign-in ends.                                                   *)
(* While nothing is in its way, what a sign-in asks for is the page of its *)
(* role, every read of the rendering finds the account that signed in, and *)
(* none of the redirects applies.                                          *)

Reads(who) == {Unread, who}

Lands(rec, who) ==
    /\ who \in Account /\ who.tenant = HostTenant(rec.host)
    /\ rec.pc \in {"request", "render"} =>
          /\ rec.target = Public(redirectFor(who))
          /\ rec.layout \in Reads(who) /\ rec.session \in Reads(who)
          /\ rec.data \in Reads(who)
    /\ rec.pc = "render" => rec.cookie = who
    /\ rec.pc = "idle" => rec.page = Landing(who)
    /\ rec.pc # "signingIn"

CalmInv ==
    \A t \in calm : /\ t \in Tab /\ jar[tab[t].host].access
                    /\ Lands(tab[t], jar[tab[t].host].who)

\* Where the accounts of a host are sent, and by which look-ups.
LEMMA LandingFacts ==
    ASSUME NEW rec \in TabRec, NEW who \in Account, who.tenant = HostTenant(rec.host),
           rec.target = Public(redirectFor(who))
    PROVE  /\ Routed(rec.host, rec.target) /\ who # Nobody
           /\ InPortal(rec) => Portal(rec) = rec.host /\ rec.host \in Slug
           /\ rec.target.path = "/admin" => IsSuperAdmin(who)
           /\ rec.target.path \notin {"/login", "/members"}
           /\ rec.target.path = "/" => InPortal(rec) /\ Own(rec, who)
           /\ PageOf(rec) = Landing(who)
  <1>1. rec.target.via = NoTenant /\ rec.target.path = redirectFor(who)
    BY DEF Public
  <1>2. who # Nobody
    BY NobodyAssumption
  <1>3. rec.host \in Host /\ (rec.host \notin Slug => rec.host \in Platform)
    BY DEF TabRec, Host
  <1>4. Portal(rec) = IF rec.host \in Slug THEN rec.host ELSE NoTenant
    BY <1>1 DEF Portal
  <1>5. Tenant(who) = who.tenant
    BY <1>2 DEF Tenant
  <1>6. NoTenant \notin Slug
    BY RoutingAssumption
  <1>7. CASE who.role = "super_admin"
    <2>1. who.tenant = NoTenant
      BY <1>7 DEF Account
    <2>2. rec.host \in Platform /\ rec.host \notin Slug
      BY <1>3, <1>6, <2>1 DEF HostTenant
    <2>3. IsSuperAdmin(who) /\ rec.target.path = "/admin"
      BY <1>1, <1>2, <1>7 DEF IsSuperAdmin, redirectFor
    <2>4. QED
      BY <1>1, <1>2, <1>4, <2>2, <2>3
         DEF Routed, PlatformPath, InPortal, PageOf, Landing
  <1>8. CASE who.role # "super_admin"
    <2>1. who.tenant \in Slug /\ ~IsSuperAdmin(who)
      BY <1>8 DEF Account, IsSuperAdmin
    <2>2. rec.host \in Slug /\ who.tenant = rec.host
      BY <1>6, <2>1 DEF HostTenant
    <2>3. InPortal(rec) /\ Portal(rec) = rec.host
      BY <1>4, <1>6, <2>2 DEF InPortal
    <2>4. rec.target.path \in {"/", "/kiosk"}
          /\ (rec.target.path = "/kiosk" <=> who.role = "operator")
      BY <1>1, <2>1 DEF redirectFor
    <2>5. Own(rec, who)
      BY <1>2, <1>5, <2>2, <2>3 DEF Own
    <2>6. QED
      BY <1>1, <1>2, <2>1, <2>2, <2>3, <2>4, <2>5
         DEF Routed, PortalPath, PageOf, Landing
  <1>9. QED
    BY <1>7, <1>8

LEMMA RequestFacts ==
    ASSUME NEW rec \in TabRec, NEW target, NEW why
    PROVE  LET new == [Request(rec, target) EXCEPT !.why = why] IN
           /\ new.pc = "request" /\ new.target = target /\ new.host = rec.host
           /\ new.layout = Unread /\ new.session = Unread /\ new.data = Unread
           /\ new.why = why
  BY DEF Request, TabRec

\* Steps of the server.
LEMMA ServerLands ==
    ASSUME TypeOK, NEW t \in Tab, NEW who, Lands(tab[t], who),
           jar[tab[t].host] = [who |-> who, access |-> TRUE],
           tab[t].host \in Slug => status[tab[t].host] # "gone",
           ServerStep(t), tab'[t].why = "signIn"
    PROVE  Lands(tab'[t], who) /\ tab'[t].host = tab[t].host
  <1> DEFINE rec == tab[t]
  <1>1. rec \in TabRec
    BY DEF TypeOK
  <1>2. who \in Account /\ who.tenant = HostTenant(rec.host)
    BY DEF Lands
  <1>3. rec.pc \in {"request", "render"}
    BY DEF ServerStep, middleware, getTenantBySlug, LayoutSession, PageSession,
           PageData, RenderFails, redirect, Rendered
  <1>4. /\ rec.target = Public(redirectFor(who)) /\ rec.layout \in Reads(who)
        /\ rec.session \in Reads(who) /\ rec.data \in Reads(who)
        /\ rec.pc = "render" => rec.cookie = who
    BY <1>3 DEF Lands
  <1>5. ASSUME NEW new, Becomes(t, new), Lands(new, who), new.host = rec.host
        PROVE  Lands(tab'[t], who) /\ tab'[t].host = rec.host
    BY <1>5 DEF Becomes, TypeOK
  <1>6. ASSUME NEW new, new.pc = "render", new.cookie = who,
               new.target = rec.target, new.host = rec.host,
               new.layout \in Reads(who), new.session \in Reads(who),
               new.data \in Reads(who)
        PROVE  Lands(new, who) /\ new.host = rec.host
    BY <1>2, <1>4, <1>6 DEF Lands
  <1>7. CASE middleware(t)
    <2> DEFINE new == [rec EXCEPT !.pc = "render", !.cookie = Cookie(rec.host)]
    <2>1. Cookie(rec.host) = who
      BY DEF Cookie
    <2>2. Becomes(t, new)
      BY <1>1, <1>2, <1>4, <1>7, LandingFacts DEF middleware
    <2>3. /\ new.pc = "render" /\ new.cookie = who /\ new.target = rec.target
          /\ new.host = rec.host /\ new.layout = rec.layout
          /\ new.session = rec.session /\ new.data = rec.data
      BY <1>1, <2>1 DEF TabRec
    <2> HIDE DEF new
    <2>4. QED
      BY <1>4, <1>5, <1>6, <2>2, <2>3
  <1>8. CASE getTenantBySlug(t)
    <2> DEFINE new == [rec EXCEPT !.tenant = "found"]
    <2>1. rec.pc = "render" /\ status[Portal(rec)] # "gone"
      BY <1>1, <1>2, <1>4, <1>8, LandingFacts DEF getTenantBySlug
    <2>2. Becomes(t, new)
      BY <1>8, <2>1 DEF getTenantBySlug
    <2>3. /\ new.pc = "render" /\ new.cookie = who /\ new.target = rec.target
          /\ new.host = rec.host /\ new.layout = rec.layout
          /\ new.session = rec.session /\ new.data = rec.data
      BY <1>1, <1>4, <2>1 DEF TabRec
    <2> HIDE DEF new
    <2>4. QED
      BY <1>4, <1>5, <1>6, <2>2, <2>3
  <1>9. CASE LayoutSession(t)
    <2> DEFINE new == [rec EXCEPT !.layout = rec.cookie]
    <2>1. rec.pc = "render" /\ Becomes(t, new)
      BY <1>9 DEF LayoutSession
    <2>2. /\ new.pc = "render" /\ new.cookie = who /\ new.target = rec.target
          /\ new.host = rec.host /\ new.layout = who
          /\ new.session = rec.session /\ new.data = rec.data
      BY <1>1, <1>4, <2>1 DEF TabRec
    <2> HIDE DEF new
    <2>3. QED
      BY <1>4, <1>5, <1>6, <2>1, <2>2 DEF Reads
  <1>10. CASE PageSession(t)
    <2> DEFINE new == [rec EXCEPT !.session = rec.cookie]
    <2>1. rec.pc = "render" /\ Becomes(t, new)
      BY <1>10 DEF PageSession
    <2>2. /\ new.pc = "render" /\ new.cookie = who /\ new.target = rec.target
          /\ new.host = rec.host /\ new.layout = rec.layout
          /\ new.session = who /\ new.data = rec.data
      BY <1>1, <1>4, <2>1 DEF TabRec
    <2> HIDE DEF new
    <2>3. QED
      BY <1>4, <1>5, <1>6, <2>1, <2>2 DEF Reads
  <1>11. CASE PageData(t)
    <2> DEFINE new == [rec EXCEPT !.data = rec.cookie]
    <2>1. rec.pc = "render" /\ Becomes(t, new)
      BY <1>1, <1>2, <1>4, <1>11, LandingFacts DEF PageData
    <2>2. /\ new.pc = "render" /\ new.cookie = who /\ new.target = rec.target
          /\ new.host = rec.host /\ new.layout = rec.layout
          /\ new.session = rec.session /\ new.data = who
      BY <1>1, <1>4, <2>1 DEF TabRec
    <2> HIDE DEF new
    <2>3. QED
      BY <1>4, <1>5, <1>6, <2>1, <2>2 DEF Reads
  <1>12. CASE RenderFails(t)
    <2>1. Show(rec, "error", Nobody) \in TabRec
      BY <1>1, ShowType DEF Page, Someone
    <2>2. tab'[t].why = "visit"
      BY <1>12, <2>1 DEF RenderFails, Becomes, TypeOK, TabRec
    <2>3. QED
      BY <2>2
  <1>13. CASE redirect(t)
    <2>1. /\ HasLayout(rec) => rec.layout = who
          /\ HasSession(rec) => rec.session = who
      BY <1>4, <1>13 DEF redirect, LayoutDone, SessionDone, Reads
    <2>2. ~Redirects(rec)
      BY <1>1, <1>2, <1>4, <2>1, LandingFacts DEF Redirects, HasLayout, HasSession
    <2>3. QED
      BY <1>13, <2>2 DEF redirect
  <1>14. CASE Rendered(t)
    <2> DEFINE reader == IF HasData(rec) THEN rec.data
                         ELSE IF HasSession(rec) THEN rec.session ELSE Nobody
               new == Show(rec, PageOf(rec), reader)
    <2>1. Becomes(t, new)
      BY <1>14 DEF Rendered
    <2>2. new.pc = "idle" /\ new.page = Landing(who) /\ new.host = rec.host
      BY <1>1, <1>2, <1>4, LandingFacts, ShowFacts
    <2> HIDE DEF new
    <2>3. Lands(new, who)
      BY <1>2, <2>2 DEF Lands
    <2>4. QED
      BY <1>5, <2>1, <2>2, <2>3
  <1>15. QED
    BY <1>7, <1>8, <1>9, <1>10, <1>11, <1>12, <1>13, <1>14 DEF ServerStep

\* Steps of its user.
LEMMA UserLands ==
    ASSUME TypeOK, NEW t \in Tab, NEW who, Lands(tab[t], who),
           \/ LoginAnswered(t) \/ SignOutAnswered(t)
           \/ \E h \in Host, target \in Target : Visit(t, h, target)
           \/ \E path \in Path : Follow(t, path)
           \/ SubmitLogin(t) \/ SignOut(t),
           tab'[t].why = "signIn"
    PROVE  Lands(tab'[t], who) /\ tab'[t].host = tab[t].host
  <1> DEFINE rec == tab[t]
  <1>1. rec \in TabRec
    BY DEF TypeOK
  <1>2. CASE LoginAnswered(t)
    BY <1>2 DEF LoginAnswered, Lands
  <1>3. CASE SignOutAnswered(t)
    <2>1. tab'[t].why = "signOut"
      BY <1>1, <1>3, RequestFacts DEF SignOutAnswered, Becomes, TypeOK
    <2>2. QED
      BY <2>1
  <1>4. ASSUME NEW h \in Host, NEW target \in Target, Visit(t, h, target)
        PROVE  FALSE
    <2>1. Request(NewTab, target) \in TabRec /\ Request(NewTab, target).why = "visit"
      BY NewTabType, RequestType DEF Request, NewTab
    <2>2. [Request(NewTab, target) EXCEPT !.host = h].why = "visit"
      BY <2>1 DEF TabRec
    <2>3. QED
      BY <1>4, <2>2 DEF Visit, Becomes, TypeOK
  <1>5. ASSUME NEW path \in Path, Follow(t, path)
        PROVE  FALSE
    <2>1. Request(rec, Public(path)) \in TabRec
      BY <1>1, PublicType, RequestType
    <2>2. [Request(rec, Public(path)) EXCEPT !.layout = rec.layout,
                                             !.why = "visit"].why = "visit"
      BY <2>1 DEF TabRec
    <2>3. QED
      BY <1>5, <2>2 DEF Follow, Becomes, TypeOK
  <1>6. CASE SubmitLogin(t)
    BY <1>6 DEF SubmitLogin, Lands, Landing
  <1>7. CASE SignOut(t)
    <2> DEFINE new == [rec EXCEPT !.pc = "signingOut", !.cookie = Cookie(rec.host)]
    <2>1. new.pc = "signingOut" /\ new.host = rec.host /\ tab'[t] = new
      BY <1>1, <1>7 DEF SignOut, Becomes, TypeOK, TabRec
    <2> HIDE DEF new
    <2>2. QED
      BY <2>1 DEF Lands
  <1>8. QED
    BY <1>2, <1>3, <1>4, <1>5, <1>6, <1>7

\* A sign-in that is let in.
LEMMA SignInStarts ==
    ASSUME TypeOK, NEW t \in Tab, tab[t].pc = "signingIn", LoginAnswered(t),
           tab'[t].pc = "request"
    PROVE  /\ jar'[tab'[t].host].access
           /\ Lands(tab'[t], jar'[tab'[t].host].who)
  <1> DEFINE rec == tab[t]
  <1>1. rec \in TabRec /\ rec.host \in Host /\ jar \in [Host -> Jar]
    BY DEF TypeOK, TabRec
  <1>2. CASE Becomes(t, [rec EXCEPT !.pc = "idle"])
    <2>1. tab'[t].pc = "idle"
      BY <1>1, <1>2 DEF Becomes, TypeOK, TabRec
    <2>2. QED
      BY <2>1
  <1>3. ASSUME NEW who \in Account, who.tenant = HostTenant(rec.host),
               jar' = [jar EXCEPT ![rec.host] = [who |-> who, access |-> TRUE]],
               Becomes(t, [Request(rec, Public(redirectFor(who)))
                              EXCEPT !.why = "signIn"])
        PROVE  /\ jar'[tab'[t].host].access
               /\ Lands(tab'[t], jar'[tab'[t].host].who)
    <2> DEFINE new == [Request(rec, Public(redirectFor(who))) EXCEPT !.why = "signIn"]
    <2>1. /\ new.pc = "request" /\ new.target = Public(redirectFor(who))
          /\ new.host = rec.host /\ new.layout = Unread /\ new.session = Unread
          /\ new.data = Unread
      BY <1>1, RequestFacts
    <2>2. tab'[t] = new
      BY <1>3 DEF Becomes, TypeOK
    <2> HIDE DEF new
    <2>3. jar'[rec.host].who = who /\ jar'[rec.host].access
      BY <1>1, <1>3
    <2>4. Lands(new, who)
      BY <1>3, <2>1 DEF Lands, Reads
    <2>5. QED
      BY <2>1, <2>2, <2>3, <2>4
  <1>4. QED
    BY <1>2, <1>3 DEF LoginAnswered

\* Steps that leave a tab to itself.
LEMMA Elsewhere ==
    ASSUME TypeOK, NEW s \in Tab, NEW t \in Tab, s # t,
           \/ ServerStep(s) \/ LoginAnswered(s) \/ SignOutAnswered(s)
           \/ \E h \in Host, target \in Target : Visit(s, h, target)
           \/ \E path \in Path : Follow(s, path)
           \/ SubmitLogin(s) \/ SignOut(s)
    PROVE  tab'[t] = tab[t]
  BY DEF TypeOK, Becomes, ServerStep, middleware, getTenantBySlug, LayoutSession,
         PageSession, PageData, RenderFails, redirect, Rendered, LoginAnswered,
         SignOutAnswered, Visit, Follow, SubmitLogin, SignOut

LEMMA CalmNext == TypeOK /\ CalmInv /\ [Next]_vars => CalmInv'
  <1> SUFFICES ASSUME TypeOK, CalmInv, Next PROVE CalmInv'
    BY DEF vars, CalmInv, Lands
  <1>1. Watch
    BY DEF Next, StepOf
  <1>2. SUFFICES ASSUME NEW t \in Tab, t \in calm'
        PROVE  /\ jar'[tab'[t].host].access
               /\ Lands(tab'[t], jar'[tab'[t].host].who)
    BY <1>1 DEF CalmInv, Watch, Lands
  <1>3. /\ tab'[t].why = "signIn"
        /\ \/ tab[t].pc = "signingIn" /\ tab'[t].pc = "request"
           \/ /\ t \in calm /\ jar'[tab[t].host] = jar[tab[t].host]
              /\ tab[t].host \in Slug => status'[tab[t].host] # "gone"
    BY <1>1, <1>2 DEF Watch
  <1>4. CASE tab[t].pc = "signingIn" /\ tab'[t].pc = "request"
    <2>1. tab'[t] # tab[t]
      BY <1>4
    <2>2. ~OtherStep
      <3>1. \A h \in Host : [tab[t] EXCEPT !.cookie = Nobody].pc = tab[t].pc
        BY DEF TypeOK, TabRec
      <3>2. QED
        BY <1>4, <2>1, <3>1 DEF OtherStep, LoginElsewhere, LogoutElsewhere,
           Refresh, SetJar, Expire, SetStatus
    <2>3. ServerStep(t) \/ LoginAnswered(t) \/ SignOutAnswered(t)
          \/ (\E h \in Host, target \in Target : Visit(t, h, target))
          \/ (\E path \in Path : Follow(t, path))
          \/ SubmitLogin(t) \/ SignOut(t)
      BY <2>1, <2>2, Kinds, Elsewhere
    <2>4. LoginAnswered(t)
      BY <1>4, <2>3
         DEF ServerStep, middleware, getTenantBySlug, LayoutSession, PageSession,
             PageData, RenderFails, redirect, Rendered, SignOutAnswered, Visit,
             Follow, SubmitLogin, SignOut
    <2>5. QED
      BY <1>4, <2>4, SignInStarts
  <1>5. CASE /\ t \in calm /\ jar'[tab[t].host] = jar[tab[t].host]
             /\ tab[t].host \in Slug => status'[tab[t].host] # "gone"
    <2> DEFINE who == jar[tab[t].host].who
    <2>1. Lands(tab[t], who) /\ jar[tab[t].host].access
      BY <1>5 DEF CalmInv
    <2>2. jar[tab[t].host] = [who |-> who, access |-> TRUE]
      <3>1. jar[tab[t].host] \in Jar
        BY DEF TypeOK, TabRec
      <3>2. jar[tab[t].host] \in [who : Someone, access : BOOLEAN]
        BY <3>1 DEF Jar
      <3>3. QED
        BY <2>1, <3>2
    <2>3. SUFFICES Lands(tab'[t], who) /\ tab'[t].host = tab[t].host
      BY <1>5, <2>1
    <2> HIDE DEF who
    <2>4. CASE tab'[t] = tab[t]
      BY <2>1, <2>4
    <2>5. CASE OtherStep
      <3>1. ASSUME NEW h \in Host, Expire(h) PROVE tab'[t] = tab[t]
        <4>1. jar[h] \in [who : Someone, access : BOOLEAN]
          BY DEF TypeOK, Jar
        <4>2. ~jar'[h].access
          BY <3>1, <4>1 DEF Expire, TypeOK
        <4>3. tab[t].host # h
          BY <1>5, <2>1, <4>2
        <4>4. QED
          BY <3>1, <4>3 DEF Expire, TypeOK
      <3>2. tab'[t] = tab[t]
        BY <2>5, <3>1 DEF OtherStep, LoginElsewhere, LogoutElsewhere, Refresh,
           SetJar, SetStatus
      <3>3. QED
        BY <2>4, <3>2
    <2>6. CASE ServerStep(t)
      <3>1. status' = status
        BY <2>6 DEF ServerStep, middleware, getTenantBySlug, LayoutSession,
           PageSession, PageData, RenderFails, redirect, Rendered
      <3>2. QED
        BY <1>3, <1>5, <2>1, <2>2, <2>6, <3>1, ServerLands
    <2>7. CASE \/ LoginAnswered(t) \/ SignOutAnswered(t)
               \/ \E h \in Host, target \in Target : Visit(t, h, target)
               \/ \E path \in Path : Follow(t, path)
               \/ SubmitLogin(t) \/ SignOut(t)
      BY <1>3, <2>1, <2>7, UserLands
    <2>8. QED
      BY <2>4, <2>5, <2>6, <2>7, Kinds, Elsewhere
  <1>6. QED
    BY <1>3, <1>4, <1>5

\* Whoever signs in, on any host and beside any number of other tabs, sees the
\* page meant for the role (auth.controller.ts:134-138), unless the cookies or
\* the tenant change before: no redirect of the pages undoes the form's.
THEOREM SignInsLand == Spec => []SignInLands
  <1>1. Init => CalmInv
    BY DEF Init, CalmInv
  <1>2. TypeOK /\ CalmInv /\ [Next]_vars => CalmInv'
    BY CalmNext
  <1>3. CalmInv => SignInLands
    BY DEF CalmInv, Lands, SignInLands
  <1>4. QED
    BY <1>1, <1>2, <1>3, TypeCorrect, PTL DEF Spec

=============================================================================
