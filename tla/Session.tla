------------------------------ MODULE Session ------------------------------
(***************************************************************************)
(* The session of the browser: the auth store, the route store, the guard  *)
(* of the router and the local storage they share.  A navigation is a      *)
(* promise: its guard may wait for the user's information, its page may    *)
(* wait for the chunk that holds its view, and a later navigation          *)
(* supersedes it in the meantime.  One thread runs all this: an action is  *)
(* what runs between two awaits, and no event or reply is served while a   *)
(* guard can still run (Quiet).                                            *)
(***************************************************************************)
EXTENDS Naturals, FiniteSets

CONSTANTS
    User,      \* accounts; a token is known by the account it was issued to
    Admin,     \* those of role ADMIN, which is also the static super role
    NoUser,    \* no token, no user information
    Path,      \* bound: paths the user asks for
    MaxNav,    \* bound: navigations under way at a time
    MaxBack,   \* bound: background requests per account that are followed
    MaxEvents  \* bound: clicks, reloads and ends of the session

ASSUME SessionAssumption ==
    /\ NoUser \notin User /\ Admin \subseteq User
    /\ MaxNav \in Nat \ {0} /\ MaxBack \in Nat /\ MaxEvents \in Nat

(* The generated routes, a flat list: no route has children or an href.    *)
ConstantRoutes == {"403", "404", "500", "iframe-page", "login"}
RoleRoutes == {"chat-history", "org-tag", "user"}
StaticAuthRoutes == {"chat", "knowledge-base", "personal-center"} \cup RoleRoutes
BuiltinRoutes == {"root", "not-found"}

Constant(name) == name \in ConstantRoutes \cup BuiltinRoutes
RouteHome == "chat"

VARIABLES
    stored,      \* the token in local storage
    lastLogin,   \* lastLoginUserId in local storage
    token,       \* authStore.token
    boot,        \* what $reset restores it to: its value when the page was loaded
    user,        \* authStore.userInfo, by its account
    constInit,   \* isInitConstantRoute
    authInit,    \* isInitAuthRoute
    authRoutes,  \* the routes last given to addAuthRoutes
    registered,  \* routes the router has beside the builtin ones
    page,        \* the current route
    navs,        \* navigations under way
    pending,     \* the latest of them
    views,       \* the views whose chunk has been loaded
    back,        \* user-information requests nobody waits for, by account
    login,       \* the login under way
    events       \* number of events so far

authVars == <<stored, lastLogin, token, boot, user>>
routeVars == <<constInit, authInit, authRoutes, registered>>
navVars == <<page, navs, pending, views>>
sessionVars == <<authVars, routeVars, navVars, back, login, events>>

(* A location: the route it resolves to, its path, and the redirect query  *)
(* of the login page, a path or "none".                                    *)
LocationPath == Path \cup {"root", RouteHome, "login", "403"}
Location == [name : ConstantRoutes \cup StaticAuthRoutes \cup BuiltinRoutes \cup {"start"},
             path : LocationPath, ask : LocationPath \cup {"none"}]
Start == [name |-> "start", path |-> "root", ask |-> "none"]

(* A navigation: at its guard, waiting for the user's information (asked   *)
(* with the token of "who"), at its guard again after that, loading the    *)
(* view, or about to reject since the chunk could not be loaded.  "then"   *)
(* is what awaits its end.                                                 *)
Navigation == [id : 1 .. MaxNav, to : Location, root : BOOLEAN, who : User \cup {NoUser},
               at : {"guard", "info", "init", "load", "failed"}, then : {"nothing", "resetRoutes"}]

Loading(n) == n.at = "load" /\ n.to.name \notin views
Quiet == \A n \in navs : n.at = "info" \/ Loading(n)

(* The root route redirects to the home page when it is resolved; a path   *)
(* no route has is caught by not-found.                                    *)
Resolve(path, routes) ==
    LET p == IF path = "root" THEN RouteHome ELSE path
    IN  [name |-> IF p \in routes THEN p ELSE "not-found", path |-> p, ask |-> "none"]

LoginPage(ask) == [name |-> "login", path |-> "login", ask |-> ask]
Forbidden == [name |-> "403", path |-> "403", ask |-> "none"]

FreeId(N) == CHOOSE i \in 1 .. MaxNav : \A n \in N : n.id # i
Room(N) == Cardinality(N) < MaxNav

(* router.push: the new navigation supersedes every other one.             *)
Push(N, to, root, then) ==
    /\ Room(N)
    /\ pending' = FreeId(N)
    /\ navs' = N \cup {[id |-> FreeId(N), to |-> to, root |-> root, who |-> NoUser,
                        at |-> "guard", then |-> then]}
----------------------------------------------------------------------------
(* initConstantRoute and initStaticAuthRoute: what they register.  $reset  *)
(* does not reach constantRoutes and authRoutes, which the store does not  *)
(* return.                                                                 *)
RoutesOf(u) == IF u \in Admin THEN StaticAuthRoutes ELSE StaticAuthRoutes \ RoleRoutes

InitConstantRoute ==
    /\ constInit' = TRUE
    /\ registered' = ConstantRoutes \cup authRoutes
    /\ UNCHANGED authRoutes

ResetRoutes == InitConstantRoute /\ authInit' = FALSE

InitForgotten ==    \* mutant: the flag is not set
    /\ authRoutes' = RoutesOf(user)
    /\ registered' = ConstantRoutes \cup RoutesOf(user)
    /\ UNCHANGED <<constInit, authInit>>

InitAuthRoute ==
    /\ authRoutes' = RoutesOf(user)
    /\ registered' = (IF constInit THEN ConstantRoutes ELSE {}) \cup RoutesOf(user)
    /\ authInit' = TRUE
    /\ UNCHANGED constInit

AlwaysToLogin(N) ==    \* mutant: also from the login page
    /\ lastLogin' = IF user # NoUser THEN user ELSE lastLogin
    /\ stored' = NoUser /\ token' = boot /\ user' = NoUser
    /\ Push(N, LoginPage(page.path), FALSE, "resetRoutes")
    /\ UNCHANGED <<routeVars, boot, page, views>>

(* resetStore of the auth store, with N the other navigations.  On a page  *)
(* that needs a login it goes to the login page and resets the routes when *)
(* that navigation has ended, unless it has rejected: toLogin throws then. *)
ResetStore(N) ==
    /\ lastLogin' = IF user # NoUser THEN user ELSE lastLogin
    /\ stored' = NoUser /\ token' = boot /\ user' = NoUser
    /\ IF Constant(page.name)
       THEN ResetRoutes /\ navs' = N /\ UNCHANGED pending
       ELSE Push(N, LoginPage(page.path), FALSE, "resetRoutes") /\ UNCHANGED routeVars
    /\ UNCHANGED <<boot, page, views>>
----------------------------------------------------------------------------
(* The guard.  A verdict redirects the navigation, also one that has been  *)
(* superseded, or lets it load its page.                                   *)
Redirect(n, to, root) ==
    /\ navs' = (navs \ {n}) \cup {[n EXCEPT !.to = to, !.root = root, !.at = "guard"]}
    /\ pending' = n.id
    /\ UNCHANGED <<page, views>>

Load(n) ==
    /\ navs' = (navs \ {n}) \cup {[n EXCEPT !.at = "load"]}
    /\ UNCHANGED <<page, pending, views>>

OnlyWhenReached(n, there) ==    \* mutant: a superseded navigation wakes nobody
    /\ navs' = navs \ {n}
    /\ page' = there
    /\ IF n.then = "resetRoutes" /\ there = n.to THEN ResetRoutes ELSE UNCHANGED routeVars
    /\ UNCHANGED pending

(* The end of a navigation: reached, superseded or a duplicate.            *)
End(n, there) ==
    /\ navs' = navs \ {n}
    /\ page' = there
    /\ IF n.then = "resetRoutes" THEN ResetRoutes ELSE UNCHANGED routeVars
    /\ UNCHANGED pending

GuardDuplicate(n) ==
    /\ n.at = "guard" /\ n.to = page
    /\ End(n, page)
    /\ UNCHANGED <<authVars, back, views>>

GuardConstant(n) ==
    /\ n.at = "guard" /\ n.to # page /\ ~constInit
    /\ InitConstantRoute
    /\ Redirect(n, Resolve(n.to.path, registered'), n.root)
    /\ UNCHANGED <<authVars, authInit, back>>

LoginQuery(to) == IF to.name # "login" /\ to.path # RouteHome THEN to.path ELSE "none"

GuardAnonymous(n) ==
    /\ n.at = "guard" /\ n.to # page /\ constInit /\ stored = NoUser
    /\ IF Constant(n.to.name) /\ n.to.name # "not-found"
       THEN Load(n)
       ELSE Redirect(n, LoginPage(LoginQuery(n.to)), FALSE)
    /\ UNCHANGED <<authVars, routeVars, back>>

GuardAsksInfo(n) ==
    /\ n.at = "guard" /\ n.to # page /\ constInit /\ stored # NoUser /\ ~authInit
    /\ user = NoUser
    /\ navs' = (navs \ {n}) \cup {[n EXCEPT !.at = "info", !.who = stored]}
    /\ UNCHANGED <<authVars, routeVars, page, pending, views, back>>

AuthRouteExists(path) == path \in StaticAuthRoutes
HasAuth(name) == user \in Admin \/ name \notin RoleRoutes

(* onRouteSwitchWhenLoggedIn, which is not awaited, the exit of initRoute  *)
(* and the checks of createRouteGuard after it.                            *)
Decide(n) ==
    /\ back' = [u \in User |-> IF u = stored /\ back[u] < MaxBack THEN back[u] + 1 ELSE back[u]]
    /\ LET to == n.to
           caught == to.name = "not-found" /\ AuthRouteExists(to.path)
       IN  IF caught THEN Redirect(n, Forbidden, FALSE)
           ELSE IF to.name = "login" /\ stored # NoUser
                THEN Redirect(n, Resolve("root", registered'), TRUE)
           ELSE IF Constant(to.name) THEN Load(n)
           ELSE IF stored = NoUser THEN Redirect(n, LoginPage(to.path), FALSE)
           ELSE IF ~HasAuth(to.name) THEN Redirect(n, Forbidden, FALSE)
           ELSE Load(n)

GuardInit(n) ==
    /\ \/ n.at = "init"
       \/ n.at = "guard" /\ n.to # page /\ constInit /\ stored # NoUser /\ ~authInit /\ user # NoUser
    /\ InitAuthRoute
    /\ IF n.to.name = "not-found"
       THEN /\ Redirect(n, Resolve(IF n.root THEN "root" ELSE n.to.path, registered'), n.root)
            /\ UNCHANGED back
       ELSE Decide(n)
    /\ UNCHANGED authVars

GuardDecides(n) ==
    /\ n.at = "guard" /\ n.to # page /\ constInit /\ stored # NoUser /\ authInit
    /\ UNCHANGED <<authVars, routeVars>>
    /\ Decide(n)

Guard(n) ==
    /\ \/ GuardDuplicate(n) \/ GuardConstant(n) \/ GuardAnonymous(n)
       \/ GuardAsksInfo(n) \/ GuardInit(n) \/ GuardDecides(n)
    /\ UNCHANGED <<login, events>>

(* The view is there; the navigation counts unless it has been superseded. *)
Confirm(n) ==
    /\ n.at = "load" /\ (Loading(n) => Quiet)
    /\ views' = views \cup {n.to.name}
    /\ End(n, IF n.id = pending THEN n.to ELSE page)
    /\ UNCHANGED <<authVars, back, login, events>>

(* The chunk of the view cannot be loaded: the navigation rejects, also    *)
(* one that has been superseded, and what awaits its end is not run.       *)
LoadFails(n) ==
    /\ Quiet /\ Loading(n)
    /\ navs' = (navs \ {n}) \cup {[n EXCEPT !.at = "failed"]}
    /\ UNCHANGED <<authVars, routeVars, page, pending, views, back, login, events>>

Rejects(n) ==
    /\ n.at = "failed"
    /\ navs' = navs \ {n}
    /\ UNCHANGED <<authVars, routeVars, page, pending, views, back, login, events>>
----------------------------------------------------------------------------
(* The reply to the guard's own request.                                   *)
InfoReply(n) ==
    /\ Quiet /\ n.at = "info"
    /\ LET N == (navs \ {n}) \cup {[n EXCEPT !.at = "init", !.who = NoUser]}
       IN  \/ user' = n.who /\ navs' = N
              /\ UNCHANGED <<stored, lastLogin, token, boot, routeVars, page, pending, views>>
           \/ ResetStore(N)
    /\ UNCHANGED <<back, login, events>>

(* The reply to a request of onRouteSwitchWhenLoggedIn: it is taken        *)
(* whoever uses the page by now.                                           *)
BackReply(u) ==
    /\ Quiet /\ back[u] > 0
    /\ back' = [back EXCEPT ![u] = @ - 1]
    /\ \/ user' = u /\ UNCHANGED <<stored, lastLogin, token, boot, routeVars, navVars>>
       \/ ResetStore(navs)
    /\ UNCHANGED <<login, events>>

Idle == [at |-> "idle", who |-> NoUser]

LoginSubmit(u) ==
    /\ Quiet /\ events < MaxEvents
    /\ page.name = "login" /\ login = Idle
    /\ login' = [at |-> "sent", who |-> u]
    /\ events' = events + 1
    /\ UNCHANGED <<authVars, routeVars, navVars, back>>

LoginReply ==
    /\ Quiet /\ login.at = "sent"
    /\ \/ /\ stored' = login.who
          /\ login' = [login EXCEPT !.at = "info"]
          /\ UNCHANGED <<lastLogin, token, boot, user, routeVars, navVars>>
       \/ ResetStore(navs) /\ login' = Idle
    /\ UNCHANGED <<back, events>>

(* getUserInfo of loginByToken.  When it fails the token stays in storage. *)
(* Another user than last time starts at the home page (checkTabClear).    *)
LoginInfo ==
    /\ Quiet /\ login.at = "info"
    /\ login' = Idle
    /\ \/ /\ user' = login.who /\ token' = login.who /\ lastLogin' = NoUser
          /\ LET path == IF lastLogin # login.who \/ page.ask = "none" THEN "root" ELSE page.ask
             IN  Push(navs, Resolve(path, registered), path = "root", "nothing")
          /\ UNCHANGED <<stored, boot, page, views>>
       \/ UNCHANGED <<authVars, navVars>>
    /\ UNCHANGED <<routeVars, back, events>>

(* A click, a menu or the address bar.                                     *)
Navigate(path) ==
    /\ Quiet /\ events < MaxEvents /\ constInit
    /\ Push(navs, Resolve(path, registered), path = "root", "nothing")
    /\ events' = events + 1
    /\ UNCHANGED <<authVars, routeVars, page, views, back, login>>

(* A request of some page is answered 403 or with a logout code, or the    *)
(* user's logout has succeeded.                                            *)
EndSession ==
    /\ Quiet /\ events < MaxEvents /\ page # Start
    /\ ResetStore(navs)
    /\ events' = events + 1
    /\ UNCHANGED <<back, login>>

(* The initial navigation of a page.                                       *)
Opening(path) == {[id |-> 1, to |-> Resolve(path, {}), root |-> path = "root", who |-> NoUser,
                   at |-> "guard", then |-> "nothing"]}

(* Everything but the local storage is built anew.                         *)
Reload(path) ==
    /\ Quiet /\ events < MaxEvents
    /\ events' = events + 1
    /\ token' = stored /\ boot' = stored /\ user' = NoUser
    /\ constInit' = FALSE /\ authInit' = FALSE /\ authRoutes' = {} /\ registered' = {}
    /\ page' = Start /\ pending' = 1 /\ navs' = Opening(path) /\ views' = {}
    /\ back' = [u \in User |-> 0] /\ login' = Idle
    /\ UNCHANGED <<stored, lastLogin>>
----------------------------------------------------------------------------
SessionInit ==
    /\ stored \in User \cup {NoUser} /\ lastLogin = NoUser /\ events = 0
    /\ token = stored /\ boot = stored /\ user = NoUser
    /\ constInit = FALSE /\ authInit = FALSE /\ authRoutes = {} /\ registered = {}
    /\ page = Start /\ pending = 1 /\ views = {} /\ \E path \in Path : navs = Opening(path)
    /\ back = [u \in User |-> 0] /\ login = Idle

Replies ==
    \/ \E n \in navs : (Loading(n) /\ Confirm(n)) \/ LoadFails(n) \/ InfoReply(n)
    \/ \E u \in User : BackReply(u)
    \/ LoginReply \/ LoginInfo

Jobs == \E n \in navs : Guard(n) \/ (~Loading(n) /\ Confirm(n)) \/ Rejects(n)

SessionNext ==
    \/ Jobs
    \/ Replies
    \/ \E u \in User : LoginSubmit(u)
    \/ \E path \in Path : Navigate(path) \/ Reload(path)
    \/ EndSession

SessionSpec == SessionInit /\ [][SessionNext]_sessionVars

(* The browser drains its promise jobs, and every request is answered or   *)
(* times out.                                                              *)
FairSessionSpec ==
    /\ SessionSpec
    /\ WF_sessionVars(Jobs)
    /\ WF_sessionVars(Replies)
----------------------------------------------------------------------------
SessionTypeOK ==
    /\ {stored, lastLogin, token, boot, user} \subseteq User \cup {NoUser}
    /\ {constInit, authInit} \subseteq BOOLEAN
    /\ authRoutes \subseteq StaticAuthRoutes
    /\ registered \subseteq ConstantRoutes \cup authRoutes
    /\ page \in Location /\ navs \subseteq Navigation /\ pending \in 1 .. MaxNav
    /\ \A n, m \in navs : n.id = m.id => n = m
    /\ views \subseteq ConstantRoutes \cup BuiltinRoutes \cup StaticAuthRoutes
    /\ back \in [User -> 0 .. MaxBack]
    /\ login \in [at : {"idle", "sent", "info"}, who : User \cup {NoUser}]
    /\ events \in 0 .. MaxEvents

(* The login page is never asked to return to itself, whichever of the     *)
(* three ways to it is taken, and however late a session ends: after its   *)
(* login the user would be sent round it.                                  *)
NoNestedRedirect == page.ask # "login" /\ \A n \in navs : n.to.ask # "login"

(* The guard comes to an end: its redirects (to the path again when routes *)
(* have been registered, from the login page to the home page, from a page *)
(* caught by not-found to 403) never chase each other, whatever is         *)
(* registered and stored at that moment.                                   *)
GuardsSettle == []<>Quiet

(* resetStore comes to its end: the navigation to the login page that it   *)
(* awaits may be superseded by a click, by a stale redirect or by another  *)
(* reset, and the next login builds the routes of its own user all the     *)
(* same.  Only the failed load of a view keeps it from that.               *)
ResetCompletes ==
    (\E n \in navs : n.then = "resetRoutes")
        ~> (~authInit \/ \E n \in navs : n.then = "resetRoutes" /\ n.at = "failed")
=============================================================================
