------------------------------ MODULE Frontend ------------------------------
(***************************************************************************)
(* The parts of the browser application that share no variable, in one     *)
(* specification: Init picks a part, and only that part takes steps.  To   *)
(* let them run side by side would multiply their states and add no        *)
(* behaviour.                                                              *)
(***************************************************************************)
EXTENDS UploadClient, Session, Requests, Tabs, ChatClient, Table, OrgTags,
        RouteTree, Layout, Accounts, Theme

VARIABLE part

frontendVars ==
    <<part, uploadClientVars, sessionVars, requestsVars, tabsVars, chatVars, tableVars,
      orgTagsVars, routeTreeVars, layoutVars, accountVars, themeVars>>

(* A session that nothing happens in.                                      *)
SessionRests ==
    /\ stored = (CHOOSE u \in User : TRUE) /\ lastLogin = NoUser /\ events = 0
    /\ token = stored /\ boot = stored /\ user = stored
    /\ constInit = TRUE /\ authInit = TRUE
    /\ authRoutes = RoutesOf(stored) /\ registered = ConstantRoutes \cup RoutesOf(stored)
    /\ page = Resolve("root", registered) /\ navs = {} /\ pending = 1 /\ views = {page.name}
    /\ back = [u \in User |-> 0] /\ login = Idle

FrontendInit ==
    /\ part \in {"uploads", "session", "requests", "tabs", "chat", "table", "tags", "routes",
                 "layout", "accounts", "theme"}
    /\ UploadClientInit /\ RequestsInit /\ TabsInit /\ ChatInit /\ TableInit /\ OrgTagsInit
    /\ (part # "chat" => order = <<>>)
    /\ LayoutInit /\ (part # "layout" => ~dev)
    /\ ThemeInit /\ (part # "theme" => prod /\ os = "light")
    /\ AccountInit
    /\ IF part = "session" THEN SessionInit ELSE SessionRests
    /\ IF part = "routes" THEN RouteTreeInit
       ELSE role = "USER" /\ forest = CHOOSE f \in Forests : TRUE

FrontendNext ==
    \/ /\ part = "uploads" /\ UploadClientNext
       /\ UNCHANGED <<sessionVars, requestsVars, tabsVars, chatVars, tableVars, orgTagsVars,
                      routeTreeVars, layoutVars, accountVars, themeVars, part>>
    \/ /\ part = "session" /\ SessionNext
       /\ UNCHANGED <<uploadClientVars, requestsVars, tabsVars, chatVars, tableVars, orgTagsVars,
                      routeTreeVars, layoutVars, accountVars, themeVars, part>>
    \/ /\ part = "requests" /\ RequestsNext
       /\ UNCHANGED <<uploadClientVars, sessionVars, tabsVars, chatVars, tableVars, orgTagsVars,
                      routeTreeVars, layoutVars, accountVars, themeVars, part>>
    \/ /\ part = "tabs" /\ TabsNext
       /\ UNCHANGED <<uploadClientVars, sessionVars, requestsVars, chatVars, tableVars, orgTagsVars,
                      routeTreeVars, layoutVars, accountVars, themeVars, part>>
    \/ /\ part = "chat" /\ ChatNext
       /\ UNCHANGED <<uploadClientVars, sessionVars, requestsVars, tabsVars, tableVars, orgTagsVars,
                      routeTreeVars, layoutVars, accountVars, themeVars, part>>
    \/ /\ part = "table" /\ TableNext
       /\ UNCHANGED <<uploadClientVars, sessionVars, requestsVars, tabsVars, chatVars, orgTagsVars,
                      routeTreeVars, layoutVars, accountVars, themeVars, part>>
    \/ /\ part = "tags" /\ OrgTagsNext
       /\ UNCHANGED <<uploadClientVars, sessionVars, requestsVars, tabsVars, chatVars, tableVars,
                      routeTreeVars, layoutVars, accountVars, themeVars, part>>
    \/ /\ part = "routes" /\ RouteTreeNext
       /\ UNCHANGED <<uploadClientVars, sessionVars, requestsVars, tabsVars, chatVars, tableVars,
                      orgTagsVars, layoutVars, accountVars, themeVars, part>>
    \/ /\ part = "layout" /\ LayoutNext
       /\ UNCHANGED <<uploadClientVars, sessionVars, requestsVars, tabsVars, chatVars, tableVars,
                      orgTagsVars, routeTreeVars, accountVars, themeVars, part>>
    \/ /\ part = "accounts" /\ AccountNext
       /\ UNCHANGED <<uploadClientVars, sessionVars, requestsVars, tabsVars, chatVars, tableVars,
                      orgTagsVars, routeTreeVars, layoutVars, themeVars, part>>
    \/ /\ part = "theme" /\ ThemeNext
       /\ UNCHANGED <<uploadClientVars, sessionVars, requestsVars, tabsVars, chatVars, tableVars,
                      orgTagsVars, routeTreeVars, layoutVars, accountVars, part>>

FrontendSpec == FrontendInit /\ [][FrontendNext]_frontendVars

(* The fairness of FairUploadClientSpec, FairSessionSpec and               *)
(* FairRequestsSpec, each for its part.                                    *)
FairFrontendSpec ==
    /\ FrontendSpec
    /\ WF_uploadClientVars(part = "uploads" /\ \E l \in loops : Ends(l))
    /\ WF_sessionVars(part = "session" /\ Jobs)
    /\ WF_sessionVars(part = "session" /\ Replies)
    /\ WF_requestsVars(part = "requests" /\ Progress)
    /\ WF_requestsVars(part = "requests" /\ Timer)

FrontendTypeOK ==
    CASE part = "uploads" -> UploadClientTypeOK
      [] part = "session" -> SessionTypeOK
      [] part = "requests" -> RequestsTypeOK
      [] part = "tabs" -> TabsTypeOK
      [] part = "chat" -> ChatTypeOK
      [] part = "table" -> TableTypeOK
      [] part = "tags" -> OrgTagsTypeOK
      [] part = "layout" -> LayoutTypeOK
      [] part = "accounts" -> AccountTypeOK
      [] part = "theme" -> ThemeTypeOK
      [] OTHER -> role \in {"USER", "ADMIN"}

RoutesOfRolesAgree == part = "routes" => RoutesAgree
=============================================================================
