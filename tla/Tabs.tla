-------------------------------- MODULE Tabs --------------------------------
(***************************************************************************)
(* The tab store and the tab bar that drives it, with what the auth store  *)
(* does to the tabs.  Closing the tab that is shown moves to another page, *)
(* and the end of a session to the login page.  What the stores do after   *)
(* such a navigation they do when it has ended, reached or superseded: the *)
(* user may have clicked elsewhere by then, in another session even.  No   *)
(* generated route has a fixed or a multiple tab: a tab is known by the    *)
(* route it shows.                                                         *)
(***************************************************************************)
EXTENDS Filters, SequencesExt

CONSTANTS
    TabUser,   \* accounts
    Nobody,
    HomeTab,   \* the route of the home tab
    TabRoutes, \* the routes of each account, the home page among them
    MaxMoves,  \* bound: navigations under way when the user clicks
    MaxClicks  \* bound: clicks of the user and ends of a session

Routes == UNION {TabRoutes[u] : u \in TabUser}

ASSUME TabsAssumption ==
    /\ Nobody \notin TabUser
    /\ MaxMoves \in Nat /\ MaxClicks \in Nat
    /\ HomeTab # "login" /\ "login" \notin Routes    \* the login page has no tab bar

VARIABLES
    tabs,       \* the open tabs, the home tab apart: route, and account that opened it
    activeTab,  \* activeTabId
    shown,      \* the current route, "login" before a session
    moves,      \* navigations under way, and what awaits each
    account,    \* the user of the latest session
    inside,     \* that session has not ended
    userId,     \* userInfo.id
    infoDue,    \* accounts whose information a request of this page still asks for
    lastAccount, \* lastLoginUserId
    globalTabs, \* the tabs in local storage
    unchecked,  \* history: some tabs went past checkTabClear
    clicks

tabsVars == <<tabs, activeTab, shown, moves, account, inside, userId, infoDue, lastAccount,
              globalTabs, unchecked, clicks>>
sessionOfTabs == <<account, inside, userId, infoDue, lastAccount, globalTabs, unchecked>>

Tab(r) == [route |-> r, owner |-> account]
TabIds(s) == {s[i].route : i \in DOMAIN s}
Showing(s, routes) == Filtered(s, {i \in DOMAIN s : s[i].route \in routes})
Position(s, r) == CHOOSE i \in DOMAIN s : s[i].route = r

AddAgain(s, r) ==    \* mutant: a tab that is open is added again
    IF r = HomeTab THEN s ELSE Append(s, Tab(r))

(* addTab: the home tab is not among the others.                           *)
WithTab(s, r) == IF r = HomeTab \/ r \in TabIds(s) THEN s ELSE Append(s, Tab(r))

Nothing == [kind |-> "nothing", rest |-> <<>>]
Update(s) == [kind |-> "update", rest |-> s]
Reset == [kind |-> "reset", rest |-> <<>>]

(* routerPush supersedes the other navigations, unless the page is shown   *)
(* already.                                                                *)
MoveTo(r, then) ==
    moves' = Append([i \in DOMAIN moves |-> [moves[i] EXCEPT !.latest = FALSE]],
                    [to |-> r, then |-> then, latest |-> TRUE, stale |-> FALSE])

TabClick == clicks < MaxClicks /\ clicks' = clicks + 1 /\ shown # "login"

(* Without a token the guard sends every page to the login page.           *)
Destination(r) == IF inside THEN r ELSE "login"

(* The guard asks for the user's information again and does not wait.      *)
OpenTab(r) ==
    /\ TabClick /\ r \in TabRoutes[account] /\ r # shown /\ Len(moves) < MaxMoves
    /\ MoveTo(Destination(r), Nothing)
    /\ infoDue' = IF inside THEN infoDue \cup {account} ELSE infoDue
    /\ UNCHANGED <<tabs, activeTab, shown, account, inside, userId, lastAccount, globalTabs, unchecked>>

(* removeTab: the next tab, or the home tab, takes the place of the active *)
(* one.                                                                    *)
RemoveTab(r) ==
    /\ TabClick /\ r \in TabIds(tabs) /\ Len(moves) < MaxMoves
    /\ LET i    == Position(tabs, r)
           next == IF i < Len(tabs) THEN tabs[i + 1].route ELSE HomeTab
       IN  /\ tabs' = RemoveAt(tabs, i)
           /\ IF activeTab = r /\ next # shown
              THEN MoveTo(Destination(next), Nothing) ELSE UNCHANGED moves
    /\ UNCHANGED <<activeTab, shown, sessionOfTabs>>

(* clearTabs: what is left is computed now and stored when the navigation  *)
(* has ended.                                                              *)
ClearTabs(keep) ==
    /\ TabClick /\ Len(moves) < MaxMoves
    /\ LET rest == Showing(tabs, keep)
           to   == IF rest = <<>> THEN HomeTab ELSE Last(rest).route
       IN  IF activeTab \in TabIds(tabs) \ keep /\ to # shown
           THEN MoveTo(Destination(to), Update(rest)) /\ UNCHANGED tabs
           ELSE tabs' = rest /\ UNCHANGED moves
    /\ UNCHANGED <<activeTab, shown, sessionOfTabs>>

Others(r) == {r}
FromHere(r) == {tabs[i].route : i \in Position(tabs, r) .. Len(tabs)}
UpToHere(r) == IF r = HomeTab THEN {} ELSE {tabs[i].route : i \in 1 .. Position(tabs, r)}

(* The context menu of a tab: the home tab has no closeLeft.               *)
CloseMany ==
    \/ \E r \in TabIds(tabs) : ClearTabs(Others(r)) \/ ClearTabs(FromHere(r)) \/ ClearTabs(UpToHere(r))
    \/ ClearTabs({})

(* The end of a navigation.  Only the latest is reached: the bar watches   *)
(* the route and adds its tab.  All resume what awaits them: update of     *)
(* clearTabs, cacheTabs of resetStore.                                     *)
EndMove(k) ==
    /\ k \in DOMAIN moves
    /\ LET m       == moves[k]
           barred  == m.latest /\ m.to # "login"
           opened  == IF barred THEN WithTab(tabs, m.to) ELSE tabs
       IN  /\ tabs' = IF m.then.kind = "update" THEN m.then.rest ELSE opened
           /\ activeTab' = IF barred THEN m.to ELSE activeTab
           /\ shown' = IF m.latest THEN m.to ELSE shown
           /\ globalTabs' = IF m.then.kind = "reset" THEN tabs ELSE globalTabs
           /\ unchecked' = (unchecked \/ (m.stale /\ m.then.kind = "update"))
           /\ moves' = RemoveAt(moves, k)
    /\ UNCHANGED <<account, inside, userId, infoDue, lastAccount, clicks>>

(* Its view does not load: router.push rejects and nothing resumes.        *)
ViewFails(k) ==
    /\ k \in DOMAIN moves
    /\ moves' = RemoveAt(moves, k)
    /\ UNCHANGED <<tabs, activeTab, shown, sessionOfTabs, clicks>>

(* resetStore, whatever ends the session, of a failed login too: the user  *)
(* is recorded, and the tabs are cached when the login page is there.      *)
TabsLogout ==
    /\ clicks < MaxClicks /\ clicks' = clicks + 1 /\ Len(moves) <= MaxMoves
    /\ lastAccount' = IF userId = Nobody THEN lastAccount ELSE userId
    /\ unchecked' = (unchecked \/ userId \notin {account, Nobody})
    /\ userId' = Nobody /\ inside' = FALSE
    /\ IF shown = "login"
       THEN globalTabs' = tabs /\ UNCHANGED moves
       ELSE MoveTo("login", Reset) /\ UNCHANGED globalTabs
    /\ UNCHANGED <<tabs, activeTab, shown, account, infoDue>>

(* A late reply to getUserInfo: it is taken whoever uses the page by now.  *)
LateInfo(u) ==
    /\ u \in infoDue
    /\ infoDue' = infoDue \ {u} /\ userId' = u
    /\ UNCHANGED <<tabs, activeTab, shown, moves, account, inside, lastAccount, globalTabs,
                   unchecked, clicks>>

(* initTabStore, when the layout with the bar is mounted on the home page. *)
Mounted(cached, u) ==
    /\ tabs' = IF cached = <<>> THEN tabs ELSE Showing(cached, TabRoutes[u])
    /\ activeTab' = HomeTab /\ shown' = HomeTab

(* A login: with the view of the login page, whatever waited for it has    *)
(* resumed.  The other navigations are of an earlier session from now on.  *)
Entering(u) ==
    /\ shown = "login" /\ \A i \in DOMAIN moves : moves[i].to # "login"
    /\ account' = u /\ userId' = u /\ inside' = TRUE
    /\ infoDue' = infoDue \cup {u}
    /\ moves' = [i \in DOMAIN moves |-> [moves[i] EXCEPT !.stale = TRUE]]

LoginUnchecked(u) ==    \* mutant: the tabs in local storage are kept for whoever comes
    /\ Entering(u)
    /\ lastAccount' = Nobody
    /\ IF lastAccount # u
       THEN /\ unchecked' = FALSE /\ UNCHANGED globalTabs /\ Mounted(globalTabs, u)
       ELSE Mounted(globalTabs, u) /\ UNCHANGED <<globalTabs, unchecked>>
    /\ UNCHANGED clicks

(* login with checkTabClear: the navigation of its clearTabs is superseded *)
(* at once by the one to the home page.                                    *)
TabsLogin(u) ==
    /\ Entering(u)
    /\ lastAccount' = Nobody
    /\ IF lastAccount # u
       THEN /\ tabs' = <<>> /\ globalTabs' = <<>> /\ unchecked' = FALSE
            /\ activeTab' = HomeTab /\ shown' = HomeTab
       ELSE Mounted(globalTabs, u) /\ UNCHANGED <<globalTabs, unchecked>>
    /\ UNCHANGED clicks

(* The user information fails at the login and is got by the guard later.  *)
LateLogin(u) ==
    /\ Entering(u)
    /\ Mounted(globalTabs, u)
    /\ unchecked' = (unchecked \/ lastAccount # u)
    /\ UNCHANGED <<lastAccount, globalTabs, clicks>>

(* beforeunload caches the tabs.  With a token and the user's information  *)
(* the page starts again from them, otherwise at the login page.           *)
TabsReload ==
    /\ TabClick
    /\ moves' = <<>>
    /\ \/ /\ inside /\ globalTabs' = tabs
          /\ tabs' = WithTab(Showing(tabs, TabRoutes[account]), shown)
          /\ activeTab' = shown /\ userId' = account /\ infoDue' = {account}
          /\ UNCHANGED <<shown, inside>>
       \/ /\ globalTabs' = IF inside THEN <<>> ELSE tabs
          /\ tabs' = <<>> /\ activeTab' = HomeTab /\ shown' = "login"
          /\ userId' = Nobody /\ infoDue' = {} /\ inside' = FALSE
    /\ UNCHANGED <<account, lastAccount, unchecked>>

TabsInit ==
    /\ tabs = <<>> /\ activeTab = HomeTab /\ shown = "login" /\ moves = <<>>
    /\ account = Nobody /\ inside = FALSE /\ userId = Nobody /\ infoDue = {}
    /\ lastAccount = Nobody /\ globalTabs = <<>>
    /\ unchecked = FALSE /\ clicks = 0

TabsNext ==
    \/ \E u \in TabUser : TabsLogin(u) \/ LateLogin(u) \/ LateInfo(u)
    \/ \E r \in Routes : OpenTab(r) \/ RemoveTab(r)
    \/ CloseMany \/ TabsLogout \/ TabsReload
    \/ \E k \in DOMAIN moves : EndMove(k) \/ ViewFails(k)

TabsSpec == TabsInit /\ [][TabsNext]_tabsVars
----------------------------------------------------------------------------
TabsTypeOK ==
    /\ IsInjective([i \in DOMAIN tabs |-> tabs[i].route])
    /\ \A i \in DOMAIN tabs : tabs[i].route \in Routes \ {HomeTab}
    /\ activeTab \in TabIds(tabs) \cup {HomeTab, shown} \cup Routes
    /\ {account, userId, lastAccount} \subseteq TabUser \cup {Nobody} /\ infoDue \subseteq TabUser
    /\ (inside => account # Nobody /\ shown # "login")
    /\ Len(moves) <= MaxMoves + 1 /\ clicks \in 0 .. MaxClicks

(* checkTabClear, auth/index.ts: "Check if current login user is different *)
(* from previous login user If different, clear all tabs".  Nobody is      *)
(* shown the tabs of another account, through logouts that wait for the    *)
(* login page, closings that wait for a view, views that do not load,      *)
(* reloads and cached tabs.  Three ways past the check remain in the code  *)
(* and are excepted: a login whose user information came late, a session   *)
(* whose end recorded another account, of which a late reply had come, and *)
(* a closing of an earlier session that resumes in this one.               *)
TabsOfAccount == inside /\ ~unchecked => \A i \in DOMAIN tabs : tabs[i].owner = account
=============================================================================
