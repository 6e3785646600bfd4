------------------------------- MODULE Layout -------------------------------
(***************************************************************************)
(* The layout of the windows: its mode and the sider, taken down when a    *)
(* window becomes narrow and put back when it is wide again.  What is put  *)
(* back is kept in local storage, which all windows of the browser share.  *)
(* The theme drawer, where a mode is chosen, is there in development       *)
(* builds only; no generated route has children.                           *)
(***************************************************************************)
EXTENDS Naturals, FiniteSets

CONSTANTS
    Window,     \* windows of one browser
    MaxResizes  \* bound: clicks, resizes and reloads

ASSUME LayoutAssumption == MaxResizes \in Nat

Mode == {"vertical", "vertical-mix", "horizontal", "horizontal-mix"}
None == [mode |-> "none", collapse |-> FALSE]

VARIABLES
    dev,       \* a development build
    win,       \* each window
    backup,    \* backupThemeSettingBeforeIsMobile
    restoring, \* what a window is about to put back in its next tick
    before,    \* history: what a window showed when it became narrow
    spoiled,   \* history: it was reloaded since, or another window used the backup
    resizes    \* number of events so far

layoutHistory == <<before, spoiled>>
layoutVars == <<dev, win, backup, restoring, layoutHistory, resizes>>

(* initThemeSettings: the cached settings are those no drawer has changed. *)
Settings == [narrow |-> FALSE, mode |-> "vertical", reverse |-> FALSE, collapse |-> FALSE,
             full |-> FALSE, tab |-> TRUE]

Shows(w) == [mode |-> win[w].mode, collapse |-> win[w].collapse]

(* The watch of isMobile fills what it changes before the next event.      *)
Event(w) ==
    /\ resizes < MaxResizes /\ resizes' = resizes + 1
    /\ restoring[w] = None /\ UNCHANGED dev

Spoil(w) == [v \in Window |-> spoiled[v] \/ (v # w /\ before[v] # None)]
Forget(w) == before' = [before EXCEPT ![w] = IF win[w].narrow THEN @ ELSE None]

LeaveCollapsed(w) ==    \* mutant: the sider is not part of the backup
    /\ Event(w) /\ ~win[w].narrow
    /\ backup' = [Shows(w) EXCEPT !.collapse = TRUE]
    /\ before' = [before EXCEPT ![w] = Shows(w)]
    /\ spoiled' = [Spoil(w) EXCEPT ![w] = FALSE]
    /\ win' = [win EXCEPT ![w] = [@ EXCEPT !.narrow = TRUE, !.mode = "vertical", !.collapse = TRUE]]
    /\ UNCHANGED restoring

(* The watch of isMobile, a window becoming narrow.                        *)
Narrow(w) ==
    /\ Event(w) /\ ~win[w].narrow
    /\ backup' = Shows(w)
    /\ before' = [before EXCEPT ![w] = Shows(w)]
    /\ spoiled' = [Spoil(w) EXCEPT ![w] = FALSE]
    /\ win' = [win EXCEPT ![w] = [@ EXCEPT !.narrow = TRUE, !.mode = "vertical", !.collapse = TRUE]]
    /\ UNCHANGED restoring

(* And wide again: the backup is read now and put back in the next tick.   *)
Widen(w) ==
    /\ Event(w) /\ win[w].narrow
    /\ win' = [win EXCEPT ![w].narrow = FALSE]
    /\ restoring' = [restoring EXCEPT ![w] = backup]
    /\ UNCHANGED <<backup, layoutHistory>>

Restore(w) ==
    /\ restoring[w] # None
    /\ win' = [win EXCEPT ![w] = [@ EXCEPT !.mode = restoring[w].mode,
                                           !.collapse = restoring[w].collapse]]
    /\ backup' = None
    /\ restoring' = [restoring EXCEPT ![w] = None]
    /\ spoiled' = Spoil(w)
    /\ UNCHANGED <<dev, before, resizes>>

(* The page is loaded again: the immediate run of the same watch.          *)
ReloadWindow(w) ==
    /\ Event(w)
    /\ LET n == win[w].narrow
       IN  /\ win' = [win EXCEPT ![w] = IF n THEN [Settings EXCEPT !.narrow = TRUE, !.collapse = TRUE]
                                             ELSE Settings]
           /\ backup' = IF n THEN [mode |-> Settings.mode, collapse |-> FALSE] ELSE backup
           /\ restoring' = [restoring EXCEPT ![w] = IF n THEN None ELSE backup]
           /\ spoiled' = IF n THEN [Spoil(w) EXCEPT ![w] = TRUE] ELSE spoiled
    /\ Forget(w)

(* The theme drawer, opened from the header.                               *)
Drawer(w) == Event(w) /\ dev /\ ~win[w].full /\ Forget(w) /\ UNCHANGED <<backup, restoring, spoiled>>

SetThemeLayout(w, m) ==
    /\ Drawer(w) /\ ~win[w].narrow
    /\ win' = [win EXCEPT ![w].mode = m]

SetLayoutReverse(w) ==
    /\ Drawer(w) /\ win[w].mode = "horizontal-mix"
    /\ win' = [win EXCEPT ![w].reverse = ~@]

SetTabVisible(w) == Drawer(w) /\ win' = [win EXCEPT ![w].tab = ~@]

ResetConfig(w) ==
    /\ Drawer(w)
    /\ win' = [win EXCEPT ![w] = [@ EXCEPT !.mode = Settings.mode, !.reverse = FALSE, !.tab = TRUE]]

-----------------------------------------------------------------------------
(* What is on the screen.                                                  *)
ChildMenus == FALSE

MenuOutOfHeader(m, reverse) ==    \* mutant: a mixed layout is taken for one with a sider only
    [menu |-> m = "horizontal", toggler |-> m = "vertical" \/ (m = "horizontal-mix" /\ reverse /\ ChildMenus)]

HeaderProps(m, reverse) ==
    [menu |-> m \in {"horizontal", "horizontal-mix"},
     toggler |-> m = "vertical" \/ (m = "horizontal-mix" /\ reverse /\ ChildMenus)]

SiderVisible(m) == m # "horizontal"
SiderHasWidth(m, reverse) == SiderVisible(m) /\ ~(m = "horizontal-mix" /\ reverse /\ ~ChildMenus)

(* The layout shows the sider as a column, or in a narrow window as a      *)
(* drawer over the page; either holds the element for its menus.           *)
Siders(w) ==
    {s \in {"column", "drawer"} : SiderVisible(win[w].mode) /\ (s = "drawer") = win[w].narrow}

Places(w) ==
    (IF HeaderProps(win[w].mode, win[w].reverse).menu THEN {"header"} ELSE {})
    \cup (IF Siders(w) # {} THEN {"sider"} ELSE {})

(* Where each menu teleports its parts.                                    *)
VerticalMenu == {"sider"}
VerticalMixMenu == {"sider"}
HorizontalMenu == {"header"}
HorizontalMixMenu == {"header", "sider"}
ReversedHorizontalMixMenu == {"header", "sider"}

ActiveMenu(m, reverse) ==
    CASE m = "vertical" -> VerticalMenu
      [] m = "vertical-mix" -> VerticalMixMenu
      [] m = "horizontal" -> HorizontalMenu
      [] OTHER -> IF reverse THEN ReversedHorizontalMixMenu ELSE HorizontalMixMenu

(* Where the sider is collapsed and unfolded: in the header of a narrow    *)
(* window, in the vertical menu of a wide one, below a first-level menu.   *)
HeaderToggler(w) ==
    HeaderProps(win[w].mode, win[w].reverse).toggler /\ win[w].narrow
VerticalToggler(w) ==
    win[w].mode = "vertical" /\ ~win[w].narrow
FirstLevelToggler(w) ==
    win[w].mode = "vertical-mix" \/ (win[w].mode = "horizontal-mix" /\ ~win[w].reverse)

(* The full content hides the header and the siders.                       *)
CanFold(w) == ~win[w].full /\ (HeaderToggler(w) \/ VerticalToggler(w) \/ FirstLevelToggler(w))

ToggleSider(w) ==
    /\ Event(w) /\ CanFold(w)
    /\ win' = [win EXCEPT ![w].collapse = ~@]
    /\ Forget(w) /\ UNCHANGED <<backup, restoring, spoiled>>

(* The mask beside the open sider of a narrow window.                      *)
ClickMask(w) ==
    /\ Event(w) /\ win[w].narrow /\ ~win[w].collapse
    /\ win' = [win EXCEPT ![w].collapse = TRUE]
    /\ UNCHANGED <<backup, restoring, layoutHistory>>

(* The bar of tabs has the button for the full content.                    *)
ToggleFullContent(w) ==
    /\ Event(w) /\ win[w].tab
    /\ win' = [win EXCEPT ![w].full = ~@]
    /\ UNCHANGED <<backup, restoring, layoutHistory>>

LayoutInit ==
    /\ dev \in BOOLEAN
    /\ win = [w \in Window |-> Settings]
    /\ backup = None /\ restoring = [w \in Window |-> None]
    /\ before = [w \in Window |-> None] /\ spoiled = [w \in Window |-> FALSE]
    /\ resizes = 0

LayoutNext ==
    \E w \in Window :
        \/ Narrow(w) \/ Widen(w) \/ Restore(w) \/ ReloadWindow(w)
        \/ \E m \in Mode : SetThemeLayout(w, m)
        \/ SetLayoutReverse(w) \/ SetTabVisible(w) \/ ResetConfig(w)
        \/ ToggleSider(w) \/ ClickMask(w) \/ ToggleFullContent(w)

LayoutSpec == LayoutInit /\ [][LayoutNext]_layoutVars
-----------------------------------------------------------------------------
LayoutTypeOK ==
    /\ \A w \in Window : win[w].mode \in Mode /\ restoring[w].mode \in Mode \cup {"none"}
    /\ backup.mode \in Mode \cup {"none"} /\ resizes \in 0 .. MaxResizes

(* app/index.ts: "when is not mobile, recover the backup theme setting".   *)
(* Whatever was clicked, reset and toggled while it was narrow, a window   *)
(* that is wide again has the layout and the sider it had, unless it was   *)
(* reloaded in between or another window has used the one backup there is. *)
LayoutRestored ==
    \A w \in Window :
        ~win[w].narrow /\ restoring[w] = None /\ before[w] # None /\ ~spoiled[w] =>
            Shows(w) = before[w]

(* The menu of every layout the windows get into is teleported to elements *)
(* that exist; a sider that has a width can be folded, and the full        *)
(* content be left, which takes the bar of tabs.                           *)
MenuReachable ==
    \A w \in Window :
        /\ ActiveMenu(win[w].mode, win[w].reverse) \subseteq Places(w)
        /\ SiderHasWidth(win[w].mode, win[w].reverse) /\ ~win[w].full => CanFold(w)
        /\ win[w].full => win[w].tab
=============================================================================
