-------------------------------- MODULE Theme --------------------------------
(***************************************************************************)
(* The theme of the windows: the settings a window starts with (cached in  *)
(* local storage by production builds, overridden once by a new build),    *)
(* what changes them, and what the watches of the theme store make of them *)
(* in the document.  A click and the watches it fires are one step: they   *)
(* run before the next event.  In production a user only switches the      *)
(* scheme; the theme drawer is there in development builds.                *)
(***************************************************************************)
EXTENDS Naturals, FiniteSets

CONSTANTS
    Browser,   \* windows of one browser
    Override,  \* what each build's overrideThemeSettings says of the scheme
    Color,     \* colours a user picks
    Shade,     \* the number of the palette a colour of Color is nearest to
    First,     \* the colours of the default settings
    MaxLooks   \* bound: events

Build == DOMAIN Override

ASSUME ThemeAssumption ==
    /\ 1 \in Build /\ Build \subseteq Nat /\ MaxLooks \in Nat
    /\ Override \in [Build -> {"none", "light", "dark", "auto"}]

Shades == {300, 500, 700}    \* of the eleven numbers of a palette
ColorKey == {"primary", "info", "success"}    \* success stands for the other two as well

VARIABLES
    prod,     \* a production build
    os,       \* the colour scheme the system prefers
    build,    \* the build the server has
    theme,    \* each window
    stg,      \* local storage
    choice,   \* history: the scheme chosen last, by the user or by a new build
    alone,    \* history: no other window was open since and it was not killed
    seen,     \* history: the builds started since the last start of an older one
    looks     \* number of events so far

themeHistory == <<choice, alone, seen>>
themeVars == <<prod, os, build, theme, stg, themeHistory, looks>>

themeSettings ==
    [scheme |-> "auto", grayscale |-> FALSE, colourWeakness |-> FALSE, recommendColor |-> TRUE,
     follow |-> TRUE, color |-> First]

Gone == [at |-> "closed"]
Active(p) == theme[p].at # "closed"
Opened(p) == theme[p].at = "open"
OthersActive(p) == \E q \in Browser \ {p} : Active(q)
Look == looks < MaxLooks /\ looks' = looks + 1

-----------------------------------------------------------------------------
(* Palettes.  A colour made from another one is named by how it was made.  *)
Nearest(c) == IF c \in Color THEN Shade[c] ELSE 500

getRecommendedColorPalette(c) ==
    [n \in Shades |-> IF n = Nearest(c) THEN c ELSE <<"recommended", c, n>>]
getAntDColorPalette(c) ==
    [n \in Shades |-> IF n = 500 THEN c ELSE <<"mixed", c, n>>]
getColorPalette(c, recommended) ==
    IF recommended THEN getRecommendedColorPalette(c) ELSE getAntDColorPalette(c)

Dark(s, prefers) == IF s.scheme = "auto" THEN prefers = "dark" ELSE s.scheme = "dark"
ThemeColors(s) == [s.color EXCEPT !.info = IF s.follow THEN s.color.primary ELSE @]

(* The variables of the style element, by the colours' names; those of the *)
(* container depend on the class of the html element.                      *)
ThemeTokens(s) == [k \in ColorKey |-> getColorPalette(ThemeColors(s)[k], s.recommendColor)]
ContainerToken(dark) == IF dark THEN "1c1c1c" ELSE "ffffff"
Filter(s) == {f \in {"grayscale", "colourWeakness"} : s[f]}

(* What the components are given.                                          *)
NaiveTheme(s, prefers) ==
    [container |-> IF Dark(s, prefers) THEN "1c1c1c" ELSE "ffffff",
     hover |-> [k \in ColorKey |-> getColorPalette(ThemeColors(s)[k], s.recommendColor)[500]],
     pressed |-> [k \in ColorKey |-> getColorPalette(ThemeColors(s)[k], s.recommendColor)[700]]]

(* The watches: that of the colours does not read recommendColor.          *)
Repaint(t, s, prefers) ==
    [t EXCEPT !.s = s, !.dark = Dark(s, prefers), !.filter = Filter(s),
              !.css = IF s.color # t.s.color \/ s.follow # t.s.follow THEN ThemeTokens(s) ELSE @]

(* The watch of darkMode stores a value that changed.                      *)
StoreDark(t, s, prefers) ==
    stg' = IF Dark(s, prefers) = t.dark THEN stg ELSE [stg EXCEPT !.darkMode = Dark(s, prefers)]

-----------------------------------------------------------------------------
(* A window is opened or reloaded: the loading screen comes first.         *)
SetupLoading(p) ==
    /\ Look /\ ~Active(p)
    /\ theme' = [theme EXCEPT ![p] = [at |-> "loading", build |-> build, dark |-> stg.darkMode]]
    /\ alone' = (alone /\ ~OthersActive(p))
    /\ UNCHANGED <<prod, os, build, stg, choice, seen>>

Overrides(p) == prod /\ stg.overrideThemeFlag # theme[p].build /\ Override[theme[p].build] # "none"

initThemeSettings(p) ==
    IF ~prod THEN themeSettings
    ELSE IF Overrides(p) THEN [stg.themeSettings EXCEPT !.scheme = Override[theme[p].build]]
    ELSE stg.themeSettings

(* History: the first start of a build that overrides the scheme.          *)
Begin(p) ==
    LET this == theme[p].build
        first == prod /\ this \notin seen /\ Override[this] # "none"
    IN  /\ choice' = IF first THEN Override[this] ELSE choice
        /\ alone' = (~OthersActive(p) /\ (alone \/ first))
        /\ seen' = {o \in seen : o <= this} \cup {this}

InitUnflagged(p) ==    \* mutant: the build's override is not noted as applied
    /\ theme[p].at = "loading"
    /\ LET s == initThemeSettings(p)
       IN  /\ theme' = [theme EXCEPT ![p] =
                           [at |-> "open", build |-> @.build, first |-> s, s |-> s,
                            dark |-> Dark(s, os), filter |-> Filter(s), css |-> ThemeTokens(s)]]
           /\ stg' = [stg EXCEPT !.darkMode = Dark(s, os)]
    /\ Begin(p) /\ UNCHANGED <<prod, os, build, looks>>

(* The theme store is made; its watches run at once.                       *)
InitThemeStore(p) ==
    /\ theme[p].at = "loading"
    /\ LET s == initThemeSettings(p)
       IN  /\ theme' = [theme EXCEPT ![p] =
                           [at |-> "open", build |-> @.build, first |-> s, s |-> s,
                            dark |-> Dark(s, os), filter |-> Filter(s), css |-> ThemeTokens(s)]]
           /\ stg' = [stg EXCEPT !.darkMode = Dark(s, os),
                                 !.overrideThemeFlag = IF prod THEN theme[p].build ELSE @]
    /\ Begin(p) /\ UNCHANGED <<prod, os, build, looks>>

(* The page is left: beforeunload, heard by the store once there is one.   *)
CacheThemeSettings(p) ==
    /\ Look /\ Active(p)
    /\ theme' = [theme EXCEPT ![p] = Gone]
    /\ stg' = IF prod /\ Opened(p) THEN [stg EXCEPT !.themeSettings = theme[p].s] ELSE stg
    /\ UNCHANGED <<prod, os, build, themeHistory>>

(* The browser ends, or drops the page, without it.                        *)
Kill(p) ==
    /\ Look /\ Opened(p)
    /\ theme' = [theme EXCEPT ![p] = Gone]
    /\ alone' = (alone /\ stg.themeSettings.scheme = choice)
    /\ UNCHANGED <<prod, os, build, stg, choice, seen>>

(* The system goes from day to night or back.                              *)
Prefer ==
    /\ Look /\ os' = IF os = "dark" THEN "light" ELSE "dark"
    /\ theme' = [p \in Browser |-> IF Opened(p) THEN Repaint(theme[p], theme[p].s, os') ELSE theme[p]]
    /\ stg' = IF \E p \in Browser : Opened(p) /\ theme[p].s.scheme = "auto"
              THEN [stg EXCEPT !.darkMode = os' = "dark"] ELSE stg
    /\ UNCHANGED <<prod, build, themeHistory>>

Deploy ==
    /\ Look /\ build + 1 \in Build
    /\ build' = build + 1
    /\ UNCHANGED <<prod, os, theme, stg, themeHistory>>

Change(p, s) ==
    /\ Look /\ Opened(p)
    /\ theme' = [theme EXCEPT ![p] = Repaint(@, s, os)]
    /\ StoreDark(theme[p], s, os)
    /\ choice' = s.scheme
    /\ alone' = IF s.scheme = theme[p].s.scheme THEN alone ELSE ~OthersActive(p)
    /\ UNCHANGED <<prod, os, build, seen>>

ToggleThemeScheme(p) ==    \* the button of the header and of the login page
    Opened(p) /\
    LET following == [light |-> "dark", dark |-> "auto", auto |-> "light"]
    IN  Change(p, [theme[p].s EXCEPT !.scheme = following[@]])

-----------------------------------------------------------------------------
(* The theme drawer.                                                       *)
Drawn(p) == ~prod /\ Opened(p)

SetThemeScheme(p, v) == Drawn(p) /\ Change(p, [theme[p].s EXCEPT !.scheme = v])
SetGrayscale(p) == Drawn(p) /\ Change(p, [theme[p].s EXCEPT !.grayscale = ~@])
SetColourWeakness(p) == Drawn(p) /\ Change(p, [theme[p].s EXCEPT !.colourWeakness = ~@])
SwitchRecommendColor(p) == Drawn(p) /\ Change(p, [theme[p].s EXCEPT !.recommendColor = ~@])
FollowPrimary(p) == Drawn(p) /\ Change(p, [theme[p].s EXCEPT !.follow = ~@])

UpdateThemeColors(p, k, c) ==
    /\ Drawn(p) /\ ~(k = "info" /\ theme[p].s.follow)
    /\ LET value == IF theme[p].s.recommendColor THEN getColorPalette(c, TRUE)[500] ELSE c
       IN  Change(p, [theme[p].s EXCEPT !.color[k] = value])

ResetTheme(p) == Drawn(p) /\ Change(p, theme[p].first)

ThemeInit ==
    /\ prod \in BOOLEAN /\ os \in {"light", "dark"} /\ build = 1
    /\ theme = [p \in Browser |-> Gone]
    /\ stg = [themeSettings |-> themeSettings, overrideThemeFlag |-> 0, darkMode |-> FALSE]
    /\ choice = themeSettings.scheme /\ alone = TRUE /\ seen = {} /\ looks = 0

ThemeNext ==
    \/ Prefer \/ Deploy
    \/ \E p \in Browser :
        \/ SetupLoading(p) \/ InitThemeStore(p) \/ CacheThemeSettings(p) \/ Kill(p)
        \/ ToggleThemeScheme(p)
        \/ \E v \in {"light", "dark", "auto"} : SetThemeScheme(p, v)
        \/ SetGrayscale(p) \/ SetColourWeakness(p) \/ SwitchRecommendColor(p) \/ FollowPrimary(p)
        \/ \E k \in ColorKey, c \in Color : UpdateThemeColors(p, k, c)
        \/ ResetTheme(p)

ThemeSpec == ThemeInit /\ [][ThemeNext]_themeVars
-----------------------------------------------------------------------------
ThemeTypeOK ==
    /\ os \in {"light", "dark"} /\ build \in Build /\ looks \in 0 .. MaxLooks
    /\ stg.overrideThemeFlag \in Build \cup {0} /\ choice \in {"light", "dark", "auto"}
    /\ \A p \in Browser : theme[p].at \in {"closed", "loading", "open"}

(* What the document shows agrees with the settings and the system: the    *)
(* container of the style sheet with the container the components get, as  *)
(* theme/shared.ts asks, the filter, the colours, and in production their  *)
(* shades.  In development the switch of recommended colours leaves the    *)
(* shades of the style sheet behind.                                       *)
Painted(p) ==
    LET t == theme[p]  components == NaiveTheme(t.s, os)
    IN  /\ ContainerToken(t.dark) = components.container
        /\ t.filter = Filter(t.s)
        /\ \E r \in BOOLEAN : t.css = ThemeTokens([t.s EXCEPT !.recommendColor = r])
        /\ prod => \A k \in ColorKey :
                       t.css[k][500] = components.hover[k] /\ t.css[k][700] = components.pressed[k]

(* theme/shared.ts: "if want to update theme settings when publish new     *)
(* version, please update overrideThemeSettings".  Through reloads, system *)
(* changes and new builds a user sees the scheme chosen last: a build      *)
(* overrides it once (again if a window of an older build starts after     *)
(* one of it), and a choice made after that is kept.  What another window  *)
(* left last, or a killed page had not yet cached, is not covered.         *)
ThemeKept ==
    \A p \in Browser :
        Opened(p) => Painted(p) /\ (prod /\ alone => theme[p].s.scheme = choice)
=============================================================================
