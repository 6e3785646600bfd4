----------------------------- MODULE RouteTree -----------------------------
(***************************************************************************)
(* What the route store computes from a forest of routes: the routes of a  *)
(* role, the menus, the entries of the menu search, the path of a menu,    *)
(* the breadcrumbs of a page and the two levels of routes the router gets. *)
(* A route is a number; a forest says which route is above which, which    *)
(* are restricted to administrators, hidden in the menu, or sorted last.   *)
(***************************************************************************)
EXTENDS Naturals, Sequences, SequencesExt, FiniteSets

CONSTANT Route    \* the routes of a forest: 1 .. n, each below a smaller one or at the top

VARIABLES forest, role

routeTreeVars == <<forest, role>>

Forests ==
    {f \in [above : [Route -> {0} \cup Route], restricted : SUBSET Route,
            hidden : SUBSET Route, last : {{}} \cup {{n} : n \in Route}] :
        \A n \in Route : f.above[n] < n}

Present(result) == result # <<>>

(* sortRoutesByOrder is stable.                                            *)
SortByOrder(s) ==
    SelectSeq(s, LAMBDA n : n \notin forest.last) \o SelectSeq(s, LAMBDA n : n \in forest.last)

InOrder0 == SetToSortSeq(Route, LAMBDA m, n : m < n)

Children(n) == SortByOrder(SelectSeq(InOrder0, LAMBDA m : forest.above[m] = n))

(* filterAuthRouteByRoles, of one route: whether anything is left of it.   *)
PassesByItself ==    \* mutant: a route is kept though none of its children is
    [n \in Route |-> n \notin forest.restricted]

Passes ==
    LET p[n \in Route] == /\ n \notin forest.restricted
                          /\ Children(n) # <<>> => \E m \in ToSet(Children(n)) : p[m]
    IN  p

FilterAuthRoutes ==
    LET kept[n \in Route] == Passes[n] /\ (forest.above[n] # 0 => kept[forest.above[n]])
    IN  {n \in Route : kept[n]}

(* initStaticAuthRoute: an administrator gets all.                         *)
AuthRoutes == IF role = "ADMIN" THEN Route ELSE FilterAuthRoutes

RouteKids(n) == SelectSeq(Children(n), LAMBDA m : m \in AuthRoutes)

(* getGlobalMenusByAuthRoutes.                                             *)
MenuKids(n) == SelectSeq(RouteKids(n), LAMBDA m : m \notin forest.hidden)

(* transformMenuToSearchMenus: the menus without children.                 *)
SearchMenus ==
    LET leaves[n \in {0} \cup Route] ==
            IF MenuKids(n) = <<>> THEN <<n>>
            ELSE FlattenSeq([i \in DOMAIN MenuKids(n) |-> leaves[MenuKids(n)[i]]])
    IN  IF MenuKids(0) = <<>> THEN <<>> ELSE leaves[0]

(* getSelectedMenuKeyPathByKey and findMenuPath.                           *)
MenuKeyPath(key) ==
    LET path[n \in {0} \cup Route] ==
            IF n = key THEN <<n>>
            ELSE LET found == SelectSeq([i \in DOMAIN MenuKids(n) |-> path[MenuKids(n)[i]]], Present)
                 IN  IF found = <<>> THEN <<>>
                     ELSE IF n = 0 THEN found[1] ELSE <<n>> \o found[1]
    IN  path[0]

(* getBreadcrumbsByRoute, of a page whose meta names the menu activeMenu,  *)
(* or none (0).                                                            *)
Breadcrumbs(key, activeMenu) ==
    LET crumbs[n \in {0} \cup Route] ==
            IF n = key THEN <<n>>
            ELSE IF n = activeMenu /\ n # 0
            THEN IF forest.above[key] = n THEN <<n, key>> ELSE <<key>>
            ELSE LET found == SelectSeq([i \in DOMAIN MenuKids(n) |-> crumbs[MenuKids(n)[i]]], Present)
                 IN  IF found = <<>> THEN <<>>
                     ELSE IF n = 0 THEN found[1] ELSE <<n>> \o found[1]
    IN  crumbs[0]

(* transformElegantRouteToVueRoute: a route at the top that has children   *)
(* holds all routes below it; one that has none is the only child of its   *)
(* layout, which has no name (0).                                          *)
VueRoutes ==
    LET flat[n \in Route] ==
            <<n>> \o FlattenSeq([i \in DOMAIN RouteKids(n) |-> flat[RouteKids(n)[i]]])
        tops == RouteKids(0)
    IN  [i \in DOMAIN tops |->
            IF RouteKids(tops[i]) = <<>> THEN [name |-> 0, children |-> <<tops[i]>>]
            ELSE [name |-> tops[i], children |-> Tail(flat[tops[i]])]]

RouteTreeInit == forest \in Forests /\ role = "USER"

(* Another user logs in.                                                   *)
RouteTreeNext == role' \in {"USER", "ADMIN"} /\ UNCHANGED forest

RouteTreeSpec == RouteTreeInit /\ [][RouteTreeNext]_routeTreeVars
----------------------------------------------------------------------------
(* What these should be, said without following the tree.                  *)
Chain(n) == {m \in Route : \E k \in 0 .. Cardinality(Route) :
                LET up[i \in 0 .. k] == IF i = 0 THEN n
                                        ELSE IF up[i - 1] = 0 THEN 0 ELSE forest.above[up[i - 1]]
                IN  up[k] = m}
WayTo(n) == SetToSortSeq(Chain(n), LAMBDA a, b : a < b)
Leaf(n) == \A m \in Route : forest.above[m] # n
Granted(n) == role = "ADMIN" \/ Chain(n) \cap forest.restricted = {}
Visible(n) == Granted(n) /\ n \in AuthRoutes /\ Chain(n) \cap forest.hidden = {}

RolesRespected ==
    AuthRoutes = UNION {Chain(n) : n \in {m \in Route : Leaf(m) /\ Granted(m)}}

SearchComplete ==
    /\ IsInjective(SearchMenus)
    /\ ToSet(SearchMenus) = {n \in Route : Visible(n) /\ \A m \in Route :
                                               forest.above[m] = n => ~Visible(m)}

PathsLead ==
    \A n \in Route :
        /\ MenuKeyPath(n) = (IF Visible(n) THEN WayTo(n) ELSE <<>>)
        /\ Visible(n) => Breadcrumbs(n, 0) = MenuKeyPath(n)
        /\ n \in forest.hidden /\ forest.above[n] # 0 /\ Visible(forest.above[n]) =>
               Breadcrumbs(n, forest.above[n]) = WayTo(n)

TwoLevels ==
    LET names == FlattenSeq([i \in DOMAIN VueRoutes |-> VueRoutes[i].children])
                 \o SelectSeq([i \in DOMAIN VueRoutes |-> VueRoutes[i].name], LAMBDA n : n # 0)
    IN  IsInjective(names) /\ ToSet(names) = AuthRoutes

(* shared.ts of the route store, transform.ts: over every forest, a role   *)
(* gets exactly the branches that lead to a page it may open; the search   *)
(* finds each of these pages that is shown in the menu once, and no other; *)
(* the menu path and the breadcrumbs of a page are the way to it; and the  *)
(* router gets every route of the role once, in two levels.                *)
RoutesAgree == RolesRespected /\ SearchComplete /\ PathsLead /\ TwoLevels
=============================================================================
