------------------------------- MODULE Table -------------------------------
(***************************************************************************)
(* The paged table of the administrator's users: useHookTable, useTable    *)
(* around it, and the page with its search form.  Requests overlap and     *)
(* are answered in any order, and every answer is shown when it comes.     *)
(* The search form asks for the list in an effect that depends on all      *)
(* search parameters, those that the pager has set included: turning a     *)
(* page asks twice.                                                        *)
(***************************************************************************)
EXTENDS Naturals, Sequences, SequencesExt, FiniteSets

CONSTANTS
    Users,       \* number of users there are at first
    PageSizes,   \* the sizes the pager offers
    FirstSize,   \* the size of useHookTable's own parameters
    MaxRequests, \* bound: requests under way
    MaxUses,     \* bound: uses of the page
    Column       \* the columns, by their keys

ASSUME TableAssumption ==
    /\ Users \in Nat \ {0} /\ MaxUses \in Nat
    /\ PageSizes \subseteq Nat \ {0} /\ FirstSize \in Nat \ {0}
    /\ MaxRequests \in Nat \ {0, 1}    \* the page asks twice when it is opened
    /\ Column \in Seq(ToSet(Column))

VARIABLES
    searchParams, \* page and size asked for next
    pagination,   \* what the pager shows
    rows,         \* the rows shown, by the page they are: number, size and how many
    loading,      \* the spinner
    requests,     \* requests under way
    users,        \* server: how many users there are
    columnChecks, \* the columns in their order, each checked or not
    uses

tableVars == <<searchParams, pagination, rows, loading, requests, users, columnChecks, uses>>
usersView == <<searchParams, pagination, rows, loading, requests, users>>

DefaultSize == 10    \* of the pager, and of an answer without data

Page(number, size, count) == [number |-> number, size |-> size, count |-> count]
Least(a, b) == IF a < b THEN a ELSE b

(* The server's page: no user is on a page past the last.                  *)
Served(p) ==
    LET before == (p.page - 1) * p.size
    IN  Page(p.page, p.size, IF before >= users THEN 0 ELSE Least(p.size, users - before))

Pages == IF pagination.itemCount = 0 THEN 1
         ELSE (pagination.itemCount + pagination.pageSize - 1) \div pagination.pageSize

(* getData up to its await, n times.                                       *)
GetData(n, params) ==
    /\ Len(requests) + n <= MaxRequests
    /\ requests' = requests \o [i \in 1 .. n |-> params]
    /\ loading' = TRUE

Use == uses < MaxUses /\ uses' = uses + 1

(* The rest of getData: transformer, data, onFetched and endLoading.  An   *)
(* answer without data counts as the first page of none.                   *)
ShowAsAsked(page, total) ==    \* mutant: the pager follows what was asked for last
    /\ rows' = page
    /\ pagination' = [page |-> searchParams.page, pageSize |-> searchParams.size, itemCount |-> total]

Show(page, total) ==
    /\ rows' = page
    /\ pagination' = [page |-> page.number, pageSize |-> page.size, itemCount |-> total]

Answered(i) ==
    /\ i \in DOMAIN requests
    /\ requests' = RemoveAt(requests, i)
    /\ loading' = FALSE
    /\ Show(Served(requests[i]), users) \/ Show(Page(1, DefaultSize, 0), 0)
    /\ UNCHANGED <<searchParams, users, columnChecks, uses>>

(* onUpdatePage and onUpdatePageSize, and the effect of the search form.   *)
OnUpdatePage(page) ==
    /\ Use /\ page \in 1 .. Pages /\ page # pagination.page
    /\ pagination' = [pagination EXCEPT !.page = page]
    /\ searchParams' = [page |-> page, size |-> pagination.pageSize]
    /\ GetData(IF searchParams' = searchParams THEN 1 ELSE 2, searchParams')
    /\ UNCHANGED <<rows, users, columnChecks>>

OnUpdatePageSize(size) ==
    /\ Use /\ size # pagination.pageSize
    /\ pagination' = [pagination EXCEPT !.pageSize = size, !.page = 1]
    /\ searchParams' = [page |-> 1, size |-> size]
    /\ GetData(IF searchParams' = searchParams THEN 1 ELSE 2, searchParams')
    /\ UNCHANGED <<rows, users, columnChecks>>

(* Refresh, a user created, and a word typed in the search form: the       *)
(* server knows no filter, and the page stays the one it was.              *)
ReloadList ==
    /\ Use
    /\ \/ UNCHANGED users
       \/ users' = users + 1    \* a user has been created
    /\ GetData(1, searchParams)
    /\ UNCHANGED <<searchParams, pagination, rows, columnChecks>>

(* handleDelete: asks for the list once the user has been deleted.         *)
DeleteUser ==
    /\ Use /\ rows.count > 0 /\ users > 0
    /\ users' = users - 1
    /\ GetData(1, searchParams)
    /\ UNCHANGED <<searchParams, pagination, rows, columnChecks>>

(* The column setting: a column is shown or hidden, or dragged to another  *)
(* place.  reloadColumns, on a change of the language, puts the columns in *)
(* their first order and keeps what is hidden.                             *)
Check(i) ==
    /\ Use /\ columnChecks' = [columnChecks EXCEPT ![i].checked = ~@]
    /\ UNCHANGED usersView

Drag(i, j) ==
    /\ Use /\ i # j
    /\ columnChecks' = InsertAt(RemoveAt(columnChecks, i), j, columnChecks[i])
    /\ UNCHANGED usersView

Checked(key) == \E i \in DOMAIN columnChecks : columnChecks[i] = [key |-> key, checked |-> TRUE]

ReloadColumns ==
    /\ Use
    /\ columnChecks' = [i \in DOMAIN Column |-> [key |-> Column[i], checked |-> Checked(Column[i])]]
    /\ UNCHANGED usersView

TableInit ==
    /\ searchParams = [page |-> 1, size |-> FirstSize]
    /\ pagination = [page |-> 1, pageSize |-> DefaultSize, itemCount |-> 0]
    /\ rows = Page(1, FirstSize, 0)
    /\ requests = <<searchParams, searchParams>> /\ loading = TRUE
    /\ users = Users
    /\ columnChecks = [i \in DOMAIN Column |-> [key |-> Column[i], checked |-> TRUE]]
    /\ uses = 0

TableNext ==
    \/ \E i \in 1 .. MaxRequests : Answered(i)
    \/ \E page \in 1 .. Users : OnUpdatePage(page)
    \/ \E size \in PageSizes : OnUpdatePageSize(size)
    \/ ReloadList \/ DeleteUser \/ ReloadColumns
    \/ \E i, j \in DOMAIN Column : Check(i) \/ Drag(i, j)

TableSpec == TableInit /\ [][TableNext]_tableVars
----------------------------------------------------------------------------
TableTypeOK ==
    /\ searchParams.page \in 1 .. Users + MaxUses /\ searchParams.size \in PageSizes \cup {FirstSize, DefaultSize}
    /\ pagination.pageSize \in PageSizes \cup {FirstSize, DefaultSize}
    /\ rows.count <= rows.size /\ Len(requests) <= MaxRequests
    /\ ToSet([i \in DOMAIN columnChecks |-> columnChecks[i].key]) = ToSet(Column)
    /\ Len(columnChecks) = Len(Column)

(* useTable, onFetched: whenever no spinner is shown, the pager shows the  *)
(* page and the size of the rows that are there, whichever of several      *)
(* overlapping answers, failed ones among them, came last.                 *)
RowsMatchPager ==
    ~loading => pagination.page = rows.number /\ pagination.pageSize = rows.size
=============================================================================
