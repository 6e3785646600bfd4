------------------------- MODULE FrontendTypeProofs -------------------------
(***************************************************************************)
(* Type correctness of the browser application, part by part, and of the   *)
(* composition.  A part's types are an invariant together with what its    *)
(* theorems in FrontendProofs rest on, and mostly say more than its type   *)
(* invariant: what refers to a chunk, a tab, a tag or a navigation refers  *)
(* to one of the file, the account, the tree or the router it belongs to.  *)
(***************************************************************************)
EXTENDS FrontendProofs, Frontend

-----------------------------------------------------------------------------
(* Types of the tag pages: what dialogs and saves hold are tags, users and *)
(* places in the tree.                                                     *)
Place == Tag \cup {Top}
TagDialog ==
    {Closed} \cup [open : {TRUE}, kind : {"add", "addChild", "edit"}, tag : SharedTag, parent : Place]
UserDialog ==
    {Closed} \cup [open : {TRUE}, user : Person, picked : SUBSET Tag, private : SUBSET Tag]
Saving ==
    [kind : {"add", "addChild", "edit"}, tag : SharedTag, parent : Place]
    \cup [kind : {"assign"}, user : Person, tags : SUBSET Tag, showed : BOOLEAN]
    \cup [kind : {"primary"}, user : Person, tag : Tag]
    \cup [kind : {"privateTag"}, user : Person]
    \cup [kind : {"row"}, by : {"assign", "primary", "register"}, user : Person, tags : SUBSET Tag,
          primary : Tag \cup {Absent}, showed : BOOLEAN]

TagsTyped ==
    /\ OrgTagsTypeOK
    /\ tagDialog \in TagDialog /\ userDialog \in UserDialog /\ \A s \in saves : s \in Saving
    /\ \A s \in saves : s.kind = "row" /\ s.by = "register" => s.user \in Registered

LEMMA TagsTypedInit == OrgTagsInit => TagsTyped
  BY OrgTagsAssumption
     DEF OrgTagsInit, TagsTyped, OrgTagsTypeOK, Tag, PrivateTags, TagDialog, UserDialog, Closed,
         Saving

LEMMA DialogKinds ==
    /\ ~Closed.open
    /\ \A d \in TagDialog : d.open => d # Closed
    /\ \A d \in UserDialog : d.open => d # Closed
  BY DEF Closed

LEMMA SavingKinds ==
    ASSUME NEW s \in Saving
    PROVE  /\ s.kind \in {"add", "addChild", "edit"} => s.tag \in SharedTag /\ s.parent \in Place
           /\ s.kind = "assign" => s.user \in Person /\ s.tags \in SUBSET Tag /\ s.showed \in BOOLEAN
           /\ s.kind = "primary" => s.user \in Person /\ s.tag \in Tag
           /\ s.kind = "privateTag" => s.user \in Person
           /\ s.kind = "row" => /\ s.user \in Person /\ s.tags \in SUBSET Tag
                               /\ s.primary \in Tag \cup {Absent}
  BY DEF Saving

LEMMA RowTyped ==
    ASSUME NEW by \in {"assign", "primary", "register"}, NEW u \in Person, NEW held \in SUBSET Tag,
           NEW primary \in Tag \cup {Absent}, NEW showed \in BOOLEAN
    PROVE  /\ Row(by, u, held, primary, showed) \in Saving
           /\ Row(by, u, held, primary, showed).by = by
           /\ Row(by, u, held, primary, showed).user = u
  BY DEF Row, Saving

LEMMA ChoiceTyped ==
    ASSUME NEW u \in Person, NEW held \in SUBSET Tag, NEW tag \in Tag
    PROVE  Row("primary", u, held, tag, Private[u] \in held) \in Saving
  <1>1. CASE Private[u] \in held
    <2>1. (Private[u] \in held) = TRUE
      BY <1>1
    <2> QED
      BY <2>1 DEF Row, Saving
  <1>2. CASE Private[u] \notin held
    <2>1. (Private[u] \in held) = FALSE
      BY <1>2
    <2> QED
      BY <2>1 DEF Row, Saving
  <1> QED
    BY <1>1, <1>2

(* One request is replaced by another one, or ends.                        *)
LEMMA RequestMovedOn ==
    ASSUME TagsTyped, NEW s \in saves, NEW new \in Saving,
           new.kind = "row" /\ new.by = "register" => new.user \in Registered,
           saves' = (saves \ {s}) \cup {new} \/ saves' = saves \ {s},
           parent' \in [Tag -> Tag \cup {Top, Absent}],
           UNCHANGED <<userTable, tagPages, tagDialogs, edits>>
    PROVE  TagsTyped'
  BY DEF TagsTyped, OrgTagsTypeOK, userTable, tagPages, tagDialogs

LEMMA TagsTypedStep == TagsTyped /\ [OrgTagsNext]_orgTagsVars => TagsTyped'
  <1> SUFFICES ASSUME TagsTyped, [OrgTagsNext]_orgTagsVars PROVE TagsTyped'
    OBVIOUS
  <1> USE OrgTagsAssumption
  <1>1. CASE UNCHANGED orgTagsVars
    BY <1>1 DEF TagsTyped, OrgTagsTypeOK, orgTagsVars, tagTables, userTable, tagPages, tagDialogs, Exists
  <1>2. CASE LoadTree
    BY <1>2 DEF TagsTyped, OrgTagsTypeOK, LoadTree, InTree, tagTables, userTable, tagDialogs
  <1>3. CASE LoadUsers
    <2>1. PICK loaded \in [Person -> SUBSET Tag] : userRows' = loaded
      BY <1>3 DEF LoadUsers
    <2> QED
      BY <1>3, <2>1 DEF TagsTyped, OrgTagsTypeOK, LoadUsers, tagTables, userTable, tagDialogs
  <1>4. CASE OpenTagDialog
    BY <1>4 DEF TagsTyped, OrgTagsTypeOK, OpenTagDialog, Edit, tagTables, userTable, tagPages, TagDialog, Place
  <1>5. CASE SubmitTag
    <2> DEFINE new == [kind |-> tagDialog.kind, tag |-> tagDialog.tag,
                       parent |-> tagDialog.parent]
    <2>1. tagDialog \in [open : {TRUE}, kind : {"add", "addChild", "edit"}, tag : SharedTag,
                         parent : Place]
      BY <1>5, DialogKinds DEF TagsTyped, SubmitTag, TagDialog
    <2>2. new \in Saving /\ new.kind # "row"
      BY <2>1 DEF Saving
    <2>3. saves' = saves \cup {new}
      BY <1>5 DEF SubmitTag
    <2> HIDE DEF new
    <2> QED
      BY <1>5, <2>2, <2>3 DEF TagsTyped, OrgTagsTypeOK, SubmitTag, tagTables, userTable, tagPages, tagDialogs
  <1>6. CASE CancelTag \/ CancelUserTags
    BY <1>6 DEF TagsTyped, OrgTagsTypeOK, CancelTag, CancelUserTags, tagTables, userTable, tagPages, TagDialog,
                UserDialog
  <1>7. CASE PickTags
    <2>1. userDialog \in [open : {TRUE}, user : Person, picked : SUBSET Tag, private : SUBSET Tag]
      BY <1>7, DialogKinds DEF TagsTyped, PickTags, UserDialog
    <2>2. PICK T \in SUBSET ((treeData \ PrivateTags) \cup userDialog.picked) :
              userDialog' = [userDialog EXCEPT !.picked = T]
      BY <1>7 DEF PickTags
    <2>3. T \in SUBSET Tag
      BY <2>1 DEF TagsTyped, OrgTagsTypeOK
    <2>4. userDialog' \in UserDialog
      BY <2>1, <2>2, <2>3 DEF UserDialog
    <2> QED
      BY <1>7, <2>4 DEF TagsTyped, OrgTagsTypeOK, PickTags, tagTables, userTable, tagPages
  <1>8. CASE SubmitUserTags
    <2> DEFINE new == Assignment(userDialog.picked \cup userDialog.private)
    <2>1. userDialog \in [open : {TRUE}, user : Person, picked : SUBSET Tag, private : SUBSET Tag]
      BY <1>8, DialogKinds DEF TagsTyped, SubmitUserTags, UserDialog
    <2>2. new \in Saving /\ new.kind = "assign"
      BY <2>1 DEF Saving, Assignment
    <2>3. saves' = saves \cup {new}
      BY <1>8 DEF SubmitUserTags
    <2> HIDE DEF new
    <2> QED
      BY <1>8, <2>2, <2>3
         DEF TagsTyped, OrgTagsTypeOK, SubmitUserTags, tagTables, userTable, tagPages, tagDialogs
  <1>9. ASSUME NEW t \in Tag, DeleteTag(t) PROVE TagsTyped'
    <2>1. parent' \in [Tag -> Tag \cup {Top, Absent}]
      BY <1>9 DEF TagsTyped, OrgTagsTypeOK, DeleteTag
    <2> QED
      BY <1>9, <2>1 DEF TagsTyped, OrgTagsTypeOK, DeleteTag, Edit, userTable, tagPages, tagDialogs
  <1>10. ASSUME NEW u \in Person, OpenUserDialog(u) PROVE TagsTyped'
    BY <1>10 DEF TagsTyped, OrgTagsTypeOK, OpenUserDialog, Edit, tagTables, userTable, tagPages, UserDialog,
                 PrivateTags
  <1>11. ASSUME NEW u \in Person, LoadMine(u) PROVE TagsTyped'
    <2>1. PICK listed \in Details(u) : mine' = [mine EXCEPT ![u] = listed]
      BY <1>11 DEF LoadMine
    <2>2. listed \in SUBSET Tag
      BY DEF Details, TagsTyped, OrgTagsTypeOK
    <2> QED
      BY <1>11, <2>1, <2>2 DEF TagsTyped, OrgTagsTypeOK, LoadMine, tagTables, userTable, tagDialogs
  <1>12. ASSUME NEW u \in Person, SetPrimary(u) PROVE TagsTyped'
    <2>1. \A t \in mine[u] : [kind |-> "primary", user |-> u, tag |-> t] \in Saving
      BY DEF TagsTyped, OrgTagsTypeOK, Saving
    <2> QED
      BY <1>12, <2>1 DEF TagsTyped, OrgTagsTypeOK, SetPrimary, Edit, tagTables, userTable, tagPages, tagDialogs
  <1>13. ASSUME NEW s \in saves, SaveTag(s) PROVE TagsTyped'
    <2>1. s.tag \in SharedTag /\ s.parent \in Place
      BY <1>13, SavingKinds DEF TagsTyped, SaveTag
    <2>2. parent' \in [Tag -> Tag \cup {Top, Absent}]
      BY <1>13, <2>1 DEF TagsTyped, OrgTagsTypeOK, SaveTag, Place
    <2>3. tagDialog' \in TagDialog
      BY <1>13 DEF TagsTyped, SaveTag, TagDialog
    <2> QED
      BY <1>13, <2>2, <2>3 DEF TagsTyped, OrgTagsTypeOK, SaveTag, userTable, tagPages
  <1>14. ASSUME NEW s \in saves, AssignTags(s) PROVE TagsTyped'
    <2> DEFINE new == Row("assign", s.user, s.tags, primaryOrg[s.user], s.showed)
    <2>1. s.user \in Person /\ s.tags \in SUBSET Tag /\ s.showed \in BOOLEAN
      BY <1>14, SavingKinds DEF TagsTyped, AssignTags
    <2>2. primaryOrg[s.user] \in Tag \cup {Absent}
      BY <2>1 DEF TagsTyped, OrgTagsTypeOK
    <2>3. new \in Saving /\ new.by = "assign"
      BY <2>1, <2>2, RowTyped
    <2>4. saves' = (saves \ {s}) \cup {new} \/ saves' = saves \ {s}
      BY <1>14 DEF AssignTags
    <2>5. /\ UNCHANGED <<userTable, tagPages, tagDialogs, edits>>
          /\ parent' \in [Tag -> Tag \cup {Top, Absent}]
      BY <1>14 DEF AssignTags, tagTables, TagsTyped, OrgTagsTypeOK
    <2> HIDE DEF new
    <2> QED
      BY <2>3, <2>4, <2>5, RequestMovedOn
  <1>15. ASSUME NEW s \in saves, SavePrimary(s) PROVE TagsTyped'
    <2> DEFINE held == orgTags[s.user]
    <2> DEFINE new == Row("primary", s.user, held, s.tag, Private[s.user] \in held)
    <2>1. s.user \in Person /\ s.tag \in Tag
      BY <1>15, SavingKinds DEF TagsTyped, SavePrimary
    <2>2. held \in SUBSET Tag
      BY <2>1 DEF TagsTyped, OrgTagsTypeOK
    <2>3. new \in Saving /\ new.by = "primary"
      <3>1. new.by = "primary"
        BY DEF Row
      <3> QED
        BY <2>1, <2>2, <3>1, ChoiceTyped
    <2>4. saves' = (saves \ {s}) \cup {new} \/ saves' = saves \ {s}
      BY <1>15 DEF SavePrimary
    <2>5. /\ UNCHANGED <<userTable, tagPages, tagDialogs, edits>>
          /\ parent' \in [Tag -> Tag \cup {Top, Absent}]
      BY <1>15 DEF SavePrimary, tagTables, TagsTyped, OrgTagsTypeOK
    <2> HIDE DEF new
    <2> QED
      BY <2>3, <2>4, <2>5, RequestMovedOn
  <1>16. ASSUME NEW s \in saves, CreatePrivateTag(s) PROVE TagsTyped'
    <2> DEFINE tag == Private[s.user]
    <2> DEFINE new == Row("register", s.user, {tag}, tag, TRUE)
    <2>1. s.user \in Person
      BY <1>16, SavingKinds DEF TagsTyped, CreatePrivateTag
    <2>2. tag \in Tag
      BY <2>1 DEF Tag, PrivateTags
    <2>3. new \in Saving /\ new.user = s.user
      <3> HIDE DEF tag
      <3> QED
        BY <2>1, <2>2 DEF Row, Saving
    <2>4. parent' \in [Tag -> Tag \cup {Top, Absent}]
      BY <1>16, <2>2 DEF CreatePrivateTag, TagsTyped, OrgTagsTypeOK
    <2>5. \/ s.user \in Registered /\ saves' = (saves \ {s}) \cup {new}
          \/ saves' = saves \ {s}
      <3>1. CASE saves' = saves \ {s}
        BY <3>1
      <3>2. CASE saves' = (saves \ {s}) \cup
                    {Row("register", u, {tag}, tag, TRUE) : u \in {s.user} \cap Registered}
        <4>1. CASE s.user \in Registered
          <5>1. {s.user} \cap Registered = {s.user}
            BY <4>1
          <5> QED
            BY <3>2, <4>1, <5>1
        <4>2. CASE s.user \notin Registered
          BY <3>2, <4>2
        <4> QED
          BY <4>1, <4>2
      <3> QED
        BY <1>16, <3>1, <3>2 DEF CreatePrivateTag
    <2>6. UNCHANGED <<userTable, tagPages, tagDialogs, edits>>
      BY <1>16 DEF CreatePrivateTag
    <2> HIDE DEF new
    <2>7. CASE s.user \in Registered
      BY <2>3, <2>4, <2>5, <2>6, <2>7, RequestMovedOn
    <2>8. CASE saves' = saves \ {s}
      BY <2>4, <2>6, <2>8 DEF TagsTyped, OrgTagsTypeOK, userTable, tagPages, tagDialogs
    <2> QED
      BY <2>5, <2>7, <2>8
  <1>17. ASSUME NEW s \in saves, SaveRow(s) PROVE TagsTyped'
    <2>1. /\ s.user \in Person /\ s.tags \in SUBSET Tag /\ s.primary \in Tag \cup {Absent}
          /\ s.by = "register" => s.user \in Registered
      BY <1>17, SavingKinds DEF TagsTyped, SaveRow
    <2>2. userDialog' \in UserDialog
      BY <1>17 DEF TagsTyped, SaveRow, UserDialog
    <2>3. /\ orgTags' \in [Person -> SUBSET Tag]
          /\ primaryOrg' \in [Person -> Tag \cup {Absent}]
          /\ tagged' \subseteq Registered /\ unshown' \subseteq Person
      BY <1>17, <2>1 DEF SaveRow, userTable, TagsTyped, OrgTagsTypeOK
    <2>4. saves' \subseteq saves /\ UNCHANGED <<parent, tagPages, tagDialog, edits>>
      BY <1>17 DEF SaveRow
    <2> QED
      BY <2>2, <2>3, <2>4 DEF TagsTyped, OrgTagsTypeOK, tagPages
  <1> QED
    BY <1>1, <1>2, <1>3, <1>4, <1>5, <1>6, <1>7, <1>8, <1>9, <1>10, <1>11, <1>12, <1>13, <1>14, <1>15,
       <1>16, <1>17 DEF OrgTagsNext

-----------------------------------------------------------------------------
(* Types of the layout: the invariant of the layout has them but for the   *)
(* number of events.                                                       *)
LayoutTyped == LayoutInv /\ resizes \in 0 .. MaxResizes

LEMMA LayoutTypedStep == LayoutTyped /\ [LayoutNext]_layoutVars => LayoutTyped'
  <1> SUFFICES ASSUME LayoutTyped, [LayoutNext]_layoutVars PROVE LayoutTyped'
    OBVIOUS
  <1>1. resizes' = resizes \/ (resizes < MaxResizes /\ resizes' = resizes + 1)
    BY DEF LayoutNext, layoutVars, Narrow, Widen, Restore, ReloadWindow, SetThemeLayout,
           SetLayoutReverse, SetTabVisible, ResetConfig, ToggleSider, ClickMask, ToggleFullContent,
           Drawer, Event
  <1> QED
    BY <1>1, LayoutStep, LayoutAssumption DEF LayoutTyped

LEMMA LayoutTypedOK == LayoutTyped => LayoutTypeOK
  BY DEF LayoutTyped, LayoutInv, LayoutTypeOK, Fitted, Screen, None

LEMMA LayoutTypedInit == LayoutInit => LayoutTyped
  BY LayoutStarts, LayoutAssumption DEF LayoutInit, LayoutTyped

-----------------------------------------------------------------------------
(* Types of the login page.                                                *)
AccountsTyped == RegistrationInv /\ IsFiniteSet(submits) /\ AccountTypeOK

LEMMA SubmissionsCounted ==
    ASSUME IsFiniteSet(submits), NEW r \in submits, NEW q,
           submits' = (submits \ {r}) \cup {q} \/ submits' = submits \ {r}
    PROVE  IsFiniteSet(submits') /\ Cardinality(submits') <= Cardinality(submits)
  <1>1. IsFiniteSet(submits \ {r}) /\ Cardinality(submits \ {r}) = Cardinality(submits) - 1
    BY FS_RemoveElement
  <1>2. Cardinality(submits) \in Nat /\ Cardinality(submits \ {r}) \in Nat
    BY <1>1, FS_CardinalityType
  <1>3. /\ IsFiniteSet((submits \ {r}) \cup {q})
        /\ Cardinality((submits \ {r}) \cup {q}) \in {Cardinality(submits \ {r}),
                                                     Cardinality(submits \ {r}) + 1}
    BY <1>1, FS_AddElement
  <1>4. CASE submits' = submits \ {r}
    BY <1>1, <1>2, <1>4
  <1>5. CASE submits' = (submits \ {r}) \cup {q}
    <2>1. Cardinality((submits \ {r}) \cup {q}) <= Cardinality(submits)
      BY <1>1, <1>2, <1>3
    <2> QED
      BY <1>3, <1>5, <2>1
  <1> QED
    BY <1>4, <1>5

LEMMA AccountsTypedInit == AccountInit => AccountsTyped
  BY RegistrationInit, AccountsAssumption, FS_EmptySet
     DEF AccountInit, AccountsTyped, AccountTypeOK, Modules

LEMMA AccountsTypedStep == AccountsTyped /\ [AccountNext]_accountVars => AccountsTyped'
  <1> SUFFICES ASSUME AccountsTyped, [AccountNext]_accountVars PROVE AccountsTyped'
    OBVIOUS
  <1>0. RegistrationInv'
    BY RegistrationStep DEF AccountsTyped
  <1>a. Cardinality(submits) \in Nat /\ submitted \in Nat /\ fills \in 0 .. MaxFills
    BY FS_CardinalityType DEF AccountsTyped, RegistrationInv, AccountTypeOK
  <1>b. \A r \in submits : r.name \in Name
    BY DEF AccountsTyped, RegistrationInv, Submission
  <1>1. at' \in Modules \cup {"home", "other"} /\ captcha' \in {"none", "sent", "counting"}
    BY DEF AccountNext, accountVars, serverAccounts, Fill, ToggleLoginModule, Mount, SubmitRegister, LogIn,
           GetCaptcha, CaptchaTimer, FindUser, CreateUser, CreateTag, AssignTag, StatementFails,
           Serving, RegisterReply, AccountsTyped, AccountTypeOK, Modules
  <1>2. fills' \in 0 .. MaxFills
    <2>1. fills' = fills \/ (fills < MaxFills /\ fills' = fills + 1)
      BY DEF AccountNext, accountVars, Fill, ToggleLoginModule, SubmitRegister, LogIn, GetCaptcha,
             CaptchaTimer, FindUser, CreateUser, CreateTag, AssignTag, StatementFails, Serving,
             RegisterReply
    <2> QED
      BY <1>a, <2>1, AccountsAssumption
  <1>3. tags' \subseteq Name
    <2>1. UNCHANGED tags \/ \E r \in submits : tags' = tags \cup {r.name}
      BY DEF AccountNext, accountVars, serverAccounts, Fill, ToggleLoginModule, SubmitRegister, LogIn,
             GetCaptcha, CaptchaTimer, FindUser, CreateUser, CreateTag, AssignTag, StatementFails,
             RegisterReply
    <2> QED
      BY <1>b, <2>1 DEF AccountsTyped, AccountTypeOK
  <1>4. IsFiniteSet(submits') /\ Cardinality(submits') <= submitted'
    <2>1. CASE UNCHANGED <<submits, submitted>>
      BY <2>1 DEF AccountsTyped, AccountTypeOK
    <2>2. CASE SubmitRegister
      <3>1. PICK q : submits' = submits \cup {q} /\ submitted' = submitted + 1
        BY <2>2 DEF SubmitRegister
      <3>2. /\ IsFiniteSet(submits \cup {q})
            /\ Cardinality(submits \cup {q}) \in {Cardinality(submits), Cardinality(submits) + 1}
        BY FS_AddElement DEF AccountsTyped
      <3> QED
        BY <1>a, <3>1, <3>2 DEF AccountsTyped, AccountTypeOK
    <2>3. CASE /\ UNCHANGED submitted
               /\ \E r \in submits :
                     \/ submits' = submits \ {r}
                     \/ \E q : submits' = (submits \ {r}) \cup {q}
      <3>1. IsFiniteSet(submits') /\ Cardinality(submits') <= Cardinality(submits)
        BY <2>3, SubmissionsCounted DEF AccountsTyped
      <3>2. Cardinality(submits') \in Nat
        BY <3>1, FS_CardinalityType
      <3> QED
        BY <1>a, <2>3, <3>1, <3>2 DEF AccountsTyped, AccountTypeOK
    <2> QED
      BY <2>1, <2>2, <2>3
         DEF AccountNext, accountVars, Fill, ToggleLoginModule, LogIn, GetCaptcha, CaptchaTimer, FindUser,
             CreateUser, CreateTag, AssignTag, StatementFails, Serving, To, RegisterReply
  <1> QED
    BY <1>0, <1>1, <1>2, <1>3, <1>4 DEF AccountsTyped, AccountTypeOK

-----------------------------------------------------------------------------
(* Types of the request layer.                                             *)
RequestsTyped ==
    /\ calls \in [Call -> [at : {"idle", "sent", "waits", "data", "error"},
                          token : 0 .. MaxToken, on : 0 .. MaxRefresh]]
    /\ bearer \in 0 .. issued /\ renewal \in 0 .. issued
    /\ issued \in 1 .. MaxToken /\ expired \in SUBSET (1 .. MaxToken - 1)
    /\ refreshes \in [Refresh -> [at : {"none", "sent", "ok", "fail"}, token : 0 .. MaxToken]]
    /\ refreshFn \in 0 .. MaxRefresh /\ timers \in 0 .. Cardinality(Call)
    /\ dialog \in BOOLEAN

LEMMA RequestsTypedOK == RequestsTyped => RequestsTypeOK
  BY DEF RequestsTyped, RequestsTypeOK

LEMMA RequestsTypedInit == RequestsInit => RequestsTyped
  <1>1. Cardinality(Call) \in Nat
    BY RequestsAssumption, FS_CardinalityType
  <1> SUFFICES ASSUME RequestsInit PROVE RequestsTyped
    OBVIOUS
  <1>2. calls \in [Call -> [at : {"idle", "sent", "waits", "data", "error"},
                           token : 0 .. MaxToken, on : 0 .. MaxRefresh]]
    BY RequestsAssumption DEF RequestsInit
  <1>3. refreshes \in [Refresh -> [at : {"none", "sent", "ok", "fail"}, token : 0 .. MaxToken]]
    BY RequestsAssumption DEF RequestsInit
  <1>4. dialog \in BOOLEAN
    BY DEF RequestsInit
  <1>5. /\ bearer \in 0 .. issued /\ renewal \in 0 .. issued /\ issued \in 1 .. MaxToken
        /\ expired \in SUBSET (1 .. MaxToken - 1)
        /\ refreshFn \in 0 .. MaxRefresh /\ timers \in 0 .. Cardinality(Call)
    BY <1>1, RequestsAssumption DEF RequestsInit
  <1> QED
    BY <1>2, <1>3, <1>4, <1>5 DEF RequestsTyped

LEMMA RequestsTypedStep == RequestsTyped /\ [RequestsNext]_requestsVars => RequestsTyped'
  <1> SUFFICES ASSUME RequestsTyped, [RequestsNext]_requestsVars PROVE RequestsTyped'
    OBVIOUS
  <1> USE RequestsAssumption DEF storageVars
  <1>0. Cardinality(Call) \in Nat
    BY FS_CardinalityType
  <1>1. CASE UNCHANGED requestsVars
    BY <1>1 DEF RequestsTyped, requestsVars
  <1>2. ASSUME NEW c \in Call, Issue(c) PROVE RequestsTyped'
    <2>1. Sent(bearer) \in [at : {"idle", "sent", "waits", "data", "error"},
                            token : 0 .. MaxToken, on : 0 .. MaxRefresh]
      BY DEF RequestsTyped, Sent
    <2> QED
      BY <1>2, <2>1 DEF RequestsTyped, Issue
  <1>3. ASSUME NEW c \in Call, Succeed(c) PROVE RequestsTyped'
    BY <1>3 DEF RequestsTyped, Succeed, Set
  <1>4. ASSUME NEW c \in Call, Refuse(c) PROVE RequestsTyped'
    <2>1. dialog' \in BOOLEAN
      BY <1>4 DEF RequestsTyped, Refuse
    <2>2. bearer' \in 0 .. issued /\ renewal' \in 0 .. issued
      BY <1>4 DEF RequestsTyped, Refuse, ClearSession
    <2> QED
      BY <1>4, <2>1, <2>2 DEF RequestsTyped, Refuse, Set
  <1>5. ASSUME NEW c \in Call, Expired(c) PROVE RequestsTyped'
    <2>1. CASE refreshFn # 0
      BY <1>5, <2>1 DEF RequestsTyped, Expired, Wait
    <2>2. CASE refreshFn = 0
      <3>1. PICK r \in Refresh : /\ refreshes' = [refreshes EXCEPT ![r] = [at |-> "sent", token |-> renewal]]
                                 /\ refreshFn' = r /\ calls' = Wait(c, r)
        BY <1>5, <2>2 DEF Expired
      <3>2. r \in 0 .. MaxRefresh
        BY DEF Refresh
      <3>3. [at |-> "sent", token |-> renewal] \in [at : {"none", "sent", "ok", "fail"}, token : 0 .. MaxToken]
        BY DEF RequestsTyped
      <3>4. refreshes' \in [Refresh -> [at : {"none", "sent", "ok", "fail"}, token : 0 .. MaxToken]]
        BY <3>1, <3>3 DEF RequestsTyped
      <3>5. calls' \in [Call -> [at : {"idle", "sent", "waits", "data", "error"},
                                token : 0 .. MaxToken, on : 0 .. MaxRefresh]]
        <4> DEFINE type == [at : {"idle", "sent", "waits", "data", "error"},
                            token : 0 .. MaxToken, on : 0 .. MaxRefresh]
                   waiting == [calls[c] EXCEPT !.at = "waits", !.on = r]
        <4>1. calls \in [Call -> type]
          BY DEF RequestsTyped
        <4>2. waiting \in type
          BY <3>2, <4>1
        <4>3. calls' = [calls EXCEPT ![c] = waiting]
          BY <3>1 DEF Wait
        <4> HIDE DEF type, waiting
        <4>4. calls' \in [Call -> type]
          BY <4>1, <4>2, <4>3
        <4> QED
          BY <4>4 DEF type
      <3> QED
        BY <1>5, <3>1, <3>2, <3>4, <3>5 DEF RequestsTyped, Expired
    <2> QED
      BY <2>1, <2>2
  <1>6. ASSUME NEW c \in Call, Resume(c) PROVE RequestsTyped'
    <2>1. Sent(bearer) \in [at : {"idle", "sent", "waits", "data", "error"},
                            token : 0 .. MaxToken, on : 0 .. MaxRefresh]
      BY DEF RequestsTyped, Sent
    <2>2. calls' \in [Call -> [at : {"idle", "sent", "waits", "data", "error"},
                              token : 0 .. MaxToken, on : 0 .. MaxRefresh]]
      BY <1>6, <2>1 DEF RequestsTyped, Resume, Set
    <2> QED
      BY <1>0, <1>6, <2>2 DEF RequestsTyped, Resume, SetTimer
  <1>7. ASSUME NEW r \in Refresh, RefreshReply(r) PROVE RequestsTyped'
    BY <1>7 DEF RequestsTyped, RefreshReply, ClearSession
  <1>8. CASE Timer
    BY <1>0, <1>8 DEF RequestsTyped, Timer
  <1>9. CASE CloseDialog
    <2>1. dialog' \in BOOLEAN
      BY <1>9 DEF CloseDialog
    <2>2. bearer' \in 0 .. issued /\ renewal' \in 0 .. issued
      BY <1>9 DEF RequestsTyped, CloseDialog, ClearSession
    <2> QED
      BY <1>9, <2>1, <2>2 DEF RequestsTyped, CloseDialog
  <1>10. ASSUME NEW t \in 1 .. MaxToken, ServerExpires(t) PROVE RequestsTyped'
    BY <1>10 DEF RequestsTyped, ServerExpires
  <1> QED
    BY <1>1, <1>2, <1>3, <1>4, <1>5, <1>6, <1>7, <1>8, <1>9, <1>10 DEF RequestsNext, Progress

-----------------------------------------------------------------------------
(* Types of the theme: every scheme there is, in a window or stored, is    *)
(* one of the three, and every window is of a build.                       *)
Scheme == {"light", "dark", "auto"}

WindowTyped(t) ==
    \/ t.at = "closed"
    \/ t.at = "loading" /\ t.build \in Build
    \/ t.at = "open" /\ t.build \in Build /\ t.s.scheme \in Scheme /\ t.first.scheme \in Scheme

StoredTyped(g) == g.overrideThemeFlag \in Build \cup {0} /\ g.themeSettings.scheme \in Scheme

SchemesTyped ==
    /\ os \in {"light", "dark"} /\ build \in Build /\ looks \in 0 .. MaxLooks
    /\ choice \in Scheme /\ StoredTyped(stg) /\ \A p \in Browser : WindowTyped(theme[p])

ThemeTyped == ThemeInv /\ SchemesTyped

LEMMA ThemeTypedOK == ThemeTyped => ThemeTypeOK
  BY DEF ThemeTyped, SchemesTyped, ThemeTypeOK, WindowTyped, StoredTyped, Scheme

LEMMA ThemeTypedInit == ThemeInit => ThemeTyped
  <1>1. ThemeInit => SchemesTyped
    BY ThemeAssumption DEF ThemeInit, SchemesTyped, WindowTyped, StoredTyped, Scheme, themeSettings,
                           Gone
  <1> QED
    BY <1>1, ThemeStarts DEF ThemeTyped

LEMMA LooksCounted == SchemesTyped /\ Look => looks' \in 0 .. MaxLooks
  BY ThemeAssumption DEF SchemesTyped, Look

LEMMA OpenShaped ==
    ASSUME ThemeInv, NEW p \in Browser, Opened(p)
    PROVE  WindowShaped(theme[p]) /\ SettingsShaped(theme[p].s)
  BY DEF ThemeInv, WindowsInv, WindowOf, Agrees, Opened

LEMMA RepaintTyped ==
    ASSUME NEW t, WindowShaped(t), WindowTyped(t), t.at = "open", NEW s, s.scheme \in Scheme,
           NEW prefers
    PROVE  WindowTyped(Repaint(t, s, prefers))
  <1> DEFINE u == Repaint(t, s, prefers)
             dark == Dark(s, prefers)
             css == IF s.color # t.s.color \/ s.follow # t.s.follow THEN ThemeTokens(s) ELSE t.css
  <1>1. u = [at |-> "open", build |-> t.build, first |-> t.first, s |-> s, dark |-> dark,
             filter |-> Filter(s), css |-> css]
    <2>1. u = [t EXCEPT !.s = s, !.dark = dark, !.filter = Filter(s), !.css = css]
      BY DEF Repaint
    <2> HIDE DEF dark, css, u
    <2> QED
      BY <2>1 DEF WindowShaped
  <1> HIDE DEF u, dark, css
  <1> QED
    BY <1>1 DEF WindowTyped, u

LEMMA ChangeTyped ==
    ASSUME ThemeTyped, NEW p \in Browser, NEW s, s.scheme \in Scheme, Change(p, s)
    PROVE  SchemesTyped'
  <1> DEFINE u == Repaint(theme[p], s, os)
  <1>1. /\ Opened(p) /\ theme' = [theme EXCEPT ![p] = u]
        /\ UNCHANGED <<prod, os, build, seen>> /\ choice' = s.scheme /\ Look
    BY DEF Change
  <1>2. WindowTyped(u)
    BY <1>1, OpenShaped, RepaintTyped DEF ThemeTyped, SchemesTyped, Opened
  <1>3. stg' = stg \/ stg' = [stg EXCEPT !.darkMode = Dark(s, os)]
    BY DEF Change, StoreDark
  <1>4. StoredTyped(stg')
    BY <1>3 DEF ThemeTyped, ThemeInv, WindowsInv, SchemesTyped, StoredTyped, StoredShaped
  <1> HIDE DEF u
  <1>5. \A q \in Browser : WindowTyped(theme'[q])
    BY <1>1, <1>2 DEF ThemeTyped, ThemeInv, WindowsInv, SchemesTyped
  <1> QED
    BY <1>1, <1>4, <1>5, LooksCounted DEF ThemeTyped, SchemesTyped

LEMMA ClickTyped ==
    ASSUME ThemeTyped, NEW p \in Browser,
           \/ ToggleThemeScheme(p)
           \/ \E v \in {"light", "dark", "auto"} : SetThemeScheme(p, v)
           \/ SetGrayscale(p) \/ SetColourWeakness(p) \/ SwitchRecommendColor(p) \/ FollowPrimary(p)
           \/ \E k \in ColorKey, c \in Color : UpdateThemeColors(p, k, c)
           \/ ResetTheme(p)
    PROVE  SchemesTyped'
  <1> DEFINE s == theme[p].s
  <1>1. Opened(p)
    BY DEF ToggleThemeScheme, SetThemeScheme, SetGrayscale, SetColourWeakness,
           SwitchRecommendColor, FollowPrimary, UpdateThemeColors, ResetTheme, Drawn
  <1>2. SettingsShaped(s) /\ s.scheme \in Scheme /\ theme[p].first.scheme \in Scheme
    BY <1>1, OpenShaped DEF ThemeTyped, SchemesTyped, WindowTyped, Opened
  <1>3. CASE ToggleThemeScheme(p)
    <2>1. PICK v \in Scheme : Change(p, [s EXCEPT !.scheme = v])
      BY <1>2, <1>3 DEF ToggleThemeScheme, SettingsShaped, Scheme
    <2>2. [s EXCEPT !.scheme = v].scheme = v
      <3> HIDE DEF s
      <3> QED
        BY <1>2 DEF SettingsShaped
    <2> QED
      BY <2>1, <2>2, ChangeTyped
  <1>4. CASE \E v \in {"light", "dark", "auto"} : SetThemeScheme(p, v)
    <2>1. PICK v \in Scheme : Change(p, [s EXCEPT !.scheme = v])
      BY <1>4 DEF SetThemeScheme, Scheme
    <2>2. [s EXCEPT !.scheme = v].scheme = v
      <3> HIDE DEF s
      <3> QED
        BY <1>2 DEF SettingsShaped
    <2> QED
      BY <2>1, <2>2, ChangeTyped
  <1>5. CASE SetGrayscale(p) \/ SetColourWeakness(p) \/ SwitchRecommendColor(p) \/ FollowPrimary(p)
    <2>1. /\ [s EXCEPT !.grayscale = ~@].scheme = s.scheme
          /\ [s EXCEPT !.colourWeakness = ~@].scheme = s.scheme
          /\ [s EXCEPT !.recommendColor = ~@].scheme = s.scheme
          /\ [s EXCEPT !.follow = ~@].scheme = s.scheme
      <3> HIDE DEF s
      <3> QED
        BY <1>2 DEF SettingsShaped
    <2> QED
      BY <1>2, <1>5, <2>1, ChangeTyped
         DEF SetGrayscale, SetColourWeakness, SwitchRecommendColor, FollowPrimary
  <1>6. CASE \E k \in ColorKey, c \in Color : UpdateThemeColors(p, k, c)
    <2>0. PICK k \in ColorKey, c \in Color : UpdateThemeColors(p, k, c)
      BY <1>6
    <2>1. PICK value : Change(p, [s EXCEPT !.color[k] = value])
      BY <2>0, Zenon DEF UpdateThemeColors
    <2>2. [s EXCEPT !.color[k] = value].scheme = s.scheme
      <3> HIDE DEF s
      <3> QED
        BY <1>2 DEF SettingsShaped
    <2> QED
      BY <1>2, <2>1, <2>2, ChangeTyped
  <1>7. CASE ResetTheme(p)
    BY <1>2, <1>7, ChangeTyped DEF ResetTheme
  <1> QED
    BY <1>3, <1>4, <1>5, <1>6, <1>7

LEMMA StoreTyped ==
    ASSUME ThemeTyped, NEW p \in Browser, InitThemeStore(p)
    PROVE  SchemesTyped'
  <1> DEFINE s == initThemeSettings(p)
             t == theme[p]
  <1>1. /\ t.at = "loading" /\ t.build \in Build
        /\ StoredShaped(stg) /\ StoredTyped(stg)
    BY DEF InitThemeStore, ThemeTyped, ThemeInv, WindowsInv, SchemesTyped, WindowTyped
  <1>2. \A b \in Build : Override[b] # "none" => Override[b] \in Scheme
    BY ThemeAssumption DEF Scheme
  <1>3. s.scheme \in Scheme
    BY <1>1, <1>2 DEF initThemeSettings, Overrides, StoredShaped, StoredTyped, SettingsShaped,
                      themeSettings, Scheme
  <1>4. choice' \in Scheme
    BY <1>1, <1>2 DEF InitThemeStore, Begin, ThemeTyped, SchemesTyped
  <1>5. StoredTyped(stg')
    <2>1. stg' = [stg EXCEPT !.darkMode = Dark(s, os),
                             !.overrideThemeFlag = IF prod THEN t.build ELSE @]
      BY DEF InitThemeStore
    <2> DEFINE dark == Dark(s, os)
               flag == IF prod THEN t.build ELSE stg.overrideThemeFlag
    <2>2. stg' = [stg EXCEPT !.darkMode = dark, !.overrideThemeFlag = flag]
      BY <2>1
    <2>3. flag \in Build \cup {0}
      BY <1>1 DEF StoredTyped
    <2> HIDE DEF dark, flag
    <2> QED
      BY <1>1, <2>2, <2>3 DEF StoredTyped, StoredShaped
  <1>6. \A q \in Browser : WindowTyped(theme'[q])
    <2> DEFINE u == [at |-> "open", build |-> t.build, first |-> s, s |-> s,
                     dark |-> Dark(s, os), filter |-> Filter(s), css |-> ThemeTokens(s)]
    <2>1. theme' = [theme EXCEPT ![p] = u]
      BY DEF InitThemeStore
    <2>2. WindowTyped(u)
      <3> HIDE DEF s, t
      <3> QED
        BY <1>1, <1>3 DEF WindowTyped
    <2> HIDE DEF u
    <2> QED
      BY <2>1, <2>2 DEF ThemeTyped, ThemeInv, WindowsInv, SchemesTyped
  <1> QED
    BY <1>4, <1>5, <1>6 DEF InitThemeStore, ThemeTyped, SchemesTyped

LEMMA PreferTyped == ASSUME ThemeTyped, Prefer PROVE SchemesTyped'
  <1>1. \A p \in Browser : WindowTyped(theme'[p])
    <2> SUFFICES ASSUME NEW p \in Browser
                 PROVE  WindowTyped(theme'[p])
      OBVIOUS
    <2>1. WindowTyped(theme[p])
      BY DEF ThemeTyped, SchemesTyped
    <2>2. CASE Opened(p)
      <3>1. theme'[p] = Repaint(theme[p], theme[p].s, os')
        BY <2>2 DEF Prefer
      <3> QED
        BY <2>1, <2>2, <3>1, OpenShaped, RepaintTyped DEF ThemeTyped, WindowTyped, Opened
    <2>3. CASE ~Opened(p)
      BY <2>1, <2>3 DEF Prefer
    <2> QED
      BY <2>2, <2>3
  <1>2. stg' = stg \/ stg' = [stg EXCEPT !.darkMode = os' = "dark"]
    BY DEF Prefer
  <1>3. StoredTyped(stg')
    BY <1>2 DEF ThemeTyped, ThemeInv, WindowsInv, SchemesTyped, StoredTyped, StoredShaped
  <1>4. os' \in {"light", "dark"}
    BY DEF Prefer
  <1> QED
    BY <1>1, <1>3, <1>4, LooksCounted DEF Prefer, themeHistory, ThemeTyped, SchemesTyped

LEMMA ThemeTypedStep == ThemeTyped /\ [ThemeNext]_themeVars => ThemeTyped'
  <1> SUFFICES ASSUME ThemeTyped, [ThemeNext]_themeVars PROVE SchemesTyped'
    BY ThemeStep DEF ThemeTyped
  <1>1. CASE UNCHANGED themeVars
    BY <1>1 DEF ThemeTyped, SchemesTyped, themeVars, themeHistory
  <1>2. CASE Deploy
    BY <1>2, LooksCounted DEF Deploy, themeHistory, ThemeTyped, SchemesTyped
  <1>3. ASSUME NEW p \in Browser, SetupLoading(p)
        PROVE  SchemesTyped'
    <2>1. WindowTyped([at |-> "loading", build |-> build, dark |-> stg.darkMode])
      BY DEF ThemeTyped, SchemesTyped, WindowTyped
    <2>2. \A q \in Browser : WindowTyped(theme'[q])
      BY <1>3, <2>1 DEF SetupLoading, ThemeTyped, ThemeInv, WindowsInv, SchemesTyped
    <2> QED
      BY <1>3, <2>2, LooksCounted DEF SetupLoading, ThemeTyped, SchemesTyped
  <1>4. ASSUME NEW p \in Browser, CacheThemeSettings(p) \/ Kill(p)
        PROVE  SchemesTyped'
    <2>1. WindowTyped(Gone)
      BY DEF WindowTyped, Gone
    <2>2. \A q \in Browser : WindowTyped(theme'[q])
      BY <1>4, <2>1 DEF CacheThemeSettings, Kill, ThemeTyped, ThemeInv, WindowsInv, SchemesTyped
    <2>3. StoredTyped(stg')
      <3>1. CASE stg' = stg
        BY <3>1 DEF ThemeTyped, SchemesTyped
      <3>2. CASE Opened(p) /\ stg' = [stg EXCEPT !.themeSettings = theme[p].s]
        BY <3>2 DEF ThemeTyped, ThemeInv, WindowsInv, SchemesTyped, StoredTyped, StoredShaped,
                    WindowTyped, Opened
      <3> QED
        BY <1>4, <3>1, <3>2 DEF CacheThemeSettings, Kill
    <2> QED
      BY <1>4, <2>2, <2>3, LooksCounted
         DEF CacheThemeSettings, Kill, themeHistory, ThemeTyped, SchemesTyped
  <1> QED
    BY <1>1, <1>2, <1>3, <1>4, StoreTyped, PreferTyped, ClickTyped DEF ThemeNext

-----------------------------------------------------------------------------
(* Types of the tabs: no route has two of them, wherever they are kept.    *)
TabRow(s) ==
    /\ \A i \in DOMAIN s : s[i].route \in Routes \ {HomeTab}
    /\ \A i, j \in DOMAIN s : s[i].route = s[j].route => i = j

TabRows ==
    /\ TabRow(tabs) /\ TabRow(globalTabs)
    /\ \A k \in DOMAIN moves : TabRow(moves[k].then.rest)
    /\ activeTab \in Routes \cup {HomeTab}
    /\ Len(moves) <= MaxMoves + 1 /\ clicks \in 0 .. MaxClicks

TabsTyped == TabsInv /\ TabRows

LEMMA TabsTypedOK == TabsTyped => TabsTypeOK
  <1> SUFFICES ASSUME TabsTyped PROVE TabsTypeOK
    OBVIOUS
  <1> DEFINE routes == [i \in DOMAIN tabs |-> tabs[i].route]
  <1>1. \A i, j \in DOMAIN routes : routes[i] = routes[j] => i = j
    BY DEF TabsTyped, TabRows, TabRow
  <1>2. IsInjective(routes)
    <2> HIDE DEF routes
    <2> QED
      BY <1>1 DEF IsInjective
  <1> QED
    BY <1>2 DEF TabsTyped, TabsInv, TabRows, TabRow, TabsTypeOK

LEMMA NoTabs == TabRow(<<>>)
  BY DEF TabRow

LEMMA TabsTypedInit == TabsInit => TabsTyped
  <1> SUFFICES ASSUME TabsInit PROVE TabsTyped
    OBVIOUS
  <1>1. TabsInv
    BY TabsStart
  <1>2. TabRows
    BY NoTabs, TabsAssumption DEF TabsInit, TabRows
  <1> QED
    BY <1>1, <1>2 DEF TabsTyped

LEMMA RowAdded ==
    ASSUME NEW T, NEW s \in Seq(T), TabRow(s), NEW r \in Routes \cup {HomeTab}
    PROVE  TabRow(WithTab(s, r))
  <1>1. CASE r = HomeTab \/ r \in TabIds(s)
    BY <1>1 DEF WithTab
  <1>2. CASE r # HomeTab /\ r \notin TabIds(s)
    <2> DEFINE u == Append(s, Tab(r))
    <2>1. WithTab(s, r) = u
      BY <1>2 DEF WithTab
    <2>2. Len(s) \in Nat /\ DOMAIN s = 1 .. Len(s)
      BY ElementOfSeq
    <2>3. DOMAIN u = 1 .. Len(s) + 1 /\ u[Len(s) + 1] = Tab(r) /\ \A i \in 1 .. Len(s) : u[i] = s[i]
      BY <2>2
    <2>4. Tab(r).route = r
      BY DEF Tab
    <2>5. \A i \in DOMAIN s : s[i].route # r
      BY <1>2 DEF TabIds
    <2> HIDE DEF u
    <2>6. \A i \in DOMAIN u : i = Len(s) + 1 \/ i \in DOMAIN s
      BY <2>2, <2>3
    <2>7. \A i \in DOMAIN u : u[i].route = IF i = Len(s) + 1 THEN r ELSE s[i].route
      BY <2>2, <2>3, <2>4, <2>6
    <2> QED
      BY <1>2, <2>1, <2>2, <2>5, <2>6, <2>7 DEF TabRow
  <1> QED
    BY <1>1, <1>2

LEMMA RowShown ==
    ASSUME NEW T, NEW s \in Seq(T), TabRow(s), NEW rs
    PROVE  TabRow(Showing(s, rs))
  <1> DEFINE P == {i \in DOMAIN s : s[i].route \in rs}
             u == Filtered(s, P)
  <1>1. P \in SUBSET DOMAIN s
    OBVIOUS
  <1>2. /\ \A k \in DOMAIN u : Nth(P, k) \in DOMAIN s /\ u[k] = s[Nth(P, k)]
        /\ \A k, l \in DOMAIN u : Nth(P, k) = Nth(P, l) => k = l
    BY <1>1, Filtering
  <1>3. Showing(s, rs) = u
    BY DEF Showing
  <1> HIDE DEF u, P
  <1>4. \A k \in DOMAIN u : u[k].route \in Routes \ {HomeTab}
    BY <1>2 DEF TabRow
  <1>5. ASSUME NEW k \in DOMAIN u, NEW l \in DOMAIN u, u[k].route = u[l].route
        PROVE  k = l
    <2>1. Nth(P, k) = Nth(P, l)
      BY <1>2, <1>5 DEF TabRow
    <2> QED
      BY <1>2, <2>1
  <1> QED
    BY <1>3, <1>4, <1>5 DEF TabRow

LEMMA RowShortened ==
    ASSUME NEW T, NEW s \in Seq(T), TabRow(s), NEW k \in 1 .. Len(s)
    PROVE  TabRow(RemoveAt(s, k))
  <1> DEFINE u == RemoveAt(s, k)
             place(i) == IF i < k THEN i ELSE i + 1
  <1>1. Len(s) \in Nat /\ DOMAIN s = 1 .. Len(s)
    BY ElementOfSeq
  <1>2. DOMAIN u = 1 .. Len(s) - 1 /\ \A i \in 1 .. Len(s) - 1 : u[i] = s[place(i)]
    <2>1. u \in Seq(T) /\ Len(u) = Len(s) - 1
      BY Removing
    <2>2. DOMAIN u = 1 .. Len(s) - 1
      BY <2>1, LenProperties
    <2> QED
      BY <2>2, Removing
  <1> HIDE DEF u
  <1>3. /\ \A i \in 1 .. Len(s) - 1 : place(i) \in DOMAIN s
        /\ \A i, j \in 1 .. Len(s) - 1 : place(i) = place(j) => i = j
    BY <1>1
  <1> HIDE DEF place
  <1>4. \A i \in DOMAIN u : u[i].route \in Routes \ {HomeTab}
    BY <1>2, <1>3 DEF TabRow
  <1>5. ASSUME NEW i \in DOMAIN u, NEW j \in DOMAIN u, u[i].route = u[j].route
        PROVE  i = j
    <2>1. place(i) \in DOMAIN s /\ place(j) \in DOMAIN s /\ s[place(i)].route = s[place(j)].route
      BY <1>2, <1>3, <1>5
    <2>2. place(i) = place(j)
      BY <2>1 DEF TabRow
    <2> QED
      BY <1>2, <1>3, <2>2
  <1>6. TabRow(u)
    BY <1>4, <1>5 DEF TabRow
  <1> QED
    BY <1>6 DEF u

LEMMA MoveAdded ==
    ASSUME TabsTyped, Len(moves) <= MaxMoves, NEW r, NEW then, TabRow(then.rest), MoveTo(r, then)
    PROVE  /\ Len(moves') <= MaxMoves + 1
           /\ \A k \in DOMAIN moves' : TabRow(moves'[k].then.rest)
  <1> DEFINE old == [i \in DOMAIN moves |-> [moves[i] EXCEPT !.latest = FALSE]]
             m == [to |-> r, then |-> then, latest |-> TRUE, stale |-> FALSE]
  <1>1. Len(moves) \in Nat /\ DOMAIN moves = 1 .. Len(moves) /\ \A k \in DOMAIN moves : moves[k] \in Move
    BY ElementOfSeq DEF TabsTyped, TabsInv, MovesInv
  <1>2. moves' = Append(old, m) /\ m.then = then
    BY DEF MoveTo
  <1>3. DOMAIN old = DOMAIN moves /\ \A k \in DOMAIN moves : old[k].then = moves[k].then
    BY <1>1 DEF Move
  <1>4. old \in Seq({old[k] : k \in DOMAIN moves}) /\ Len(old) = Len(moves)
    <2> DEFINE T == {old[k] : k \in DOMAIN moves}
    <2>1. old \in [1 .. Len(moves) -> T]
      BY <1>1
    <2> HIDE DEF old, T
    <2>2. old \in Seq(T)
      BY <1>1, <2>1, SeqDef
    <2>3. Len(old) = Len(moves)
      BY <1>1, <2>1, <2>2, LenProperties
    <2> QED
      BY <2>2, <2>3 DEF T
  <1> HIDE DEF old, m
  <1>5. Len(moves') = Len(moves) + 1 /\ DOMAIN moves' = 1 .. Len(moves) + 1
    BY <1>1, <1>2, <1>4
  <1>6. \A k \in DOMAIN moves' : moves'[k] = IF k \in DOMAIN moves THEN old[k] ELSE m
    BY <1>1, <1>2, <1>4, <1>5
  <1>7. \A k \in DOMAIN moves' : TabRow(moves'[k].then.rest)
    BY <1>2, <1>3, <1>6 DEF TabsTyped, TabRows
  <1> QED
    BY <1>1, <1>5, <1>7, TabsAssumption

LEMMA NoRest == TabRow(Nothing.rest) /\ TabRow(Reset.rest)
  BY NoTabs DEF Nothing, Reset

LEMMA MovesAsBefore ==
    ASSUME TabsTyped, UNCHANGED moves
    PROVE  /\ Len(moves') <= MaxMoves + 1
           /\ \A k \in DOMAIN moves' : TabRow(moves'[k].then.rest)
  BY DEF TabsTyped, TabRows

LEMMA ClicksCounted == TabsTyped /\ TabClick => clicks' \in 0 .. MaxClicks
  BY TabsAssumption DEF TabsTyped, TabRows, TabClick

LEMMA TabOpened == ASSUME TabsTyped, NEW r \in Routes, OpenTab(r) PROVE TabRows'
  <1>1. Len(moves) \in Nat
    BY LenProperties DEF TabsTyped, TabsInv, MovesInv
  <1>2. Len(moves') <= MaxMoves + 1 /\ \A k \in DOMAIN moves' : TabRow(moves'[k].then.rest)
    BY <1>1, MoveAdded, NoRest, TabsAssumption DEF OpenTab
  <1> QED
    BY <1>2, ClicksCounted DEF OpenTab, TabsTyped, TabRows

LEMMA TabRemoved == ASSUME TabsTyped, NEW r \in Routes, RemoveTab(r) PROVE TabRows'
  <1> DEFINE i == Position(tabs, r)
             next == IF i < Len(tabs) THEN tabs[i + 1].route ELSE HomeTab
  <1>1. i \in 1 .. Len(tabs) /\ Len(tabs) \in Nat /\ DOMAIN tabs = 1 .. Len(tabs)
    <2>1. \E j \in DOMAIN tabs : tabs[j].route = r
      BY DEF RemoveTab, TabIds
    <2>2. i \in DOMAIN tabs
      BY <2>1 DEF Position
    <2> QED
      BY <2>2, ElementOfSeq DEF TabsTyped, TabsInv
  <1>2. tabs' = RemoveAt(tabs, i) /\ (MoveTo(Destination(next), Nothing) \/ UNCHANGED moves)
    BY DEF RemoveTab
  <1> HIDE DEF i, next
  <1>3. TabRow(tabs')
    BY <1>1, <1>2, RowShortened DEF TabsTyped, TabsInv, TabRows
  <1>4. Len(moves') <= MaxMoves + 1 /\ \A k \in DOMAIN moves' : TabRow(moves'[k].then.rest)
    <2>1. Len(moves) \in Nat
      BY LenProperties DEF TabsTyped, TabsInv, MovesInv
    <2> QED
      BY <1>2, <2>1, MoveAdded, NoRest, MovesAsBefore, TabsAssumption DEF RemoveTab
  <1> QED
    BY <1>3, <1>4, ClicksCounted DEF RemoveTab, sessionOfTabs, TabsTyped, TabRows

LEMMA RowCleared == ASSUME TabsTyped, NEW keep, ClearTabs(keep) PROVE TabRows'
  <1> DEFINE rest == Showing(tabs, keep)
             to == IF rest = <<>> THEN HomeTab ELSE Last(rest).route
  <1>1. /\ \/ MoveTo(Destination(to), Update(rest)) /\ UNCHANGED tabs
           \/ tabs' = rest /\ UNCHANGED moves
        /\ Len(moves) < MaxMoves
    BY DEF ClearTabs
  <1>2. TabRow(rest) /\ rest \in Seq(OpenedTab)
    BY RowShown, ShowingSome DEF TabsTyped, TabsInv, TabRows
  <1> HIDE DEF rest, to
  <1>3. Len(moves') <= MaxMoves + 1 /\ \A k \in DOMAIN moves' : TabRow(moves'[k].then.rest)
    <2>1. Len(moves) \in Nat /\ TabRow(Update(rest).rest)
      BY <1>2, LenProperties DEF TabsTyped, TabsInv, MovesInv, Update
    <2> QED
      BY <1>1, <2>1, MoveAdded, MovesAsBefore, TabsAssumption
  <1>4. TabRow(tabs')
    BY <1>1, <1>2 DEF TabsTyped, TabRows
  <1> QED
    BY <1>3, <1>4, ClicksCounted DEF ClearTabs, sessionOfTabs, TabsTyped, TabRows

LEMMA RowOfMoveTaken ==
    ASSUME TabsTyped, NEW k \in DOMAIN moves, moves' = RemoveAt(moves, k)
    PROVE  /\ Len(moves') <= MaxMoves + 1
           /\ \A l \in DOMAIN moves' : TabRow(moves'[l].then.rest)
  <1>1. k \in 1 .. Len(moves) /\ Len(moves) \in Nat /\ moves \in Seq(Move)
    BY ElementOfSeq DEF TabsTyped, TabsInv, MovesInv
  <1>2. /\ moves' \in Seq(Move) /\ Len(moves') = Len(moves) - 1
        /\ \A l \in 1 .. Len(moves) - 1 : moves'[l] = IF l < k THEN moves[l] ELSE moves[l + 1]
    BY <1>1, Removing
  <1>3. DOMAIN moves' = 1 .. Len(moves) - 1 /\ DOMAIN moves = 1 .. Len(moves)
    BY <1>1, <1>2, LenProperties
  <1>4. \A l \in DOMAIN moves' : \E m \in DOMAIN moves : moves'[l] = moves[m]
    <2>1. \A l \in 1 .. Len(moves) - 1 : l \in DOMAIN moves /\ l + 1 \in DOMAIN moves
      BY <1>1, <1>3
    <2> QED
      BY <1>2, <1>3, <2>1
  <1>5. Len(moves') <= MaxMoves + 1
    BY <1>1, <1>2, TabsAssumption DEF TabsTyped, TabRows
  <1> QED
    BY <1>4, <1>5 DEF TabsTyped, TabRows

LEMMA RowAtEndOfMove == ASSUME TabsTyped, NEW k, EndMove(k) \/ ViewFails(k) PROVE TabRows'
  <1>1. k \in DOMAIN moves /\ moves' = RemoveAt(moves, k) /\ moves[k] \in Move
    BY ElementOfSeq DEF EndMove, ViewFails, TabsTyped, TabsInv, MovesInv
  <1>2. Len(moves') <= MaxMoves + 1 /\ \A l \in DOMAIN moves' : TabRow(moves'[l].then.rest)
    BY <1>1, RowOfMoveTaken
  <1>3. CASE ViewFails(k)
    BY <1>2, <1>3 DEF ViewFails, sessionOfTabs, TabsTyped, TabRows
  <1>4. CASE EndMove(k)
    <2>1. /\ moves[k].to # "login" => moves[k].to \in Routes \cup {HomeTab}
          /\ TabRow(moves[k].then.rest)
      BY <1>1 DEF Move, TabsTyped, TabRows
    <2>2. /\ moves[k].to # "login" => TabRow(WithTab(tabs, moves[k].to))
          /\ TabRow(tabs)
      BY <2>1, RowAdded DEF TabsTyped, TabsInv, TabRows
    <2>3. TabRow(tabs') /\ TabRow(globalTabs') /\ activeTab' \in Routes \cup {HomeTab}
      BY <1>4, <2>1, <2>2 DEF EndMove, TabsTyped, TabRows
    <2> QED
      BY <1>2, <1>4, <2>3 DEF EndMove, TabsTyped, TabRows
  <1> QED
    BY <1>3, <1>4

LEMMA RowAtLogin ==
    ASSUME TabsTyped, NEW u \in TabUser, TabsLogin(u) \/ LateLogin(u) PROVE TabRows'
  <1>1. TabRow(Showing(globalTabs, TabRoutes[u]))
    BY RowShown DEF TabsTyped, TabsInv, TabRows
  <1>2. Entering(u)
    BY DEF TabsLogin, LateLogin
  <1>3. Len(moves') <= MaxMoves + 1 /\ \A k \in DOMAIN moves' : TabRow(moves'[k].then.rest)
    <2>1. /\ DOMAIN moves = 1 .. Len(moves) /\ Len(moves) \in Nat
          /\ \A k \in DOMAIN moves : moves[k] \in Move
      BY ElementOfSeq DEF TabsTyped, TabsInv, MovesInv
    <2>2. /\ moves' = [k \in 1 .. Len(moves) |-> [moves[k] EXCEPT !.stale = TRUE]]
          /\ moves' \in Seq(Move)
      BY <1>2, <2>1, LoggedIn DEF Entering, TabsTyped, TabsInv, MovesInv, Move
    <2>3. Len(moves') = Len(moves)
      BY <2>1, <2>2, LenProperties
    <2>4. ASSUME NEW k \in DOMAIN moves' PROVE TabRow(moves'[k].then.rest)
      <3>1. k \in DOMAIN moves /\ moves'[k] = [moves[k] EXCEPT !.stale = TRUE] /\ moves[k] \in Move
        BY <2>1, <2>2
      <3>2. moves'[k].then = moves[k].then
        BY <3>1 DEF Move
      <3> QED
        BY <3>1, <3>2 DEF TabsTyped, TabRows
    <2> QED
      BY <2>3, <2>4 DEF TabsTyped, TabRows
  <1>4. TabRow(tabs') /\ TabRow(globalTabs') /\ activeTab' = HomeTab /\ clicks' = clicks
    BY <1>1, NoTabs DEF TabsLogin, LateLogin, Mounted, TabsTyped, TabRows
  <1> QED
    BY <1>3, <1>4 DEF TabsTyped, TabRows

LEMMA RowAtLogout == ASSUME TabsTyped, TabsLogout PROVE TabRows'
  <1>1. Len(moves') <= MaxMoves + 1 /\ \A k \in DOMAIN moves' : TabRow(moves'[k].then.rest)
    BY MoveAdded, NoRest, MovesAsBefore DEF TabsLogout
  <1>2. clicks' \in 0 .. MaxClicks
    BY TabsAssumption DEF TabsLogout, TabsTyped, TabRows
  <1> QED
    BY <1>1, <1>2 DEF TabsLogout, TabsTyped, TabRows

LEMMA TabsTypedStep == TabsTyped /\ [TabsNext]_tabsVars => TabsTyped'
  <1> SUFFICES ASSUME TabsTyped, [TabsNext]_tabsVars PROVE TabRows'
    BY TabsStep DEF TabsTyped
  <1>1. CASE CloseMany
    BY <1>1, RowCleared DEF CloseMany
  <1>2. ASSUME NEW u \in TabUser, LateInfo(u) PROVE TabRows'
    BY <1>2 DEF LateInfo, TabsTyped, TabRows
  <1>3. CASE TabsReload
    <2>1. shown \in Routes \cup {HomeTab}
      BY <1>3 DEF TabsReload, TabClick, TabsTyped, TabsInv
    <2>2. TabRow(tabs') /\ TabRow(globalTabs') /\ activeTab' \in Routes \cup {HomeTab}
      <3>1. TabRow(Showing(tabs, TabRoutes[account]))
        BY RowShown DEF TabsTyped, TabsInv, TabRows
      <3>2. Showing(tabs, TabRoutes[account]) \in Seq(OpenedTab)
        BY ShowingSome DEF TabsTyped, TabsInv
      <3> QED
        BY <1>3, <2>1, <3>1, <3>2, RowAdded, NoTabs DEF TabsReload, TabsTyped, TabRows
    <2>3. Len(moves') <= MaxMoves + 1 /\ moves' = <<>>
      BY <1>3, TabsAssumption DEF TabsReload
    <2> QED
      BY <1>3, <2>2, <2>3, ClicksCounted DEF TabsReload, TabRows
  <1>4. CASE UNCHANGED tabsVars
    BY <1>4 DEF tabsVars, TabsTyped, TabRows
  <1> QED
    BY <1>1, <1>2, <1>3, <1>4, TabOpened, TabRemoved, RowAtEndOfMove, RowAtLogin, RowAtLogout
       DEF TabsNext

-----------------------------------------------------------------------------
(* Types of the table.                                                     *)
LEMMA Inserting ==
    ASSUME NEW T, NEW s \in Seq(T), NEW e \in T, NEW k \in 1 .. Len(s) + 1
    PROVE  /\ InsertAt(s, k, e) \in Seq(T) /\ Len(InsertAt(s, k, e)) = Len(s) + 1
           /\ \A i \in 1 .. Len(s) + 1 :
                 InsertAt(s, k, e)[i] = IF i < k THEN s[i] ELSE IF i = k THEN e ELSE s[i - 1]
  <1> DEFINE left == SubSeq(s, 1, k - 1)
             right == SubSeq(s, k, Len(s))
             mid == left \o <<e>>
             us == mid \o right
  <1>0. Len(s) \in Nat /\ DOMAIN s = 1 .. Len(s) /\ \A i \in 1 .. Len(s) : s[i] \in T
    BY LenProperties, ElementOfSeq
  <1>1. left \in Seq(T) /\ Len(left) = k - 1 /\ \A i \in 1 .. k - 1 : left[i] = s[i]
    <2>1. \A i \in 1 .. k - 1 : s[i] \in T
      BY <1>0
    <2>2. /\ SubSeq(s, 1, k - 1) \in Seq(T)
          /\ Len(SubSeq(s, 1, k - 1)) = IF 1 <= k - 1 THEN k - 1 - 1 + 1 ELSE 0
          /\ \A i \in 1 .. (k - 1) - 1 + 1 : SubSeq(s, 1, k - 1)[i] = s[1 + i - 1]
      BY <1>0, <2>1, SubSeqProperties
    <2> QED
      BY <1>0, <2>2
  <1>2. /\ right \in Seq(T) /\ Len(right) = Len(s) - k + 1
        /\ \A i \in 1 .. Len(s) - k + 1 : right[i] = s[k + i - 1]
    <2>1. \A i \in k .. Len(s) : s[i] \in T
      BY <1>0
    <2>2. /\ SubSeq(s, k, Len(s)) \in Seq(T)
          /\ Len(SubSeq(s, k, Len(s))) = IF k <= Len(s) THEN Len(s) - k + 1 ELSE 0
          /\ \A i \in 1 .. Len(s) - k + 1 : SubSeq(s, k, Len(s))[i] = s[k + i - 1]
      BY <1>0, <2>1, SubSeqProperties
    <2>3. (IF k <= Len(s) THEN Len(s) - k + 1 ELSE 0) = Len(s) - k + 1
      BY <1>0
    <2> QED
      BY <2>2, <2>3
  <1> HIDE DEF left, right
  <1>3. /\ mid \in Seq(T) /\ Len(mid) = k /\ \A i \in 1 .. k - 1 : mid[i] = s[i]
        /\ mid[k] = e
    <2>1. <<e>> \in Seq(T) /\ Len(<<e>>) = 1 /\ <<e>>[1] = e
      OBVIOUS
    <2>2. /\ mid \in Seq(T) /\ Len(mid) = Len(left) + 1
          /\ \A i \in 1 .. Len(left) + 1 : mid[i] = IF i <= Len(left) THEN left[i] ELSE <<e>>[i - Len(left)]
      BY <1>1, <2>1, ConcatProperties
    <2> HIDE DEF mid
    <2>3. mid[k] = <<e>>[k - (k - 1)]
      BY <1>0, <1>1, <2>2
    <2>4. k - (k - 1) = 1
      BY <1>0
    <2> QED
      BY <1>0, <1>1, <2>1, <2>2, <2>3, <2>4
  <1> HIDE DEF mid
  <1>4. /\ us \in Seq(T) /\ Len(us) = Len(mid) + Len(right)
        /\ \A i \in 1 .. Len(mid) + Len(right) :
               us[i] = IF i <= Len(mid) THEN mid[i] ELSE right[i - Len(mid)]
    BY <1>2, <1>3, ConcatProperties
  <1> HIDE DEF us
  <1>5. Len(us) = Len(s) + 1 /\ Len(mid) + Len(right) = Len(s) + 1
    BY <1>0, <1>2, <1>3, <1>4
  <1>6. ASSUME NEW i \in 1 .. Len(s) + 1
        PROVE  us[i] = IF i < k THEN s[i] ELSE IF i = k THEN e ELSE s[i - 1]
    <2>1. CASE i <= k
      <3>1. us[i] = mid[i]
        BY <1>0, <1>3, <1>4, <1>5, <2>1
      <3>2. CASE i = k
        BY <1>0, <1>3, <3>1, <3>2
      <3>3. CASE i < k
        BY <1>0, <1>3, <3>1, <3>3
      <3> QED
        BY <1>0, <2>1, <3>2, <3>3
    <2>2. CASE ~(i <= k)
      <3>1. i - k \in 1 .. Len(s) - k + 1 /\ k + (i - k) - 1 = i - 1 /\ ~(i < k) /\ i # k
        BY <1>0, <2>2
      <3>2. us[i] = right[i - k]
        BY <1>3, <1>4, <1>5, <2>2
      <3> QED
        BY <1>2, <3>1, <3>2
    <2> QED
      BY <2>1, <2>2
  <1>7. us = InsertAt(s, k, e)
    BY DEF InsertAt, us, mid, left, right
  <1> HIDE DEF us
  <1> QED
    BY <1>4, <1>5, <1>6, <1>7

(* A drag moves an element and loses none.                                 *)
LEMMA Dragging ==
    ASSUME NEW T, NEW s \in Seq(T), NEW i \in 1 .. Len(s), NEW j \in 1 .. Len(s)
    PROVE  LET us == InsertAt(RemoveAt(s, i), j, s[i])
           IN  us \in Seq(T) /\ Len(us) = Len(s)
               /\ \A k \in 1 .. Len(s) : \E l \in 1 .. Len(s) : us[l] = s[k]
  <1> DEFINE n == Len(s)
             rest == RemoveAt(s, i)
             e == s[i]
             us == InsertAt(rest, j, e)
  <1>1. n \in Nat /\ i \in 1 .. n /\ j \in 1 .. n /\ e \in T
    BY LenProperties, ElementOfSeq
  <1>2. /\ rest \in Seq(T) /\ Len(rest) = n - 1
        /\ \A k \in 1 .. n - 1 : rest[k] = IF k < i THEN s[k] ELSE s[k + 1]
    BY Removing
  <1> HIDE DEF rest, e
  <1>3. /\ us \in Seq(T) /\ Len(us) = n
        /\ \A k \in 1 .. n : us[k] = IF k < j THEN rest[k] ELSE IF k = j THEN e ELSE rest[k - 1]
    <2>1. j \in 1 .. Len(rest) + 1 /\ Len(rest) + 1 = n
      BY <1>1, <1>2
    <2> HIDE DEF n
    <2>2. /\ us \in Seq(T) /\ Len(us) = Len(rest) + 1
          /\ \A k \in 1 .. Len(rest) + 1 :
                us[k] = IF k < j THEN rest[k] ELSE IF k = j THEN e ELSE rest[k - 1]
      BY <1>1, <1>2, <2>1, Inserting
    <2> QED
      BY <2>1, <2>2
  <1> HIDE DEF us, n
  <1>4. ASSUME NEW k \in 1 .. n
        PROVE  \E l \in 1 .. n : us[l] = s[k]
    <2>1. CASE k = i
      BY <1>1, <1>3, <2>1 DEF e
    <2>2. CASE k # i
      <3> DEFINE m == IF k < i THEN k ELSE k - 1
                 l == IF m < j THEN m ELSE m + 1
      <3>1. m \in 1 .. n - 1 /\ l \in 1 .. n
        BY <1>1, <2>2
      <3>2. rest[m] = s[k]
        <4>1. (m < i <=> k < i) /\ (~(k < i) => m + 1 = k)
          BY <1>1, <2>2
        <4> HIDE DEF l
        <4> QED
          BY <1>2, <3>1, <4>1
      <3>3. us[l] = rest[m]
        <4>1. (m < j => l < j) /\ (~(m < j) => ~(l < j) /\ l # j /\ l - 1 = m)
          <5> HIDE DEF m
          <5> QED
            BY <1>1, <3>1
        <4> HIDE DEF m
        <4>2. (m < j => l = m)
          OBVIOUS
        <4> HIDE DEF l
        <4> QED
          BY <1>3, <3>1, <4>1, <4>2
      <3> QED
        BY <3>1, <3>2, <3>3
    <2> QED
      BY <2>1, <2>2
  <1> QED
    BY <1>3, <1>4 DEF us, rest, e, n

Size == PageSizes \cup {FirstSize, DefaultSize}
Params == [page : 1 .. Users, size : Size]
Key == ToSet(Column)
Col == [key : Key, checked : BOOLEAN]

ColumnsTyped ==
    /\ columnChecks \in Seq(Col) /\ Len(columnChecks) = Len(Column)
    /\ \A c \in Key : \E i \in 1 .. Len(Column) : columnChecks[i].key = c

RowsTyped ==
    /\ searchParams \in Params /\ requests \in Seq(Params) /\ Len(requests) <= MaxRequests
    /\ pagination \in [page : {pagination.page}, pageSize : Size, itemCount : {pagination.itemCount}]
    /\ rows.count <= rows.size /\ users \in Nat

TableTyped == RowsTyped /\ ColumnsTyped

LEMMA Sizes == Size \subseteq Nat \ {0} /\ DefaultSize \in Size /\ FirstSize \in Size
  BY TableAssumption DEF Size, DefaultSize

LEMMA TableTypedOK == TableTyped => TableTypeOK
  <1> SUFFICES ASSUME TableTyped PROVE TableTypeOK
    OBVIOUS
  <1>1. searchParams.page \in 1 .. Users + MaxUses
    BY TableAssumption DEF TableTyped, RowsTyped, Params
  <1>2. searchParams.size \in Size /\ pagination.pageSize \in Size
    BY DEF TableTyped, RowsTyped, Params
  <1> DEFINE keys == [i \in DOMAIN columnChecks |-> columnChecks[i].key]
  <1>3. DOMAIN columnChecks = 1 .. Len(Column)
    BY LenProperties DEF TableTyped, ColumnsTyped
  <1>4. \A i \in DOMAIN columnChecks : columnChecks[i] \in Col
    BY <1>3, ElementOfSeq DEF TableTyped, ColumnsTyped
  <1>5. DOMAIN keys = 1 .. Len(Column)
    BY <1>3
  <1>6. \A i \in 1 .. Len(Column) : keys[i] = columnChecks[i].key
    BY <1>3
  <1> HIDE DEF keys
  <1>7. \A i \in 1 .. Len(Column) : keys[i] \in Key
    BY <1>3, <1>4, <1>6 DEF Col
  <1>8. \A c \in Key : \E i \in 1 .. Len(Column) : keys[i] = c
    BY <1>6 DEF TableTyped, ColumnsTyped
  <1>9. ToSet(keys) = Key
    <2>1. ToSet(keys) = {keys[i] : i \in 1 .. Len(Column)}
      BY <1>5 DEF ToSet
    <2> QED
      BY <1>7, <1>8, <2>1
  <1>10. ToSet([i \in DOMAIN columnChecks |-> columnChecks[i].key]) = ToSet(Column)
    BY <1>9 DEF keys, Key
  <1> QED
    BY <1>1, <1>2, <1>10 DEF TableTyped, RowsTyped, ColumnsTyped, TableTypeOK, Size

LEMMA TableTypedInit == TableInit => TableTyped
  <1> SUFFICES ASSUME TableInit PROVE TableTyped
    OBVIOUS
  <1>1. RowsTyped
    <2>1. [page |-> 1, size |-> FirstSize] \in Params
      BY Sizes, TableAssumption DEF Params
    <2>2. searchParams \in Params /\ requests \in Seq(Params) /\ Len(requests) = 2
      BY <2>1 DEF TableInit
    <2>3. 2 <= MaxRequests
      BY TableAssumption
    <2>4. rows.count <= rows.size
      BY TableAssumption DEF TableInit, Page
    <2> QED
      BY <2>2, <2>3, <2>4, Sizes, TableAssumption DEF TableInit, RowsTyped
  <1>2. ColumnsTyped
    <2>1. Column \in Seq(Key) /\ Len(Column) \in Nat /\ DOMAIN Column = 1 .. Len(Column)
      BY TableAssumption, LenProperties DEF Key
    <2>2. \A i \in 1 .. Len(Column) : Column[i] \in Key
      BY <2>1, ElementOfSeq
    <2>3. columnChecks \in [1 .. Len(Column) -> Col]
      BY <2>1, <2>2 DEF TableInit, Col
    <2>4. columnChecks \in Seq(Col)
      BY <2>1, <2>3, SeqDef
    <2>5. Len(columnChecks) = Len(Column)
      BY <2>1, <2>3, <2>4, LenProperties
    <2>6. \A c \in Key : \E i \in 1 .. Len(Column) : Column[i] = c
      BY <2>1 DEF Key, ToSet
    <2> QED
      BY <2>1, <2>4, <2>5, <2>6 DEF TableInit, ColumnsTyped
  <1> QED
    BY <1>1, <1>2 DEF TableTyped

LEMMA DataGot ==
    ASSUME TableTyped, NEW n \in {1, 2}, NEW q \in Params, GetData(n, q)
    PROVE  requests' \in Seq(Params) /\ Len(requests') <= MaxRequests
  <1> DEFINE more == [i \in 1 .. n |-> q]
  <1>1. more \in [1 .. n -> Params]
    OBVIOUS
  <1>2. more \in Seq(Params) /\ Len(more) = n
    <2>1. more \in Seq(Params)
      BY <1>1, SeqDef
    <2>2. DOMAIN more = 1 .. n
      OBVIOUS
    <2> HIDE DEF more
    <2>3. Len(more) \in Nat /\ 1 .. Len(more) = 1 .. n
      BY <2>1, <2>2, LenProperties
    <2> QED
      BY <2>1, <2>3
  <1>3. requests' = requests \o more /\ Len(requests) + n <= MaxRequests
    BY DEF GetData
  <1> HIDE DEF more
  <1> QED
    BY <1>2, <1>3, ConcatProperties DEF TableTyped, RowsTyped

LEMMA PageServed ==
    ASSUME TableTyped, NEW q \in Params
    PROVE  Served(q).count <= Served(q).size /\ Served(q).size \in Size
  <1>1. q.page \in Nat /\ q.size \in Nat /\ q.size \in Size /\ users \in Nat
    BY Sizes, TableAssumption DEF Params, TableTyped, RowsTyped
  <1> DEFINE earlier == (q.page - 1) * q.size
             count == IF earlier >= users THEN 0 ELSE Least(q.size, users - earlier)
  <1>2. earlier \in Int
    BY <1>1
  <1>3. Served(q) = [number |-> q.page, size |-> q.size, count |-> count]
    BY DEF Served, Page
  <1>4. count <= q.size
    <2> HIDE DEF earlier
    <2> QED
      BY <1>1, <1>2 DEF Least
  <1> HIDE DEF count
  <1> QED
    BY <1>1, <1>3, <1>4

LEMMA AnswerTyped == ASSUME TableTyped, NEW i, Answered(i) PROVE TableTyped'
  <1>1. i \in 1 .. Len(requests) /\ Len(requests) \in Nat /\ requests \in Seq(Params)
    BY LenProperties DEF Answered, TableTyped, RowsTyped
  <1>2. requests[i] \in Params
    BY <1>1, ElementOfSeq
  <1>3. requests' \in Seq(Params) /\ Len(requests') <= MaxRequests
    <2>1. requests' \in Seq(Params) /\ Len(requests') = Len(requests) - 1
      BY <1>1, Removing DEF Answered
    <2> QED
      BY <1>1, <2>1, TableAssumption DEF TableTyped, RowsTyped
  <1>4. PICK p, total : /\ Show(p, total)
                        /\ p = Served(requests[i]) \/ p = Page(1, DefaultSize, 0)
    BY DEF Answered
  <1>5. p.count <= p.size /\ p.size \in Size
    <2>1. CASE p = Served(requests[i])
      BY <1>2, <2>1, PageServed
    <2>2. CASE p = Page(1, DefaultSize, 0)
      BY <2>2, Sizes DEF Page, DefaultSize
    <2> QED
      BY <1>4, <2>1, <2>2
  <1>6. rows' = p
        /\ pagination' = [page |-> p.number, pageSize |-> p.size, itemCount |-> total]
    BY <1>4 DEF Show
  <1>7. RowsTyped'
    BY <1>3, <1>5, <1>6 DEF Answered, TableTyped, RowsTyped
  <1> QED
    BY <1>7 DEF Answered, TableTyped, ColumnsTyped

LEMMA PagingTyped ==
    ASSUME TableTyped,
           \/ \E p \in 1 .. Users : OnUpdatePage(p)
           \/ \E size \in PageSizes : OnUpdatePageSize(size)
           \/ ReloadList \/ DeleteUser
    PROVE  TableTyped'
  <1>1. ColumnsTyped'
    BY DEF OnUpdatePage, OnUpdatePageSize, ReloadList, DeleteUser, TableTyped, ColumnsTyped
  <1>2. CASE \E p \in 1 .. Users : OnUpdatePage(p)
    <2>1. PICK p \in 1 .. Users : OnUpdatePage(p)
      BY <1>2
    <2>2. searchParams' \in Params
      BY <2>1 DEF OnUpdatePage, TableTyped, RowsTyped, Params
    <2>3. \E n \in {1, 2} : GetData(n, searchParams')
      BY <2>1 DEF OnUpdatePage
    <2>4. requests' \in Seq(Params) /\ Len(requests') <= MaxRequests
      BY <2>2, <2>3, DataGot
    <2>5. pagination' \in [page : {pagination'.page}, pageSize : Size,
                           itemCount : {pagination'.itemCount}]
      BY <2>1 DEF OnUpdatePage, TableTyped, RowsTyped
    <2>6. UNCHANGED <<rows, users>>
      BY <2>1 DEF OnUpdatePage
    <2> QED
      BY <1>1, <2>2, <2>4, <2>5, <2>6 DEF TableTyped, RowsTyped
  <1>3. CASE \E size \in PageSizes : OnUpdatePageSize(size)
    <2>1. PICK size \in PageSizes : OnUpdatePageSize(size)
      BY <1>3
    <2>2. searchParams' \in Params
      <3>1. searchParams' = [page |-> 1, size |-> size] /\ size \in Size
        BY <2>1 DEF OnUpdatePageSize, Size
      <3>2. 1 \in 1 .. Users
        BY TableAssumption
      <3> QED
        BY <3>1, <3>2 DEF Params
    <2>3. \E n \in {1, 2} : GetData(n, searchParams')
      BY <2>1 DEF OnUpdatePageSize
    <2>4. requests' \in Seq(Params) /\ Len(requests') <= MaxRequests
      BY <2>2, <2>3, DataGot
    <2>5. pagination' \in [page : {pagination'.page}, pageSize : Size,
                           itemCount : {pagination'.itemCount}]
      <3>1. pagination' = [pagination EXCEPT !.pageSize = size, !.page = 1] /\ size \in Size
        BY <2>1 DEF OnUpdatePageSize, Size
      <3> QED
        BY <3>1 DEF TableTyped, RowsTyped
    <2>6. UNCHANGED <<rows, users>>
      BY <2>1 DEF OnUpdatePageSize
    <2> QED
      BY <1>1, <2>2, <2>4, <2>5, <2>6 DEF TableTyped, RowsTyped
  <1>4. CASE ReloadList \/ DeleteUser
    <2>1. requests' \in Seq(Params) /\ Len(requests') <= MaxRequests
      BY <1>4, DataGot DEF ReloadList, DeleteUser, TableTyped, RowsTyped
    <2>2. users' \in Nat
      BY <1>4 DEF ReloadList, DeleteUser, TableTyped, RowsTyped
    <2> QED
      BY <1>1, <1>4, <2>1, <2>2 DEF ReloadList, DeleteUser, TableTyped, RowsTyped
  <1> QED
    BY <1>2, <1>3, <1>4

LEMMA ColumnsFrame == TableTyped /\ UNCHANGED usersView /\ ColumnsTyped' => TableTyped'
  BY DEF TableTyped, RowsTyped, usersView

LEMMA ColumnTicked == ASSUME TableTyped, NEW i \in DOMAIN Column, Check(i) PROVE TableTyped'
  <1> DEFINE e == [columnChecks[i] EXCEPT !.checked = ~@]
  <1>1. i \in 1 .. Len(columnChecks) /\ columnChecks \in Seq(Col)
    BY TableAssumption, LenProperties DEF TableTyped, ColumnsTyped
  <1>2. columnChecks[i] \in Col
    BY <1>1, ElementOfSeq
  <1>3. e \in Col /\ e.key = columnChecks[i].key
    BY <1>2 DEF Col
  <1>4. columnChecks' = [columnChecks EXCEPT ![i] = e]
    BY DEF Check
  <1> HIDE DEF e
  <1>5. /\ columnChecks' \in Seq(Col) /\ Len(columnChecks') = Len(columnChecks)
        /\ \A j \in 1 .. Len(columnChecks) : columnChecks'[j] = IF j = i THEN e ELSE columnChecks[j]
    BY <1>1, <1>3, <1>4, ExceptSeq
  <1>6. \A j \in 1 .. Len(columnChecks) : columnChecks'[j].key = columnChecks[j].key
    BY <1>3, <1>5
  <1>7. ColumnsTyped'
    BY <1>5, <1>6 DEF TableTyped, ColumnsTyped
  <1> QED
    BY <1>7, ColumnsFrame DEF Check

LEMMA ColumnDragged ==
    ASSUME TableTyped, NEW i \in DOMAIN Column, NEW j \in DOMAIN Column, Drag(i, j)
    PROVE  TableTyped'
  <1> DEFINE us == InsertAt(RemoveAt(columnChecks, i), j, columnChecks[i])
  <1>1. /\ columnChecks \in Seq(Col) /\ Len(columnChecks) = Len(Column)
        /\ i \in 1 .. Len(columnChecks) /\ j \in 1 .. Len(columnChecks)
    BY TableAssumption, LenProperties DEF TableTyped, ColumnsTyped
  <1>2. /\ us \in Seq(Col) /\ Len(us) = Len(columnChecks)
        /\ \A k \in 1 .. Len(columnChecks) :
              \E l \in 1 .. Len(columnChecks) : us[l] = columnChecks[k]
    BY <1>1, Dragging
  <1>3. columnChecks' = us
    BY DEF Drag
  <1> HIDE DEF us
  <1>4. \A c \in Key : \E l \in 1 .. Len(Column) : columnChecks'[l].key = c
    <2>1. \A c \in Key : \E k \in 1 .. Len(Column) : columnChecks[k].key = c
      BY DEF TableTyped, ColumnsTyped
    <2> SUFFICES ASSUME NEW c \in Key
                 PROVE  \E l \in 1 .. Len(Column) : us[l].key = c
      BY <1>3
    <2>2. PICK k \in 1 .. Len(Column) : columnChecks[k].key = c
      BY <2>1
    <2>3. \E l \in 1 .. Len(columnChecks) : us[l] = columnChecks[k]
      BY <1>1, <1>2
    <2> QED
      BY <1>1, <2>2, <2>3
  <1>5. ColumnsTyped'
    BY <1>1, <1>2, <1>3, <1>4 DEF ColumnsTyped
  <1> QED
    BY <1>5, ColumnsFrame DEF Drag

LEMMA ColumnsReloaded == TableTyped /\ ReloadColumns => TableTyped'
  <1> SUFFICES ASSUME TableTyped, ReloadColumns PROVE ColumnsTyped'
    BY ColumnsFrame DEF ReloadColumns
  <1>1. Column \in Seq(Key) /\ Len(Column) \in Nat /\ DOMAIN Column = 1 .. Len(Column)
    BY TableAssumption, LenProperties DEF Key
  <1>2. \A i \in 1 .. Len(Column) : Column[i] \in Key
    BY <1>1, ElementOfSeq
  <1>3. \A c : Checked(c) \in BOOLEAN
    BY DEF Checked
  <1>4. columnChecks' \in [1 .. Len(Column) -> Col]
        /\ \A i \in 1 .. Len(Column) : columnChecks'[i].key = Column[i]
    BY <1>1, <1>2, <1>3 DEF ReloadColumns, Col
  <1>5. columnChecks' \in Seq(Col)
    BY <1>1, <1>4, SeqDef
  <1>6. Len(columnChecks') = Len(Column)
    BY <1>1, <1>4, <1>5, LenProperties
  <1>7. \A c \in Key : \E i \in 1 .. Len(Column) : Column[i] = c
    BY <1>1 DEF Key, ToSet
  <1> QED
    BY <1>4, <1>5, <1>6, <1>7 DEF ColumnsTyped

LEMMA TableTypedStep == TableTyped /\ [TableNext]_tableVars => TableTyped'
  <1>1. TableTyped /\ UNCHANGED tableVars => TableTyped'
    BY DEF tableVars, TableTyped, RowsTyped, ColumnsTyped
  <1> QED
    BY <1>1, AnswerTyped, PagingTyped, ColumnTicked, ColumnDragged, ColumnsReloaded DEF TableNext

-----------------------------------------------------------------------------
(* Types of the chat page.  No list has a conversation twice, and every    *)
(* message shown is of a question that has been asked.                     *)
ChatMessage ==
    [role : {"user", "assistant"}, question : Question \cup {0},
     status : {"none", "pending", "loading", "finished", "error"}, empty : BOOLEAN]

ChatCounts ==
    /\ sends \in Nat /\ entered \in Nat /\ sends <= entered /\ entered <= MaxSends
    /\ loads \in 0 .. MaxPending /\ questions <= MaxQuestion

ChatLists ==
    /\ typed \in BOOLEAN /\ (typed => questions < MaxQuestion)
    /\ messages \in Seq(ChatMessage) /\ IsInjective(conversations) /\ IsInjective(order)
    /\ selections \subseteq Conversation /\ removals \subseteq Conversation

ChatTyped == ChatClientInv /\ ChatCounts /\ ChatLists

LEMMA ChatTypedOK == ChatTyped => ChatTypeOK
  <1> SUFFICES ASSUME ChatTyped PROVE ChatTypeOK
    OBVIOUS
  <1>1. \A i \in DOMAIN messages : messages[i].question \in Question \cup {0}
    <2>1. \A i \in DOMAIN messages : messages[i] \in ChatMessage
      BY ElementOfSeq, LenProperties DEF ChatTyped, ChatLists
    <2> QED
      BY <2>1 DEF ChatMessage
  <1>2. sends <= MaxSends /\ loads <= MaxPending
    BY ChatClientAssumption DEF ChatTyped, ChatCounts
  <1> QED
    BY <1>1, <1>2 DEF ChatTyped, ChatClientInv, ChatCounts, ChatLists, ChatTypeOK

LEMMA ChatTypedInit == ChatInit => ChatTyped
  <1> SUFFICES ASSUME ChatInit PROVE ChatTyped
    OBVIOUS
  <1>1. IsInjective(order) /\ conversations = order
    <2>1. order = <<>> \/ order = <<1>>
      BY DEF ChatInit
    <2>2. \A k, l \in DOMAIN order : k = l
      BY <2>1
    <2> QED
      BY <2>2 DEF ChatInit, IsInjective
  <1>2. ChatCounts
    <2>1. sends = 0 /\ entered = 0 /\ loads = 0 /\ questions = 0
      BY DEF ChatInit
    <2> QED
      BY <2>1, ChatClientAssumption DEF ChatCounts
  <1>3. messages \in Seq(ChatMessage)
    BY EmptySeq DEF ChatInit
  <1>4. typed = FALSE
    BY DEF ChatInit
  <1>5. selections = {} /\ removals = {}
    BY DEF ChatInit
  <1>6. ChatLists
    BY <1>1, <1>3, <1>4, <1>5 DEF ChatLists
  <1> QED
    BY <1>2, <1>6, ChatStarts DEF ChatTyped

(* What a shown conversation, a message sent and a frame make of the list. *)
LEMMA QuestionNumbers == 0 \in Question \cup {0} /\ \A n \in Nat : n <= MaxQuestion => n \in Question \cup {0}
  BY ChatClientAssumption DEF Question

LEMMA MessageTyped ==
    ASSUME NEW r \in {"user", "assistant"}, NEW q \in Question \cup {0},
           NEW s \in {"none", "pending", "loading", "finished", "error"}, NEW e \in BOOLEAN
    PROVE  Message(r, q, s, e) \in ChatMessage
  BY DEF Message, ChatMessage

LEMMA HistoryTyped ==
    ASSUME ChatTyped, NEW c \in Conversation
    PROVE  History(c) \in Seq(ChatMessage)
  <1> DEFINE n == Len(history[c])
             m(i) == Message(IF i % 2 = 1 THEN "user" ELSE "assistant",
                             history[c][(i + 1) \div 2], "none", FALSE)
  <1>1. /\ history[c] \in Seq(Nat) /\ n \in Nat /\ DOMAIN history[c] = 1 .. n
        /\ \A j \in 1 .. n : history[c][j] \in Nat /\ history[c][j] <= questions
        /\ questions \in Nat
    <2>1. history[c] \in Seq(Nat)
      BY DEF ChatTyped, ChatClientInv, Placed
    <2>2. n \in Nat /\ DOMAIN history[c] = 1 .. n /\ \A j \in 1 .. n : history[c][j] \in Nat
      BY <2>1, LenProperties, ElementOfSeq
    <2> QED
      BY <2>1, <2>2 DEF ChatTyped, ChatClientInv, Placed
  <1>2. \A j \in 1 .. n : history[c][j] \in Question \cup {0}
    BY <1>1, QuestionNumbers, ChatClientAssumption DEF ChatTyped, ChatCounts
  <1> HIDE DEF n
  <1>3. ASSUME NEW i \in 1 .. 2 * n
        PROVE  m(i) \in ChatMessage
    <2>1. (i + 1) \div 2 \in 1 .. n
      BY <1>1, <1>3
    <2>2. history[c][(i + 1) \div 2] \in Question \cup {0}
      BY <1>2, <2>1
    <2> QED
      BY <2>2, MessageTyped
  <1> DEFINE h == [i \in 1 .. 2 * n |-> m(i)]
  <1>4. History(c) = h
    BY DEF History, n
  <1> HIDE DEF m
  <1>5. h \in [1 .. 2 * n -> ChatMessage]
    BY <1>3
  <1>6. 2 * n \in Nat
    BY <1>1
  <1> HIDE DEF h
  <1> QED
    BY <1>4, <1>5, <1>6, SeqDef

LEMMA LatestThere ==
    ASSUME ChatTyped, messages # <<>>
    PROVE  Latest \in ChatMessage /\ Front(messages) \in Seq(ChatMessage)
  <1>1. /\ Len(messages) \in Nat \ {0} /\ DOMAIN messages = 1 .. Len(messages)
        /\ \A i \in 1 .. Len(messages) : messages[i] \in ChatMessage
    BY EmptySeq, LenProperties, ElementOfSeq DEF ChatTyped, ChatLists
  <1>2. SubSeq(messages, 1, Len(messages) - 1) \in Seq(ChatMessage)
    <2>1. \A i \in 1 .. Len(messages) - 1 : messages[i] \in ChatMessage
      BY <1>1
    <2>2. 1 \in Int /\ Len(messages) - 1 \in Int
      BY <1>1
    <2> QED
      BY <2>1, <2>2, SubSeqProperties
  <1> QED
    BY <1>1, <1>2 DEF Latest, Last, Front

LEMMA LatestSet ==
    ASSUME ChatTyped, messages # <<>>, NEW m \in ChatMessage
    PROVE  SetLatest(m) \in Seq(ChatMessage)
  <1>1. <<m>> \in Seq(ChatMessage)
    OBVIOUS
  <1> QED
    BY <1>1, LatestThere, ConcatProperties DEF SetLatest

LEMMA LatestMarked ==
    ASSUME ChatTyped, messages # <<>>, NEW s \in {"none", "pending", "loading", "finished", "error"}
    PROVE  /\ SetLatest([Latest EXCEPT !.status = s]) \in Seq(ChatMessage)
           /\ SetLatest([Latest EXCEPT !.status = s, !.empty = FALSE]) \in Seq(ChatMessage)
  <1>1. Latest \in ChatMessage
    BY LatestThere
  <1>2. /\ [Latest EXCEPT !.status = s] \in ChatMessage
        /\ [Latest EXCEPT !.status = s, !.empty = FALSE] \in ChatMessage
    BY <1>1 DEF ChatMessage
  <1> QED
    BY <1>2, LatestSet

LEMMA RestDistinct ==
    ASSUME ChatTyped, NEW c \in Conversation
    PROVE  IsInjective(Without(c)) /\ IsInjective(<<c>> \o Without(c))
  <1> DEFINE P == {i \in DOMAIN order : order[i] # c}
             us == Filtered(order, P)
             ws == <<c>> \o us
  <1>1. P \in SUBSET DOMAIN order /\ order \in Seq(Conversation)
    BY DEF ChatTyped, ChatClientInv
  <1>2. /\ us \in Seq(Conversation)
        /\ \A k \in DOMAIN us : Nth(P, k) \in DOMAIN order /\ us[k] = order[Nth(P, k)]
        /\ \A k, l \in DOMAIN us : Nth(P, k) = Nth(P, l) => k = l
        /\ \A k \in DOMAIN us : us[k] # c
    <2>1. /\ us \in Seq(Conversation)
          /\ \A k \in DOMAIN us : Nth(P, k) \in DOMAIN order /\ us[k] = order[Nth(P, k)]
          /\ \A k, l \in DOMAIN us : Nth(P, k) = Nth(P, l) => k = l
      BY <1>1, Filtering
    <2>2. /\ Len(order) \in Nat /\ DOMAIN order = 1 .. Len(order)
      BY <1>1, LenProperties
    <2>3. \A k \in 1 .. Cardinality(P) : Nth(P, k) \in P
      <3>1. P \in SUBSET (1 .. Len(order))
        BY <1>1, <2>2
      <3> HIDE DEF P
      <3> QED
        BY <2>2, <3>1, NthIsThere
    <2>4. DOMAIN us = 1 .. Cardinality(P)
      BY DEF Filtered
    <2> HIDE DEF us
    <2> QED
      BY <2>1, <2>3, <2>4
  <1>3. Without(c) = us
    BY DEF Without
  <1> HIDE DEF us, P
  <1>4. ASSUME NEW k \in DOMAIN us, NEW l \in DOMAIN us, us[k] = us[l]
        PROVE  k = l
    <2>1. Nth(P, k) = Nth(P, l)
      BY <1>2, <1>4 DEF ChatTyped, ChatLists, IsInjective
    <2> QED
      BY <1>2, <2>1
  <1>5. IsInjective(us)
    BY <1>4 DEF IsInjective
  <1>6. IsInjective(ws)
    <2>1. <<c>> \in Seq(Conversation) /\ Len(<<c>>) = 1 /\ <<c>>[1] = c
      OBVIOUS
    <2>2. Len(us) \in Nat /\ DOMAIN us = 1 .. Len(us)
      BY <1>2, LenProperties
    <2>3. /\ ws \in Seq(Conversation) /\ Len(ws) = 1 + Len(us)
          /\ \A i \in 1 .. 1 + Len(us) : ws[i] = IF i <= 1 THEN <<c>>[i] ELSE us[i - 1]
      BY <1>2, <2>1, ConcatProperties
    <2> HIDE DEF ws
    <2>4. DOMAIN ws = 1 .. 1 + Len(us)
      BY <2>3, LenProperties
    <2>5. ASSUME NEW k \in DOMAIN ws, NEW l \in DOMAIN ws, ws[k] = ws[l]
          PROVE  k = l
      <3>1. \A i \in DOMAIN ws : (i = 1 /\ ws[i] = c) \/ (i - 1 \in DOMAIN us /\ ws[i] = us[i - 1])
        BY <2>1, <2>2, <2>3, <2>4
      <3>2. k \in Nat /\ l \in Nat
        BY <2>2, <2>4
      <3>3. k - 1 = l - 1 => k = l
        BY <3>2
      <3> QED
        BY <1>2, <1>4, <2>5, <3>1, <3>3
    <2> QED
      BY <2>5 DEF IsInjective
  <1> QED
    BY <1>3, <1>5, <1>6

LEMMA ListsFrame ==
    ASSUME ChatTyped, UNCHANGED <<typed, questions, messages, selections, removals>>,
           conversations' = conversations \/ conversations' = order,
           order' = order \/ \E c \in Conversation : order' = Without(c) \/ order' = <<c>> \o Without(c)
    PROVE  ChatLists'
  <1>1. IsInjective(conversations') /\ IsInjective(order')
    BY RestDistinct DEF ChatTyped, ChatLists
  <1> QED
    BY <1>1 DEF ChatTyped, ChatLists

LEMMA TypedTyped == ChatTyped /\ Type => ChatCounts' /\ ChatLists'
  BY DEF Type, chatRequests, chatSends, chatServer, ChatTyped, ChatCounts, ChatLists

LEMMA SendTyped == ASSUME ChatTyped, Send PROVE ChatCounts' /\ ChatLists'
  <1> DEFINE q == IF typed THEN questions + 1 ELSE 0
  <1>1. questions \in Nat /\ (typed => questions + 1 <= MaxQuestion)
    BY ChatClientAssumption DEF ChatTyped, ChatClientInv, Placed, ChatLists
  <1>2. q \in Question \cup {0}
    BY <1>1, QuestionNumbers
  <1>3. ChatCounts'
    BY <1>1, ChatClientAssumption DEF Send, ChatTyped, ChatCounts
  <1>4. PICK a, b : messages' = messages \o <<a, b>> /\ a \in ChatMessage /\ b \in ChatMessage
    <2>1. messages' = messages \o <<Message("user", q, "none", ~typed),
                                    Message("assistant", q, "pending", TRUE)>>
      BY DEF Send
    <2>2. (~typed) \in BOOLEAN
      BY Zenon DEF ChatTyped, ChatLists
    <2> HIDE DEF q
    <2>3. Message("user", q, "none", ~typed) \in ChatMessage
      BY <1>2, <2>2, MessageTyped
    <2>4. Message("assistant", q, "pending", TRUE) \in ChatMessage
      BY <1>2, MessageTyped
    <2> QED
      BY <2>1, <2>3, <2>4
  <1>5. messages' \in Seq(ChatMessage)
    <2>1. <<a, b>> \in Seq(ChatMessage)
      BY <1>4
    <2> QED
      BY <1>4, <2>1, ConcatProperties DEF ChatTyped, ChatLists
  <1>6. typed' = FALSE
    BY DEF Send
  <1>7. IsInjective(conversations') /\ IsInjective(order')
    BY DEF Send, chatServer, ChatTyped, ChatLists
  <1>8. UNCHANGED <<selections, removals>>
    BY DEF Send
  <1> QED
    BY <1>3, <1>5, <1>6, <1>7, <1>8 DEF ChatTyped, ChatLists

LEMMA StopTyped == ASSUME ChatTyped, Stop PROVE ChatCounts' /\ ChatLists'
  <1>1. messages # <<>>
    BY DEF Stop, IsSending, Latest, Message
  <1>2. messages' \in Seq(ChatMessage)
    BY <1>1, LatestThere, LatestMarked DEF Stop
  <1>3. ChatCounts'
    BY DEF Stop, chatRequests, chatSends, ChatTyped, ChatCounts
  <1> QED
    BY <1>2, <1>3 DEF Stop, chatRequests, chatServer, ChatTyped, ChatLists

LEMMA FrameTyped == ASSUME ChatTyped, ReceiveFrame PROVE ChatCounts' /\ ChatLists'
  <1>1. messages' \in Seq(ChatMessage)
    <2>1. \/ messages' = messages
          \/ messages # <<>> /\ messages' = SetLatest([Latest EXCEPT !.status = "finished"])
          \/ messages # <<>> /\ messages' = SetLatest([Latest EXCEPT !.status = "error"])
          \/ messages # <<>> /\ messages' = SetLatest([Latest EXCEPT !.status = "loading", !.empty = FALSE])
      BY DEF ReceiveFrame
    <2> QED
      BY <2>1, LatestMarked DEF ChatTyped, ChatLists
  <1>2. loads' \in 0 .. MaxPending
    <2>1. loads' = loads \/ (loads < MaxPending /\ loads' = loads + 1)
      BY DEF ReceiveFrame
    <2> QED
      BY <2>1, ChatClientAssumption DEF ChatTyped, ChatCounts
  <1>3. ChatCounts'
    BY <1>2 DEF ReceiveFrame, chatSends, ChatTyped, ChatCounts
  <1>4. selections' \subseteq Conversation
    <2>1. \/ selections' = selections
          \/ conversations # <<>> /\ selections' = selections \cup {conversations[1]}
      BY DEF ReceiveFrame
    <2>2. conversations # <<>> => conversations[1] \in Conversation
      BY EmptySeq, ElementOfSeq DEF ChatTyped, ChatClientInv
    <2> QED
      BY <2>1, <2>2 DEF ChatTyped, ChatLists
  <1> QED
    BY <1>1, <1>3, <1>4 DEF ReceiveFrame, chatServer, ChatTyped, ChatLists

LEMMA EnterTyped == ASSUME ChatTyped, Enter \/ MountPage PROVE ChatCounts' /\ ChatLists'
  <1>1. ChatCounts'
    BY ChatClientAssumption DEF Enter, MountPage, chatPage, ChatTyped, ChatCounts
  <1> QED
    BY <1>1 DEF Enter, MountPage, chatPage, chatServer, ChatTyped, ChatLists

LEMMA RequestsOfChat ==
    ASSUME ChatTyped,
           \/ LoadConversations \/ NewConversation
           \/ \E c \in Conversation : SelectConversation(c) \/ RemoveConversation(c)
           \/ \E c \in selections : SelectReply(c)
    PROVE  ChatCounts' /\ ChatLists'
  <1>1. CASE LoadConversations
    <2>1. ChatCounts'
      BY <1>1, ChatClientAssumption DEF LoadConversations, chatPage, chatSends, ChatTyped, ChatCounts
    <2> QED
      BY <1>1, <2>1, ListsFrame DEF LoadConversations, chatPage, chatServer
  <1>2. CASE NewConversation
    <2>1. ChatCounts'
      BY <1>2 DEF NewConversation, chatRequests, chatSends, ChatTyped, ChatCounts
    <2> QED
      BY <1>2, <2>1, EmptySeq DEF NewConversation, chatRequests, chatServer, ChatTyped, ChatLists
  <1>3. ASSUME NEW c \in Conversation, SelectConversation(c) \/ RemoveConversation(c)
        PROVE  ChatCounts' /\ ChatLists'
    <2>1. ChatCounts'
      BY <1>3 DEF SelectConversation, RemoveConversation, chatPage, chatSends, ChatTyped, ChatCounts
    <2> QED
      BY <1>3, <2>1
         DEF SelectConversation, RemoveConversation, chatPage, chatServer, ChatTyped, ChatLists
  <1>4. ASSUME NEW c \in selections, SelectReply(c)
        PROVE  ChatCounts' /\ ChatLists'
    <2>1. ChatCounts'
      BY <1>4 DEF SelectReply, chatSends, ChatTyped, ChatCounts
    <2>2. messages' \in Seq(ChatMessage)
      BY <1>4, HistoryTyped DEF SelectReply, ChatTyped, ChatLists
    <2> QED
      BY <1>4, <2>1, <2>2 DEF SelectReply, chatServer, ChatTyped, ChatLists
  <1> QED
    BY <1>1, <1>2, <1>3, <1>4

LEMMA RemovalTyped ==
    ASSUME ChatTyped, NEW c \in removals, RemoveReply(c)
    PROVE  ChatCounts' /\ ChatLists'
  <1>1. loads' = loads \/ (loads < MaxPending /\ loads' = loads + 1)
    BY DEF RemoveReply
  <1>2. loads' \in 0 .. MaxPending
    BY <1>1, ChatClientAssumption DEF ChatTyped, ChatCounts
  <1>3. ChatCounts'
    BY <1>2 DEF RemoveReply, chatSends, ChatTyped, ChatCounts
  <1>4. messages' \in Seq(ChatMessage)
    BY EmptySeq DEF RemoveReply, ChatTyped, ChatLists
  <1>5. IsInjective(order')
    <2>1. c \in Conversation
      BY DEF ChatTyped, ChatLists
    <2> QED
      BY <2>1, RestDistinct DEF RemoveReply, ChatTyped, ChatLists
  <1> QED
    BY <1>3, <1>4, <1>5 DEF RemoveReply, ChatTyped, ChatLists

LEMMA AnswersTyped ==
    ASSUME ChatTyped, NEW i \in DOMAIN queries, Serve(i) \/ ServeStop(i) \/ Lost(i)
    PROVE  ChatCounts' /\ ChatLists'
  <1>1. UNCHANGED <<chatPage, chatRequests, conversations>>
    BY DEF Serve, ServeStop, Lost
  <1>2. order' = order \/ \E c \in Conversation : order' = <<c>> \o Without(c)
    BY DEF Serve, ServeStop, Lost, chatServer
  <1>3. ChatCounts'
    BY <1>1 DEF chatPage, chatRequests, chatSends, ChatTyped, ChatCounts
  <1>4. ChatLists'
    <2>1. UNCHANGED <<typed, questions, messages, selections, removals, conversations>>
      BY <1>1 DEF chatPage, chatRequests
    <2> QED
      BY <1>2, <2>1, ListsFrame
  <1> QED
    BY <1>3, <1>4

LEMMA ChatTypedStep == ChatTyped /\ [ChatNext]_chatVars => ChatTyped'
  <1> SUFFICES ASSUME ChatTyped, [ChatNext]_chatVars PROVE ChatCounts' /\ ChatLists'
    BY ChatStep DEF ChatTyped
  <1>1. CASE UNCHANGED chatVars
    BY <1>1 DEF chatVars, chatPage, chatRequests, chatSends, chatServer, ChatTyped, ChatCounts, ChatLists
  <1> QED
    BY <1>1, TypedTyped, SendTyped, StopTyped, FrameTyped, EnterTyped, RequestsOfChat, RemovalTyped,
       AnswersTyped DEF ChatNext

-----------------------------------------------------------------------------
(* Types of the session.  The navigations under way have identities of     *)
(* their own, and none of them goes to where a page starts.                *)
RouteName == ConstantRoutes \cup StaticAuthRoutes \cup BuiltinRoutes
Target == [name : RouteName, path : LocationPath, ask : LocationPath \cup {"none"}]
Account == User \cup {NoUser}
Nav ==
    [id : 1 .. MaxNav, to : Target, root : BOOLEAN, who : Account,
     at : {"guard", "info", "init", "load", "failed"}, then : {"nothing", "resetRoutes"}]

NavsTyped(N) ==
    /\ N \subseteq Nav /\ IsFiniteSet(N)
    /\ \A n, m \in N : n.id = m.id => n = m

AuthTyped ==
    /\ stored \in Account /\ lastLogin \in Account /\ token \in Account /\ boot \in Account
    /\ user \in Account

RoutesTyped ==
    /\ constInit \in BOOLEAN /\ authInit \in BOOLEAN
    /\ authRoutes \subseteq StaticAuthRoutes /\ registered \subseteq ConstantRoutes \cup authRoutes

PagesTyped ==
    /\ page \in Target \cup {Start} /\ NavsTyped(navs) /\ pending \in 1 .. MaxNav
    /\ views \subseteq RouteName

CountsTyped ==
    /\ back \in [User -> 0 .. MaxBack] /\ events \in 0 .. MaxEvents
    /\ login \in [at : {"idle", "sent", "info"}, who : Account]

SessionTyped == AuthTyped /\ RoutesTyped /\ PagesTyped /\ CountsTyped

LEMMA SessionTypedOK == SessionTyped => SessionTypeOK
  <1> SUFFICES ASSUME SessionTyped PROVE SessionTypeOK
    OBVIOUS
  <1>1. \A l \in Target : l \in Location
    BY DEF Target, RouteName, Location
  <1>2. Start \in Location
    BY DEF Start, Location, LocationPath
  <1>3. \A n \in Nav : n \in Navigation
    BY <1>1 DEF Nav, Navigation, Account
  <1>4. {constInit, authInit} \subseteq BOOLEAN
    BY DEF SessionTyped, RoutesTyped
  <1>5. page \in Location /\ navs \subseteq Navigation
    BY <1>1, <1>2, <1>3 DEF SessionTyped, PagesTyped, NavsTyped
  <1> QED
    BY <1>4, <1>5 DEF SessionTyped, AuthTyped, RoutesTyped, PagesTyped, CountsTyped, NavsTyped, Account,
                      RouteName, SessionTypeOK

LEMMA TargetsTyped ==
    /\ Forbidden \in Target
    /\ \A ask \in LocationPath \cup {"none"} : LoginPage(ask) \in Target
    /\ \A path \in LocationPath, routes \in SUBSET (ConstantRoutes \cup StaticAuthRoutes) :
           Resolve(path, routes) \in Target
  <1>1. Forbidden \in Target
    BY DEF Forbidden, Target, RouteName, ConstantRoutes, LocationPath
  <1>2. \A ask \in LocationPath \cup {"none"} : LoginPage(ask) \in Target
    BY DEF LoginPage, Target, RouteName, ConstantRoutes, LocationPath
  <1>3. ASSUME NEW path \in LocationPath, NEW routes \in SUBSET (ConstantRoutes \cup StaticAuthRoutes)
        PROVE  Resolve(path, routes) \in Target
    BY DEF Resolve, RouteHome, Target, RouteName, BuiltinRoutes, LocationPath
  <1> QED
    BY <1>1, <1>2, <1>3

LEMMA OpeningTyped ==
    ASSUME NEW path \in Path PROVE NavsTyped(Opening(path))
  <1> DEFINE n == [id |-> 1, to |-> Resolve(path, {}), root |-> path = "root", who |-> NoUser,
                   at |-> "guard", then |-> "nothing"]
  <1>1. Resolve(path, {}) \in Target
    BY TargetsTyped DEF LocationPath
  <1>2. (path = "root") \in BOOLEAN
    OBVIOUS
  <1>3. n \in Nav
    BY <1>1, <1>2, SessionAssumption DEF Nav, Account
  <1>4. Opening(path) = {n}
    BY DEF Opening
  <1> HIDE DEF n
  <1> QED
    BY <1>3, <1>4, FS_Singleton DEF NavsTyped

LEMMA SessionTypedInit == SessionInit => SessionTyped
  <1> SUFFICES ASSUME SessionInit PROVE SessionTyped
    OBVIOUS
  <1>1. AuthTyped
    BY DEF SessionInit, AuthTyped, Account
  <1>2. RoutesTyped
    BY DEF SessionInit, RoutesTyped
  <1>3. PagesTyped
    <2>1. NavsTyped(navs)
      BY OpeningTyped DEF SessionInit
    <2> QED
      BY <2>1, SessionAssumption DEF SessionInit, PagesTyped
  <1>4. CountsTyped
    BY SessionAssumption DEF SessionInit, CountsTyped, Idle, Account
  <1> QED
    BY <1>1, <1>2, <1>3, <1>4 DEF SessionTyped

(* There is an identity for one more navigation.                           *)
LEMMA FreeIdThere ==
    ASSUME NEW N, NavsTyped(N), Room(N)
    PROVE  FreeId(N) \in 1 .. MaxNav /\ \A n \in N : n.id # FreeId(N)
  <1> DEFINE ids == {n.id : n \in N}
  <1>1. IsFiniteSet(ids) /\ Cardinality(ids) <= Cardinality(N)
    <2> DEFINE f == [n \in N |-> n.id]
    <2>1. f \in Surjection(N, ids)
      BY DEF Surjection
    <2> QED
      BY <2>1, FS_Surjection DEF NavsTyped
  <1>2. ids \subseteq 1 .. MaxNav
    BY DEF NavsTyped, Nav
  <1>3. Cardinality(1 .. MaxNav) = MaxNav
    BY FS_Interval, SessionAssumption
  <1>4. Cardinality(ids) \in Nat /\ Cardinality(N) \in Nat
    BY <1>1, FS_CardinalityType DEF NavsTyped
  <1>5. ids # 1 .. MaxNav
    <2>1. Cardinality(N) < MaxNav /\ MaxNav \in Nat
      BY SessionAssumption DEF Room
    <2> HIDE DEF ids
    <2> QED
      BY <1>1, <1>3, <1>4, <2>1
  <1>6. \E i \in 1 .. MaxNav : \A n \in N : n.id # i
    BY <1>2, <1>5
  <1> QED
    BY <1>6 DEF FreeId

LEMMA PushTyped ==
    ASSUME NEW N, NavsTyped(N), NEW to \in Target, NEW root \in BOOLEAN,
           NEW then \in {"nothing", "resetRoutes"}, Push(N, to, root, then)
    PROVE  NavsTyped(navs') /\ pending' \in 1 .. MaxNav
  <1> DEFINE new == [id |-> FreeId(N), to |-> to, root |-> root, who |-> NoUser,
                     at |-> "guard", then |-> then]
  <1>1. FreeId(N) \in 1 .. MaxNav /\ \A n \in N : n.id # FreeId(N)
    BY FreeIdThere DEF Push
  <1>2. navs' = N \cup {new} /\ pending' = FreeId(N)
    BY DEF Push
  <1>3. new \in Nav /\ new.id = FreeId(N)
    BY <1>1 DEF Nav, Account
  <1> HIDE DEF new
  <1>4. IsFiniteSet(navs')
    BY <1>2, FS_AddElement DEF NavsTyped
  <1>5. \A n, m \in navs' : n.id = m.id => n = m
    BY <1>1, <1>2, <1>3 DEF NavsTyped
  <1> QED
    BY <1>1, <1>2, <1>3, <1>4, <1>5 DEF NavsTyped

LEMMA NavMoved ==
    ASSUME NEW N, NavsTyped(N), NEW n \in N, NEW next \in Nav, next.id = n.id
    PROVE  NavsTyped((N \ {n}) \cup {next})
  <1> DEFINE M == (N \ {n}) \cup {next}
  <1>1. IsFiniteSet(M)
    BY FS_RemoveElement, FS_AddElement DEF NavsTyped
  <1>2. \A m \in N \ {n} : m.id # n.id
    BY DEF NavsTyped
  <1>3. \A l, m \in M : l.id = m.id => l = m
    BY <1>2 DEF NavsTyped
  <1> QED
    BY <1>1, <1>3 DEF NavsTyped

LEMMA NavGone ==
    ASSUME NEW N, NavsTyped(N), NEW n \in N PROVE NavsTyped(N \ {n})
  BY FS_RemoveElement DEF NavsTyped

LEMMA RedirectTyped ==
    ASSUME PagesTyped, NEW n \in navs, NEW to \in Target, NEW root \in BOOLEAN, Redirect(n, to, root)
    PROVE  PagesTyped'
  <1> DEFINE next == [n EXCEPT !.to = to, !.root = root, !.at = "guard"]
  <1>1. n \in Nav
    BY DEF PagesTyped, NavsTyped
  <1>2. next \in Nav /\ next.id = n.id
    BY <1>1 DEF Nav
  <1>3. n.id \in 1 .. MaxNav
    BY <1>1 DEF Nav
  <1>4. navs' = (navs \ {n}) \cup {next} /\ pending' = n.id /\ UNCHANGED <<page, views>>
    BY DEF Redirect
  <1> HIDE DEF next
  <1>5. NavsTyped(navs')
    BY <1>2, <1>4, NavMoved DEF PagesTyped
  <1> QED
    BY <1>3, <1>4, <1>5 DEF PagesTyped

LEMMA LoadTyped ==
    ASSUME PagesTyped, NEW n \in navs, Load(n) PROVE PagesTyped'
  <1> DEFINE next == [n EXCEPT !.at = "load"]
  <1>1. n \in Nav
    BY DEF PagesTyped, NavsTyped
  <1>2. next \in Nav /\ next.id = n.id
    BY <1>1 DEF Nav
  <1>3. navs' = (navs \ {n}) \cup {next} /\ UNCHANGED <<page, pending, views>>
    BY DEF Load
  <1> HIDE DEF next
  <1>4. NavsTyped(navs')
    BY <1>2, <1>3, NavMoved DEF PagesTyped
  <1> QED
    BY <1>3, <1>4 DEF PagesTyped

LEMMA ConstantTyped == RoutesTyped /\ InitConstantRoute /\ UNCHANGED authInit => RoutesTyped'
  BY DEF RoutesTyped, InitConstantRoute

LEMMA ResetRoutesTyped == RoutesTyped /\ ResetRoutes => RoutesTyped'
  BY DEF RoutesTyped, ResetRoutes, InitConstantRoute

LEMMA InitAuthTyped == RoutesTyped /\ InitAuthRoute => RoutesTyped'
  BY DEF RoutesTyped, InitAuthRoute, RoutesOf

LEMMA RegisteredTyped == RoutesTyped => registered \in SUBSET (ConstantRoutes \cup StaticAuthRoutes)
  BY DEF RoutesTyped

LEMMA SameTyped ==
    /\ AuthTyped /\ UNCHANGED authVars => AuthTyped'
    /\ RoutesTyped /\ UNCHANGED routeVars => RoutesTyped'
    /\ PagesTyped /\ UNCHANGED navVars => PagesTyped'
    /\ CountsTyped /\ UNCHANGED <<back, login, events>> => CountsTyped'
  BY DEF AuthTyped, authVars, RoutesTyped, routeVars, PagesTyped, navVars, CountsTyped

LEMMA EndTyped ==
    ASSUME PagesTyped, RoutesTyped, NEW n \in navs, NEW there \in Target \cup {Start}, End(n, there),
           views' \subseteq RouteName
    PROVE  PagesTyped' /\ RoutesTyped'
  <1>1. NavsTyped(navs')
    BY NavGone DEF End, PagesTyped
  <1>2. RoutesTyped'
    BY ResetRoutesTyped, SameTyped DEF End
  <1> QED
    BY <1>1, <1>2 DEF End, PagesTyped

LEMMA ResetTyped ==
    ASSUME AuthTyped, RoutesTyped, PagesTyped, NEW N, NavsTyped(N), ResetStore(N)
    PROVE  AuthTyped' /\ RoutesTyped' /\ PagesTyped'
  <1>1. AuthTyped'
    BY DEF ResetStore, AuthTyped, Account
  <1>2. CASE Constant(page.name)
    BY <1>1, <1>2, ResetRoutesTyped DEF ResetStore, PagesTyped
  <1>3. CASE ~Constant(page.name)
    <2>1. page.path \in LocationPath
      BY DEF PagesTyped, Target, Start, LocationPath
    <2>2. LoginPage(page.path) \in Target
      BY <2>1, TargetsTyped
    <2>3. Push(N, LoginPage(page.path), FALSE, "resetRoutes") /\ UNCHANGED routeVars
      BY <1>3 DEF ResetStore
    <2>4. NavsTyped(navs') /\ pending' \in 1 .. MaxNav
      BY <2>2, <2>3, PushTyped
    <2>5. RoutesTyped'
      BY <2>3, SameTyped
    <2> QED
      BY <1>1, <2>4, <2>5 DEF ResetStore, PagesTyped
  <1> QED
    BY <1>2, <1>3

LEMMA DecideTyped ==
    ASSUME SessionTyped, RoutesTyped', NEW n \in navs, Decide(n)
    PROVE  PagesTyped' /\ back' \in [User -> 0 .. MaxBack]
  <1>1. back' \in [User -> 0 .. MaxBack]
    BY SessionAssumption DEF Decide, SessionTyped, CountsTyped
  <1>2. n.to \in Target /\ n.to.path \in LocationPath
    BY DEF SessionTyped, PagesTyped, NavsTyped, Nav, Target
  <1>3. registered' \in SUBSET (ConstantRoutes \cup StaticAuthRoutes)
    BY DEF RoutesTyped
  <1>4. Resolve("root", registered') \in Target /\ LoginPage(n.to.path) \in Target /\ Forbidden \in Target
    BY <1>2, <1>3, TargetsTyped DEF LocationPath
  <1>5. Load(n) \/ \E to \in Target, root \in BOOLEAN : Redirect(n, to, root)
    BY <1>4 DEF Decide
  <1> QED
    BY <1>1, <1>5, RedirectTyped, LoadTyped DEF SessionTyped

LEMMA GuardTyped ==
    ASSUME SessionTyped, NEW n \in navs, Guard(n) PROVE SessionTyped'
  <1>0. /\ n \in Nav /\ n.to \in Target /\ n.to.path \in LocationPath /\ n.root \in BOOLEAN
        /\ page \in Target \cup {Start} /\ views \subseteq RouteName
    BY DEF SessionTyped, PagesTyped, NavsTyped, Nav, Target
  <1>1. CASE GuardDuplicate(n)
    <2>1. PagesTyped' /\ RoutesTyped'
      BY <1>0, <1>1, EndTyped DEF GuardDuplicate, SessionTyped
    <2> QED
      BY <1>1, <2>1, SameTyped DEF GuardDuplicate, Guard, SessionTyped
  <1>2. CASE GuardConstant(n)
    <2>1. RoutesTyped'
      BY <1>2, ConstantTyped DEF GuardConstant, SessionTyped
    <2>2. Resolve(n.to.path, registered') \in Target
      <3>1. registered' \in SUBSET (ConstantRoutes \cup StaticAuthRoutes)
        BY <2>1 DEF RoutesTyped
      <3> QED
        BY <1>0, <3>1, TargetsTyped
    <2>3. PagesTyped'
      BY <1>0, <1>2, <2>2, RedirectTyped DEF GuardConstant, SessionTyped
    <2> QED
      BY <1>2, <2>1, <2>3, SameTyped DEF GuardConstant, Guard, SessionTyped
  <1>3. CASE GuardAnonymous(n)
    <2>1. LoginPage(LoginQuery(n.to)) \in Target
      BY <1>0, TargetsTyped DEF LoginQuery
    <2>2. PagesTyped'
      BY <1>3, <2>1, RedirectTyped, LoadTyped DEF GuardAnonymous, SessionTyped
    <2> QED
      BY <1>3, <2>2, SameTyped DEF GuardAnonymous, Guard, SessionTyped
  <1>4. CASE GuardAsksInfo(n)
    <2> DEFINE next == [n EXCEPT !.at = "info", !.who = stored]
    <2>1. next \in Nav /\ next.id = n.id
      BY <1>0 DEF Nav, SessionTyped, AuthTyped
    <2>2. navs' = (navs \ {n}) \cup {next} /\ UNCHANGED <<page, pending, views>>
      BY <1>4 DEF GuardAsksInfo
    <2> HIDE DEF next
    <2>3. NavsTyped(navs')
      BY <2>1, <2>2, NavMoved DEF SessionTyped, PagesTyped
    <2>4. PagesTyped'
      BY <2>2, <2>3 DEF SessionTyped, PagesTyped
    <2> QED
      BY <1>4, <2>4, SameTyped DEF GuardAsksInfo, Guard, SessionTyped
  <1>5. CASE GuardInit(n)
    <2>1. RoutesTyped'
      BY <1>5, InitAuthTyped DEF GuardInit, SessionTyped
    <2>2. PagesTyped' /\ back' \in [User -> 0 .. MaxBack]
      <3>1. CASE n.to.name = "not-found"
        <4> DEFINE path == IF n.root THEN "root" ELSE n.to.path
        <4>1. path \in LocationPath
          BY <1>0 DEF LocationPath
        <4>2. registered' \in SUBSET (ConstantRoutes \cup StaticAuthRoutes)
          BY <2>1 DEF RoutesTyped
        <4>3. Redirect(n, Resolve(path, registered'), n.root) /\ UNCHANGED back
          BY <1>5, <3>1 DEF GuardInit
        <4> HIDE DEF path
        <4>4. Resolve(path, registered') \in Target
          BY <4>1, <4>2, TargetsTyped
        <4> QED
          BY <1>0, <4>3, <4>4, RedirectTyped DEF SessionTyped, CountsTyped
      <3>2. CASE n.to.name # "not-found"
        BY <1>5, <2>1, <3>2, DecideTyped DEF GuardInit
      <3> QED
        BY <3>1, <3>2
    <2>3. CountsTyped'
      BY <2>2 DEF Guard, SessionTyped, CountsTyped
    <2> QED
      BY <1>5, <2>1, <2>2, <2>3, SameTyped DEF GuardInit, SessionTyped
  <1>6. CASE GuardDecides(n)
    <2>1. RoutesTyped'
      BY <1>6, SameTyped DEF GuardDecides, SessionTyped
    <2>2. PagesTyped' /\ back' \in [User -> 0 .. MaxBack]
      BY <1>6, <2>1, DecideTyped DEF GuardDecides
    <2>3. CountsTyped'
      BY <2>2 DEF Guard, SessionTyped, CountsTyped
    <2> QED
      BY <1>6, <2>1, <2>2, <2>3, SameTyped DEF GuardDecides, SessionTyped
  <1> QED
    BY <1>1, <1>2, <1>3, <1>4, <1>5, <1>6 DEF Guard

LEMMA ConfirmTyped == ASSUME SessionTyped, NEW n \in navs, Confirm(n) PROVE SessionTyped'
  <1>1. n.to \in Target /\ n.to.name \in RouteName
    BY DEF SessionTyped, PagesTyped, NavsTyped, Nav, Target
  <1>2. views' \subseteq RouteName
    BY <1>1 DEF Confirm, SessionTyped, PagesTyped
  <1>3. PICK there \in Target \cup {Start} : End(n, there)
    BY <1>1 DEF Confirm, SessionTyped, PagesTyped
  <1>4. PagesTyped' /\ RoutesTyped'
    BY <1>2, <1>3, EndTyped DEF SessionTyped
  <1> QED
    BY <1>4, SameTyped DEF Confirm, SessionTyped

LEMMA FailureTyped ==
    ASSUME SessionTyped, NEW n \in navs, LoadFails(n) \/ Rejects(n) PROVE SessionTyped'
  <1> DEFINE next == [n EXCEPT !.at = "failed"]
  <1>1. n \in Nav
    BY DEF SessionTyped, PagesTyped, NavsTyped
  <1>2. next \in Nav /\ next.id = n.id
    BY <1>1 DEF Nav
  <1>3. navs' = (navs \ {n}) \cup {next} \/ navs' = navs \ {n}
    BY DEF LoadFails, Rejects
  <1> HIDE DEF next
  <1>4. NavsTyped(navs')
    BY <1>2, <1>3, NavMoved, NavGone DEF SessionTyped, PagesTyped
  <1>5. UNCHANGED <<authVars, routeVars, page, pending, views, back, login, events>>
    BY DEF LoadFails, Rejects
  <1>6. PagesTyped'
    BY <1>4, <1>5 DEF SessionTyped, PagesTyped
  <1> QED
    BY <1>5, <1>6, SameTyped DEF SessionTyped

LEMMA InfoTyped == ASSUME SessionTyped, NEW n \in navs, InfoReply(n) PROVE SessionTyped'
  <1> DEFINE next == [n EXCEPT !.at = "init", !.who = NoUser]
             N == (navs \ {n}) \cup {next}
  <1>1. n \in Nav
    BY DEF SessionTyped, PagesTyped, NavsTyped
  <1>2. next \in Nav /\ next.id = n.id /\ n.who \in Account
    BY <1>1 DEF Nav, Account
  <1> HIDE DEF next
  <1>3. NavsTyped(N)
    BY <1>2, NavMoved DEF SessionTyped, PagesTyped
  <1>4. /\ \/ /\ user' = n.who /\ navs' = N
              /\ UNCHANGED <<stored, lastLogin, token, boot, routeVars, page, pending, views>>
           \/ ResetStore(N)
        /\ UNCHANGED <<back, login, events>>
    BY DEF InfoReply, next
  <1> HIDE DEF N
  <1>5. CountsTyped'
    BY <1>4, SameTyped DEF SessionTyped
  <1>6. CASE ResetStore(N)
    BY <1>3, <1>5, <1>6, ResetTyped DEF SessionTyped
  <1>7. CASE /\ user' = n.who /\ navs' = N
             /\ UNCHANGED <<stored, lastLogin, token, boot, routeVars, page, pending, views>>
    <2>1. AuthTyped'
      BY <1>2, <1>7 DEF SessionTyped, AuthTyped
    <2>2. PagesTyped'
      BY <1>3, <1>7 DEF SessionTyped, PagesTyped
    <2> QED
      BY <1>5, <1>7, <2>1, <2>2, SameTyped DEF SessionTyped
  <1> QED
    BY <1>4, <1>6, <1>7

LEMMA BackTyped == ASSUME SessionTyped, NEW u \in User, BackReply(u) PROVE SessionTyped'
  <1>1. CountsTyped'
    BY SessionAssumption DEF BackReply, SessionTyped, CountsTyped
  <1>2. CASE ResetStore(navs)
    BY <1>1, <1>2, ResetTyped DEF SessionTyped, PagesTyped
  <1>3. CASE user' = u /\ UNCHANGED <<stored, lastLogin, token, boot, routeVars, navVars>>
    <2>1. AuthTyped'
      BY <1>3 DEF SessionTyped, AuthTyped, Account
    <2> QED
      BY <1>1, <1>3, <2>1, SameTyped DEF SessionTyped
  <1> QED
    BY <1>2, <1>3 DEF BackReply

LEMMA LoginTyped == ASSUME SessionTyped, LoginReply PROVE SessionTyped'
  <1>1. login.who \in Account
    BY DEF SessionTyped, CountsTyped
  <1>2. CASE ResetStore(navs) /\ login' = Idle
    <2>1. CountsTyped'
      BY <1>2 DEF LoginReply, SessionTyped, CountsTyped, Idle, Account
    <2> QED
      BY <1>2, <2>1, ResetTyped DEF SessionTyped, PagesTyped
  <1>3. CASE /\ stored' = login.who /\ login' = [login EXCEPT !.at = "info"]
             /\ UNCHANGED <<lastLogin, token, boot, user, routeVars, navVars>>
    <2>1. AuthTyped'
      BY <1>1, <1>3 DEF SessionTyped, AuthTyped
    <2>2. CountsTyped'
      BY <1>3 DEF LoginReply, SessionTyped, CountsTyped
    <2> QED
      BY <1>3, <2>1, <2>2, SameTyped DEF SessionTyped
  <1> QED
    BY <1>2, <1>3 DEF LoginReply

LEMMA LoginInfoTyped == ASSUME SessionTyped, LoginInfo PROVE SessionTyped'
  <1>1. login.who \in Account
    BY DEF SessionTyped, CountsTyped
  <1>2. CountsTyped'
    BY DEF LoginInfo, SessionTyped, CountsTyped, Idle, Account
  <1>3. RoutesTyped'
    BY SameTyped DEF LoginInfo, SessionTyped
  <1>4. CASE UNCHANGED <<authVars, navVars>>
    BY <1>2, <1>3, <1>4, SameTyped DEF SessionTyped
  <1>5. CASE ~(UNCHANGED <<authVars, navVars>>)
    <2> DEFINE path == IF lastLogin # login.who \/ page.ask = "none" THEN "root" ELSE page.ask
    <2>1. /\ user' = login.who /\ token' = login.who /\ lastLogin' = NoUser
          /\ Push(navs, Resolve(path, registered), path = "root", "nothing")
          /\ UNCHANGED <<stored, boot, page, views>>
      BY <1>5 DEF LoginInfo
    <2>2. page.ask \in LocationPath \cup {"none"}
      BY DEF SessionTyped, PagesTyped, Target, Start
    <2>3. path \in LocationPath
      BY <2>2 DEF LocationPath
    <2> HIDE DEF path
    <2>4. Resolve(path, registered) \in Target
      BY <2>3, TargetsTyped, RegisteredTyped DEF SessionTyped
    <2>5. (path = "root") \in BOOLEAN
      OBVIOUS
    <2>6. NavsTyped(navs') /\ pending' \in 1 .. MaxNav
      BY <2>1, <2>4, <2>5, PushTyped DEF SessionTyped, PagesTyped
    <2>7. AuthTyped'
      BY <1>1, <2>1 DEF SessionTyped, AuthTyped, Account
    <2>8. PagesTyped'
      BY <2>1, <2>6 DEF SessionTyped, PagesTyped
    <2> QED
      BY <1>2, <1>3, <2>7, <2>8 DEF SessionTyped
  <1> QED
    BY <1>4, <1>5

LEMMA EventsTyped ==
    ASSUME SessionTyped,
           \/ \E u \in User : LoginSubmit(u)
           \/ \E path \in Path : Navigate(path) \/ Reload(path)
           \/ EndSession
    PROVE  SessionTyped'
  <1>0. events < MaxEvents /\ events' = events + 1 => events' \in 0 .. MaxEvents
    BY SessionAssumption DEF SessionTyped, CountsTyped
  <1>1. ASSUME NEW u \in User, LoginSubmit(u) PROVE SessionTyped'
    <2>1. CountsTyped'
      BY <1>0, <1>1 DEF LoginSubmit, SessionTyped, CountsTyped, Account
    <2> QED
      BY <1>1, <2>1, SameTyped DEF LoginSubmit, SessionTyped
  <1>2. ASSUME NEW path \in Path, Navigate(path) PROVE SessionTyped'
    <2>1. CountsTyped'
      BY <1>0, <1>2 DEF Navigate, SessionTyped, CountsTyped
    <2>2. Resolve(path, registered) \in Target
      BY TargetsTyped, RegisteredTyped DEF SessionTyped, LocationPath
    <2>3. (path = "root") \in BOOLEAN
      OBVIOUS
    <2>4. NavsTyped(navs') /\ pending' \in 1 .. MaxNav
      BY <1>2, <2>2, <2>3, PushTyped DEF Navigate, SessionTyped, PagesTyped
    <2>5. PagesTyped'
      BY <1>2, <2>4 DEF Navigate, SessionTyped, PagesTyped
    <2> QED
      BY <1>2, <2>1, <2>5, SameTyped DEF Navigate, SessionTyped
  <1>3. ASSUME NEW path \in Path, Reload(path) PROVE SessionTyped'
    <2>1. CountsTyped'
      BY <1>0, <1>3, SessionAssumption DEF Reload, CountsTyped, Idle, Account
    <2>2. PagesTyped'
      <3>1. NavsTyped(navs')
        BY <1>3, OpeningTyped DEF Reload
      <3> QED
        BY <1>3, <3>1, SessionAssumption DEF Reload, PagesTyped
    <2>3. AuthTyped' /\ RoutesTyped'
      BY <1>3 DEF Reload, SessionTyped, AuthTyped, RoutesTyped, Account
    <2> QED
      BY <2>1, <2>2, <2>3 DEF SessionTyped
  <1>4. CASE EndSession
    <2>1. CountsTyped'
      BY <1>0, <1>4 DEF EndSession, SessionTyped, CountsTyped
    <2> QED
      BY <1>4, <2>1, ResetTyped DEF EndSession, SessionTyped, PagesTyped
  <1> QED
    BY <1>1, <1>2, <1>3, <1>4

LEMMA SessionTypedStep == SessionTyped /\ [SessionNext]_sessionVars => SessionTyped'
  <1>1. SessionTyped /\ UNCHANGED sessionVars => SessionTyped'
    BY SameTyped DEF sessionVars, SessionTyped
  <1> QED
    BY <1>1, GuardTyped, ConfirmTyped, FailureTyped, InfoTyped, BackTyped, LoginTyped, LoginInfoTyped, EventsTyped
       DEF SessionNext, Jobs, Replies

-----------------------------------------------------------------------------
(* Types of the upload queue.  What a task, a loop or a reply says of the  *)
(* chunks of a file is about the chunks this file has: an object that a    *)
(* loop or a request still refers to keeps its file.                       *)
Rowed(o) == o \in [Object -> Task] /\ \A n \in Object : o[n].up \subseteq ChunkIds(o[n].file)

LoopTyped(l, o) ==
    /\ l \in Loop /\ o[l.object].file = l.file /\ l.up \subseteq ChunkIds(l.file)
    /\ l.awaits = "chunk" => l.chunk \in ChunkIds(l.file)

AskTyped(r, o) ==
    r \in Asked /\ (r.kind = "status" => r.up \subseteq ChunkIds(o[r.object].file))

LoopsTyped(ls, o) == \A l \in ls : LoopTyped(l, o)
AsksTyped(rs, o) == \A r \in rs : AskTyped(r, o)

ServerTyped ==
    /\ record \in [File -> {"none", "uploading", "completed"}]
    /\ marks = [f \in File |-> marks[f]] /\ \A f \in File : marks[f] \subseteq ChunkIds(f)

UploadsTyped ==
    /\ UploadClientInv
    /\ Rowed(object) /\ LoopsTyped(loops, object) /\ AsksTyped(asked, object)
    /\ commands \in 0 .. MaxCommands /\ ServerTyped

(* The step leaves the file of every object alone.                         *)
Refiled(o, p) == Rowed(p) /\ \A n \in Object : p[n].file = o[n].file

TaskStatus == {"Uploading", "Completed", "Pending", "Break"}

LEMMA UploadsTypedOK == UploadsTyped => UploadClientTypeOK
  <1> SUFFICES ASSUME UploadsTyped
               PROVE  UploadClientTypeOK
    OBVIOUS
  <1>1. \A i \in DOMAIN tasks : tasks[i] \in Object
    BY ElementOfSeq DEF UploadsTyped, UploadClientInv, QueueInv
  <1>2. active \subseteq File
    BY DEF UploadsTyped, UploadClientInv, QueueInv, Slots, LoopsTyped, LoopTyped, Loop
  <1>3. object \in [Object -> Task]
    BY DEF UploadsTyped, Rowed
  <1>4. (\A l \in loops : l \in Loop) /\ \A r \in asked : r \in Asked
    BY DEF UploadsTyped, LoopsTyped, LoopTyped, AsksTyped, AskTyped
  <1> QED
    BY <1>1, <1>2, <1>3, <1>4 DEF UploadsTyped, UploadClientTypeOK, ServerTyped

LEMMA ChunksOfFile ==
    ASSUME NEW f \in File
    PROVE  /\ ChunkIds(f) \subseteq Nat /\ ChunkIds(f) \subseteq UNION {ChunkIds(g) : g \in File}
           /\ IsFiniteSet(ChunkIds(f)) /\ Cardinality(ChunkIds(f)) = Chunks[f] /\ Chunks[f] \in Nat
  <1>1. Chunks[f] \in Nat
    BY UploadClientAssumption
  <1>2. IsFiniteSet(0 .. Chunks[f] - 1) /\ Cardinality(0 .. Chunks[f] - 1) = Chunks[f]
    <2> DEFINE last == Chunks[f] - 1
    <2>1. last \in Int /\ last + 1 = Chunks[f]
      BY <1>1
    <2> HIDE DEF last
    <2>2. IsFiniteSet(0 .. last) /\ Cardinality(0 .. last) = IF 0 > last THEN 0 ELSE last - 0 + 1
      BY <2>1, FS_Interval
    <2>3. Cardinality(0 .. last) = Chunks[f]
      BY <1>1, <2>1, <2>2
    <2> QED
      BY <2>2, <2>3 DEF last
  <1> QED
    BY <1>1, <1>2 DEF ChunkIds

LEMMA UploadsTypedInit == UploadClientInit => UploadsTyped
  <1> SUFFICES ASSUME UploadClientInit
               PROVE  UploadsTyped
    OBVIOUS
  <1> DEFINE f == CHOOSE g \in File : TRUE
             row == [file |-> f, status |-> "Break", known |-> FALSE, up |-> {}]
  <1>1. f \in File
    BY UploadClientAssumption
  <1>2. object = [n \in Object |-> row]
    BY DEF UploadClientInit
  <1> HIDE DEF f
  <1>3. row \in Task /\ row.up \subseteq ChunkIds(row.file)
    BY <1>1 DEF Task
  <1> HIDE DEF row
  <1>4. Rowed(object)
    BY <1>2, <1>3 DEF Rowed
  <1>5. LoopsTyped(loops, object) /\ AsksTyped(asked, object)
    BY DEF UploadClientInit, LoopsTyped, AsksTyped
  <1>6. ServerTyped
    BY DEF UploadClientInit, ServerTyped
  <1>7. commands \in 0 .. MaxCommands
    BY UploadClientAssumption DEF UploadClientInit
  <1> QED
    BY <1>4, <1>5, <1>6, <1>7, UploadClientStarts DEF UploadsTyped

(* Changes of a task.                                                      *)
LEMMA RowPut ==
    ASSUME NEW o, Rowed(o), NEW n \in Object, NEW t \in Task, t.up \subseteq ChunkIds(t.file)
    PROVE  Rowed([o EXCEPT ![n] = t])
  BY DEF Rowed

LEMMA RowKept ==
    ASSUME NEW o, Rowed(o), NEW n \in Object, NEW t \in Task, t.up \subseteq ChunkIds(t.file),
           t.file = o[n].file
    PROVE  Refiled(o, [o EXCEPT ![n] = t])
  BY DEF Rowed, Refiled

LEMMA StatusPut ==
    ASSUME NEW o, Rowed(o), NEW n \in Object, NEW status \in TaskStatus
    PROVE  Refiled(o, [o EXCEPT ![n].status = status])
  <1> DEFINE t == [o[n] EXCEPT !.status = status]
  <1>1. o[n] \in Task /\ o[n].up \subseteq ChunkIds(o[n].file)
    BY DEF Rowed
  <1>2. t \in Task /\ t.file = o[n].file /\ t.up = o[n].up
    BY <1>1 DEF Task, TaskStatus
  <1>3. [o EXCEPT ![n].status = status] = [o EXCEPT ![n] = t]
    OBVIOUS
  <1> HIDE DEF t
  <1> QED
    BY <1>1, <1>2, <1>3, RowKept

LEMMA MarksPut ==
    ASSUME NEW o, Rowed(o), NEW n \in Object, NEW up, up \subseteq ChunkIds(o[n].file)
    PROVE  Refiled(o, [o EXCEPT ![n].up = up])
  <1> DEFINE t == [o[n] EXCEPT !.up = up]
  <1>1. o[n] \in Task
    BY DEF Rowed
  <1>2. o[n].file \in File
    BY <1>1 DEF Task
  <1>3. up \subseteq UNION {ChunkIds(g) : g \in File}
    BY <1>2, ChunksOfFile
  <1>4. t \in Task /\ t.file = o[n].file /\ t.up = up
    BY <1>1, <1>3 DEF Task
  <1>5. [o EXCEPT ![n].up = up] = [o EXCEPT ![n] = t]
    OBVIOUS
  <1> HIDE DEF t
  <1> QED
    BY <1>4, <1>5, RowKept

LEMMA RefiledAgain ==
    ASSUME NEW o, NEW p, NEW q, Refiled(o, p), Refiled(p, q)
    PROVE  Refiled(o, q)
  BY DEF Refiled

LEMMA LoopsStayTyped ==
    ASSUME NEW o, NEW p, Refiled(o, p), NEW ls, LoopsTyped(ls, o)
    PROVE  LoopsTyped(ls, p)
  <1> SUFFICES ASSUME NEW l \in ls
               PROVE  LoopTyped(l, p)
    BY DEF LoopsTyped
  <1>1. l \in Loop /\ LoopTyped(l, o)
    BY DEF LoopsTyped, LoopTyped
  <1>2. l.object \in Object
    BY <1>1 DEF Loop
  <1> QED
    BY <1>1, <1>2 DEF LoopTyped, Refiled

LEMMA AsksStayTyped ==
    ASSUME NEW o, NEW p, Refiled(o, p), NEW rs, AsksTyped(rs, o)
    PROVE  AsksTyped(rs, p)
  <1> SUFFICES ASSUME NEW r \in rs
               PROVE  AskTyped(r, p)
    BY DEF AsksTyped
  <1>1. r \in Asked /\ AskTyped(r, o)
    BY DEF AsksTyped, AskTyped
  <1>2. r.kind = "status" => r.object \in Object
    BY <1>1 DEF Asked
  <1> QED
    BY <1>1, <1>2 DEF AskTyped, Refiled

LEMMA FoundRow ==
    ASSUME QueueInv, NEW f, Listed(f)
    PROVE  Find(f) \in Object /\ object[Find(f)].file = f
  <1> DEFINE i == Min(Rows(tasks, object, f))
  <1>1. Rows(tasks, object, f) \subseteq Nat /\ Rows(tasks, object, f) # {}
    BY DEF Rows, Listed, QueueInv
  <1>2. i \in Rows(tasks, object, f)
    BY <1>1, LeastNatural
  <1>3. i \in DOMAIN tasks /\ object[tasks[i]].file = f
    BY <1>2 DEF Rows
  <1> HIDE DEF i
  <1>4. tasks[i] \in Object
    BY <1>3, ElementOfSeq DEF QueueInv
  <1> QED
    BY <1>3, <1>4 DEF Find, i

LEMMA StatusSetTyped ==
    ASSUME QueueInv, Rowed(object), NEW f, NEW status \in TaskStatus
    PROVE  Refiled(object, SetStatus(f, status))
  <1>1. CASE Listed(f)
    BY <1>1, FoundRow, StatusPut DEF SetStatus
  <1>2. CASE ~Listed(f)
    BY <1>2 DEF SetStatus, Refiled
  <1> QED
    BY <1>1, <1>2

(* The next chunk is one of the file.                                      *)
LEMMA NextChunk ==
    ASSUME NEW t, t.file \in File, NEW from, Remaining(t, from) # {}
    PROVE  Min(Remaining(t, from)) \in ChunkIds(t.file)
  <1>1. Remaining(t, from) \subseteq Nat
    BY ChunksOfFile DEF Remaining
  <1>2. Min(Remaining(t, from)) \in Remaining(t, from)
    BY <1>1, LeastNatural
  <1> QED
    BY <1>2 DEF Remaining

LEMMA LoopMade ==
    ASSUME NEW o, NEW n \in Object, NEW f \in File, o[n].file = f, NEW chunk,
           NEW awaits, \/ awaits = "chunk" /\ chunk \in ChunkIds(f)
                       \/ awaits = "merge" /\ chunk \in Nat
    PROVE  LoopTyped(LoopAt(n, f, chunk, awaits), o)
  <1>1. chunk \in Nat
    BY ChunksOfFile
  <1> QED
    BY <1>1 DEF LoopAt, LoopTyped, Loop

LEMMA EntersTyped ==
    ASSUME NEW o, NEW n \in Object, NEW t \in Task, t.up \subseteq ChunkIds(t.file),
           o[n].file = t.file
    PROVE  LoopTyped(Enters(n, t), o)
  <1>1. t.file \in File
    BY DEF Task
  <1>2. CASE Cardinality(t.up) = Chunks[t.file]
    BY <1>1, <1>2, LoopMade DEF Enters
  <1>3. CASE Cardinality(t.up) # Chunks[t.file]
    <2>1. t.up # ChunkIds(t.file)
      BY <1>1, <1>3, ChunksOfFile
    <2>2. PICK c \in ChunkIds(t.file) : c \notin t.up
      BY <2>1
    <2>3. c \in Nat
      BY <1>1, <2>2, ChunksOfFile
    <2>4. c \in Remaining(t, 0)
      BY <2>2, <2>3 DEF Remaining
    <2>5. Min(Remaining(t, 0)) \in ChunkIds(t.file)
      BY <1>1, <2>4, NextChunk
    <2>6. Enters(n, t) = LoopAt(n, t.file, Min(Remaining(t, 0)), "chunk")
      BY <1>3 DEF Enters
    <2> QED
      BY <1>1, <2>5, <2>6, LoopMade
  <1> QED
    BY <1>2, <1>3

(* Starting the next upload.                                               *)
LEMMA StartTyped ==
    ASSUME NEW ts \in Seq(Object), NEW o, Rowed(o), NEW a, NEW ls, LoopsTyped(ls, o),
           StartUpload(ts, o, a, ls)
    PROVE  Refiled(o, object') /\ LoopsTyped(loops', object')
  <1> DEFINE queued == Eligible(ts, o, a)
             ready == {i \in queued : CanAsk(o[ts[i]])}
             broken == {ts[i] : i \in {j \in queued : \A k \in ready : j < k}}
             breaks == [n \in Object |->
                          IF n \in broken THEN [o[n] EXCEPT !.status = "Break"] ELSE o[n]]
             first == Min(ready)
             n == ts[first]
  <1>1. Refiled(o, breaks)
    <2>1. ASSUME NEW m \in Object
          PROVE  /\ breaks[m] \in Task /\ breaks[m].file = o[m].file
                 /\ breaks[m].up = o[m].up
      <3>1. o[m] \in Task
        BY DEF Rowed
      <3>2. /\ [o[m] EXCEPT !.status = "Break"] \in Task
            /\ [o[m] EXCEPT !.status = "Break"].file = o[m].file
            /\ [o[m] EXCEPT !.status = "Break"].up = o[m].up
        BY <3>1 DEF Task
      <3> HIDE DEF broken
      <3> QED
        BY <3>1, <3>2
    <2>2. breaks = [m \in Object |-> breaks[m]]
      OBVIOUS
    <2> HIDE DEF breaks
    <2> QED
      BY <2>1, <2>2 DEF Refiled, Rowed
  <1>2. ready # {} => first \in ready
    <2>1. ready \subseteq Nat
      BY DEF Eligible
    <2> HIDE DEF ready
    <2> QED
      BY <2>1, LeastNatural
  <1>3. ready # {} => n \in Object
    <2>1. ready \subseteq DOMAIN ts
      BY DEF Eligible
    <2> HIDE DEF ready, first
    <2> QED
      BY <1>2, <2>1, ElementOfSeq
  <1>4. \/ object' = o /\ loops' = ls
        \/ object' = breaks /\ loops' = ls
        \/ /\ ready # {}
           /\ object' = [breaks EXCEPT ![n].status = "Uploading"]
           /\ loops' = ls \cup {Enters(n, o[n])}
    BY DEF StartUpload
  <1> HIDE DEF queued, ready, broken, breaks, first, n
  <1>5. Refiled(o, object')
    <2>1. Refiled(o, o)
      BY DEF Refiled
    <2>2. CASE ready # {} /\ object' = [breaks EXCEPT ![n].status = "Uploading"]
      <3>1. Rowed(breaks) /\ n \in Object
        BY <1>1, <1>3, <2>2 DEF Refiled
      <3>2. Refiled(breaks, object')
        BY <2>2, <3>1, StatusPut DEF TaskStatus
      <3> QED
        BY <1>1, <3>2, RefiledAgain
    <2> QED
      BY <1>1, <1>4, <2>1, <2>2
  <1>6. LoopsTyped(ls, object')
    BY <1>5, LoopsStayTyped
  <1>7. CASE loops' = ls
    BY <1>5, <1>6, <1>7
  <1>8. CASE ready # {} /\ loops' = ls \cup {Enters(n, o[n])}
    <2>1. n \in Object /\ o[n] \in Task /\ o[n].up \subseteq ChunkIds(o[n].file)
      BY <1>3, <1>8 DEF Rowed
    <2>2. object'[n].file = o[n].file
      BY <1>5, <2>1 DEF Refiled
    <2>3. LoopTyped(Enters(n, o[n]), object')
      BY <2>1, <2>2, EntersTyped
    <2> QED
      BY <1>5, <1>6, <1>8, <2>3 DEF LoopsTyped
  <1> QED
    BY <1>4, <1>5, <1>7, <1>8

(* The queue after a step of a loop: the objects keep their files.         *)
QueueTyped == Refiled(object, object') /\ LoopsTyped(loops', object')

LEMMA EndTypedLoop ==
    ASSUME UploadsTyped, NEW l \in loops, NEW o, Refiled(object, o), Finally(l, o)
    PROVE  QueueTyped
  <1>1. LoopsTyped(loops \ {l}, o)
    <2>1. LoopsTyped(loops, o)
      BY LoopsStayTyped DEF UploadsTyped
    <2> QED
      BY <2>1 DEF LoopsTyped
  <1>2. Rowed(o) /\ tasks \in Seq(Object)
    BY DEF Refiled, UploadsTyped, UploadClientInv, QueueInv
  <1>3. Refiled(o, object') /\ LoopsTyped(loops', object')
    BY <1>1, <1>2, StartTyped DEF Finally
  <1> QED
    BY <1>3, RefiledAgain DEF QueueTyped

LEMMA ThrowTyped ==
    ASSUME UploadsTyped, NEW l \in loops, Throws(l)
    PROVE  QueueTyped
  <1>1. Refiled(object, SetStatus(l.file, "Break"))
    BY StatusSetTyped DEF UploadsTyped, UploadClientInv, TaskStatus
  <1> QED
    BY <1>1, EndTypedLoop DEF Throws

(* A loop replaced by its next request.                                    *)
LEMMA LoopNext ==
    ASSUME UploadsTyped, NEW l \in loops, NEW o, Refiled(object, o), NEW k, LoopTyped(k, o),
           object' = o, loops' = (loops \ {l}) \cup {k}
    PROVE  QueueTyped
  <1>1. LoopsTyped(loops, o)
    BY LoopsStayTyped DEF UploadsTyped
  <1> QED
    BY <1>1 DEF LoopsTyped, QueueTyped

LEMMA LoopOwn ==
    ASSUME UploadsTyped, NEW l \in loops, NEW o, Refiled(object, o)
    PROVE  /\ l \in Loop /\ l.object \in Object /\ l.file \in File /\ o[l.object].file = l.file
           /\ LoopTyped(l, o)
  <1>1. LoopTyped(l, o)
    BY LoopsStayTyped DEF UploadsTyped, LoopsTyped
  <1> QED
    BY <1>1 DEF LoopTyped, Loop

LEMMA ContinueTyped ==
    ASSUME UploadsTyped, NEW l \in loops, NEW o, Refiled(object, o), Continue(l, o)
    PROVE  QueueTyped
  <1> DEFINE from == l.chunk + IF l.awaits = "chunk" THEN 1 ELSE 0
             t == o[l.object]
             left == Remaining(t, from)
  <1>1. CASE left = {}
    BY <1>1, EndTypedLoop DEF Continue
  <1>2. CASE left # {} /\ t.known
    <2>1. l.object \in Object /\ l.file \in File /\ t.file = l.file
      BY LoopOwn
    <2>2. object' = o /\ loops' = (loops \ {l}) \cup {LoopAt(l.object, l.file, Min(left), "chunk")}
      BY <1>2 DEF Continue
    <2> HIDE DEF from
    <2>3. Min(left) \in ChunkIds(l.file)
      <3> HIDE DEF t
      <3> QED
        BY <1>2, <2>1, NextChunk
    <2> HIDE DEF left
    <2>4. LoopTyped(LoopAt(l.object, l.file, Min(left), "chunk"), o)
      BY <2>1, <2>3, LoopMade
    <2> QED
      BY <2>2, <2>4, LoopNext
  <1>3. CASE left # {} /\ ~t.known
    BY <1>3, ThrowTyped DEF Continue
  <1> QED
    BY <1>1, <1>2, <1>3

LEMMA AnswerTypedLoop ==
    ASSUME UploadsTyped, NEW l \in loops, NEW reply \in {"ok", "error"}, NEW up,
           up \subseteq ChunkIds(l.file), Answer(l, reply, up), object' = object
    PROVE  QueueTyped
  <1> DEFINE k == [l EXCEPT !.reply = reply, !.up = up]
  <1>1. Refiled(object, object)
    BY DEF Refiled, UploadsTyped
  <1>2. l \in Loop /\ l.file \in File /\ LoopTyped(l, object)
    BY <1>1, LoopOwn
  <1>3. up \subseteq Nat
    BY <1>2, ChunksOfFile
  <1>4. /\ k \in Loop /\ k.object = l.object /\ k.file = l.file /\ k.awaits = l.awaits
        /\ k.chunk = l.chunk /\ k.up = up
    BY <1>2, <1>3 DEF Loop
  <1>5. loops' = (loops \ {l}) \cup {k}
    BY DEF Answer
  <1> HIDE DEF k
  <1>6. LoopTyped(k, object)
    BY <1>2, <1>4 DEF LoopTyped
  <1> QED
    BY <1>1, <1>5, <1>6, LoopNext

LEMMA ReplyTyped ==
    ASSUME UploadsTyped, NEW l \in loops, ReplyChunk(l) \/ ReplyMerge(l) \/ ReplyError(l)
    PROVE  QueueTyped
  <1>0. QueueInv /\ Rowed(object)
    BY DEF UploadsTyped, UploadClientInv
  <1>1. CASE Throws(l)
    BY <1>1, ThrowTyped
  <1>2. CASE ReplyMerge(l) /\ ~Throws(l)
    <2>1. Refiled(object, SetStatus(l.file, "Completed"))
      BY <1>0, StatusSetTyped DEF TaskStatus
    <2> QED
      BY <1>2, <2>1, ContinueTyped DEF ReplyMerge
  <1>3. CASE ReplyChunk(l) /\ Listed(l.file)
    <2> DEFINE o == [object EXCEPT ![Find(l.file)].up = l.up]
    <2>0. Refiled(object, object)
      BY <1>0 DEF Refiled
    <2>1. l \in Loop /\ l.object \in Object /\ l.file \in File /\ LoopTyped(l, object)
      BY <2>0, LoopOwn
    <2>2. Refiled(object, o)
      BY <1>0, <1>3, <2>1, FoundRow, MarksPut DEF LoopTyped
    <2>3. \/ object' = o /\ loops' = (loops \ {l}) \cup {LoopAt(l.object, l.file, l.chunk + 1, "merge")}
          \/ Continue(l, o)
      BY <1>3 DEF ReplyChunk
    <2> HIDE DEF o
    <2>4. LoopTyped(LoopAt(l.object, l.file, l.chunk + 1, "merge"), o)
      <3>1. l.chunk + 1 \in Nat
        BY <2>1 DEF Loop
      <3>2. o[l.object].file = l.file
        BY <2>2, LoopOwn
      <3> QED
        BY <2>1, <3>1, <3>2, LoopMade
    <2> QED
      BY <2>2, <2>3, <2>4, LoopNext, ContinueTyped
  <1> QED
    BY <1>1, <1>2, <1>3 DEF ReplyChunk, ReplyMerge, ReplyError

-----------------------------------------------------------------------------
(* The bounds and the server.                                              *)
LEMMA QueueThere == UploadsTyped => QueueInv /\ Rowed(object) /\ tasks \in Seq(Object)
  BY DEF UploadsTyped, UploadClientInv, QueueInv

LEMMA MarksOwn ==
    ASSUME UploadsTyped, NEW f \in File
    PROVE  marks[f] \subseteq ChunkIds(f)
  BY DEF UploadsTyped, ServerTyped

LEMMA ServedTyped ==
    ASSUME UploadsTyped, NEW l \in loops, ServeChunk(l) \/ ServeMerge(l) \/ ServeError(l)
    PROVE  QueueTyped /\ ServerTyped'
  <1>0. Refiled(object, object)
    BY QueueThere DEF Refiled
  <1>1. l \in Loop /\ l.file \in File /\ LoopTyped(l, object)
    BY <1>0, LoopOwn
  <1>2. ServerTyped
    BY DEF UploadsTyped
  <1>3. CASE ServeChunk(l)
    <2>1. l.chunk \in ChunkIds(l.file)
      BY <1>1, <1>3 DEF ServeChunk, LoopTyped
    <2>2. marks' = [marks EXCEPT ![l.file] = marks[l.file] \cup {l.chunk}]
      BY <1>3 DEF ServeChunk
    <2>3. marks' = [f \in File |-> marks'[f]] /\ \A f \in File : marks'[f] \subseteq ChunkIds(f)
      BY <1>1, <1>2, <2>1, <2>2 DEF ServerTyped
    <2>4. record' \in [File -> {"none", "uploading", "completed"}]
      BY <1>1, <1>2, <1>3 DEF ServeChunk, ServerTyped
    <2>5. marks'[l.file] \subseteq ChunkIds(l.file) /\ {} \subseteq ChunkIds(l.file)
      BY <1>1, <2>3
    <2>6. (Answer(l, "ok", marks'[l.file]) \/ Answer(l, "error", {})) /\ object' = object
      BY <1>3 DEF ServeChunk
    <2>7. QueueTyped
      BY <2>5, <2>6, AnswerTypedLoop
    <2> QED
      BY <2>3, <2>4, <2>7 DEF ServerTyped
  <1>4. CASE ServeMerge(l)
    <2>1. record' = [record EXCEPT ![l.file] = "completed"] /\ marks' = marks
      BY <1>4 DEF ServeMerge
    <2>2. ServerTyped'
      BY <1>1, <1>2, <2>1 DEF ServerTyped
    <2>3. (Answer(l, "ok", {}) \/ Answer(l, "error", {})) /\ object' = object
      BY <1>4 DEF ServeMerge
    <2>4. QueueTyped
      BY <2>3, AnswerTypedLoop
    <2> QED
      BY <2>2, <2>4
  <1>5. CASE ServeError(l)
    <2>1. Answer(l, "error", {}) /\ object' = object /\ UNCHANGED <<record, marks>>
      BY <1>5 DEF ServeError, serverVars
    <2>2. QueueTyped
      BY <2>1, AnswerTypedLoop
    <2> QED
      BY <1>2, <2>1, <2>2 DEF ServerTyped
  <1> QED
    BY <1>3, <1>4, <1>5

LEMMA ServerRests == UploadsTyped /\ UNCHANGED <<record, marks>> => ServerTyped'
  BY DEF UploadsTyped, ServerTyped

(* A step that keeps the files of the objects, and the requests.           *)
UploadTypes ==
    /\ Rowed(object)' /\ LoopsTyped(loops', object') /\ AsksTyped(asked', object')
    /\ commands' \in 0 .. MaxCommands /\ ServerTyped'

LEMMA CommandsBounded ==
    ASSUME UploadsTyped, commands' = commands \/ Click
    PROVE  commands' \in 0 .. MaxCommands
  <1>1. commands \in 0 .. MaxCommands /\ MaxCommands \in Nat
    BY UploadClientAssumption DEF UploadsTyped
  <1> QED
    BY <1>1 DEF Click

LEMMA LoopStepTyped ==
    ASSUME UploadsTyped, NEW l \in loops, LoopStep(l)
    PROVE  UploadTypes
  <1>1. QueueTyped /\ ServerTyped'
    <2>1. CASE ServeChunk(l) \/ ServeMerge(l) \/ ServeError(l)
      BY <2>1, ServedTyped
    <2>2. CASE ReplyChunk(l) \/ ReplyMerge(l) \/ ReplyError(l)
      <3>1. UNCHANGED <<record, marks>>
        BY <2>2 DEF ReplyChunk, ReplyMerge, ReplyError, serverVars
      <3> QED
        BY <2>2, <3>1, ReplyTyped, ServerRests
    <2> QED
      BY <2>1, <2>2 DEF LoopStep, Ends
  <1>2. asked' = asked /\ commands' = commands
    BY DEF LoopStep, Ends, ServeChunk, ServeMerge, ServeError, ReplyChunk, ReplyMerge, ReplyError
  <1>3. AsksTyped(asked', object')
    BY <1>1, <1>2, AsksStayTyped DEF QueueTyped, UploadsTyped
  <1>4. commands' \in 0 .. MaxCommands
    BY <1>2, CommandsBounded
  <1> QED
    BY <1>1, <1>3, <1>4 DEF QueueTyped, Refiled, Rowed, UploadTypes, Object, ChunkIds, Task

(* Only objects that nothing refers to get another file.                   *)
LEMMA OthersKeepFile ==
    ASSUME UploadsTyped, NEW p, Rowed(p), \A n \in Object \ FreeObjects : p[n].file = object[n].file
    PROVE  LoopsTyped(loops, p) /\ AsksTyped(asked, p)
  <1>1. ASSUME NEW l \in loops
        PROVE  LoopTyped(l, p)
    <2>1. LoopTyped(l, object) /\ l \in Loop
      BY DEF UploadsTyped, LoopsTyped, LoopTyped
    <2>2. l.object \in Object \ FreeObjects
      BY <2>1 DEF FreeObjects, Loop
    <2> QED
      BY <2>1, <2>2 DEF LoopTyped
  <1>2. ASSUME NEW r \in asked
        PROVE  AskTyped(r, p)
    <2>1. AskTyped(r, object) /\ r \in Asked
      BY DEF UploadsTyped, AsksTyped, AskTyped
    <2>2. r.kind = "status" => r.object \in Object \ FreeObjects
      BY <2>1 DEF FreeObjects, Asked
    <2> QED
      BY <2>1, <2>2 DEF AskTyped
  <1> QED
    BY <1>1, <1>2 DEF LoopsTyped, AsksTyped

LEMMA AsksLeft ==
    ASSUME NEW rs, NEW o, AsksTyped(rs, o), NEW us, us \subseteq rs
    PROVE  AsksTyped(us, o)
  BY DEF AsksTyped

(* Starting the next upload with objects of which only free ones changed   *)
(* their file.                                                             *)
LEMMA StartedTyped ==
    ASSUME UploadsTyped, NEW ts \in Seq(Object), NEW o, Rowed(o),
           \A n \in Object \ FreeObjects : o[n].file = object[n].file,
           StartUpload(ts, o, active, loops), asked' \subseteq asked
    PROVE  Rowed(object)' /\ LoopsTyped(loops', object') /\ AsksTyped(asked', object')
  <1>1. LoopsTyped(loops, o) /\ AsksTyped(asked, o)
    BY OthersKeepFile
  <1>2. Refiled(o, object') /\ LoopsTyped(loops', object')
    BY <1>1, StartTyped
  <1>3. AsksTyped(asked', object')
    BY <1>1, <1>2, AsksStayTyped, AsksLeft
  <1> QED
    BY <1>2, <1>3 DEF Refiled, Rowed, Object, ChunkIds, Task

LEMMA RefiledStarted ==
    ASSUME UploadsTyped, NEW o, Refiled(object, o), StartUpload(tasks, o, active, loops),
           asked' \subseteq asked
    PROVE  Rowed(object)' /\ LoopsTyped(loops', object') /\ AsksTyped(asked', object')
  BY StartedTyped, QueueThere DEF Refiled

LEMMA QueueStays ==
    ASSUME UploadsTyped, UNCHANGED <<object, loops>>
    PROVE  Rowed(object)' /\ LoopsTyped(loops', object')
  BY DEF UploadsTyped, Rowed, Object, ChunkIds, Task

LEMMA ListReplyTyped ==
    ASSUME UploadsTyped, NEW r \in asked, ListReply(r)
    PROVE  Rowed(object)' /\ LoopsTyped(loops', object') /\ AsksTyped(asked', object')
  <1> DEFINE new == {f \in r.files : ~Listed(f)}
  <1>0. loops' = loops /\ asked' \subseteq asked
    BY DEF ListReply
  <1>1. CASE UNCHANGED object
    <2>1. AsksTyped(asked', object')
      BY <1>0, <1>1, AsksLeft DEF UploadsTyped
    <2> QED
      BY <1>0, <1>1, <2>1, QueueStays
  <1>2. ASSUME NEW row \in [new -> FreeObjects],
               object' = [n \in Object |->
                      IF \E f \in new : row[f] = n
                      THEN [file |-> CHOOSE f \in new : row[f] = n,
                            status |-> "Completed", known |-> FALSE, up |-> {}]
                      ELSE IF \E f \in r.files : Listed(f) /\ Find(f) = n
                      THEN [object[n] EXCEPT !.status = "Completed"] ELSE object[n]]
        PROVE  Rowed(object)' /\ LoopsTyped(loops', object') /\ AsksTyped(asked', object')
    <2>1. r.files \subseteq File
      BY DEF UploadsTyped, AsksTyped, AskTyped, Asked, ListReply
    <2>2. ASSUME NEW n \in Object
          PROVE  /\ object'[n] \in Task /\ object'[n].up \subseteq ChunkIds(object'[n].file)
                 /\ n \notin FreeObjects => object'[n].file = object[n].file
      <3>0. object[n] \in Task /\ object[n].up \subseteq ChunkIds(object[n].file)
        BY DEF UploadsTyped, Rowed
      <3>1. CASE \E f \in new : row[f] = n
        <4> DEFINE f == CHOOSE g \in new : row[g] = n
        <4>1. f \in new /\ row[f] = n
          BY <3>1
        <4>2. object'[n] = [file |-> f, status |-> "Completed", known |-> FALSE, up |-> {}]
          BY <1>2, <3>1
        <4>3. f \in File /\ n \in FreeObjects
          BY <2>1, <4>1
        <4> HIDE DEF f, new
        <4> QED
          BY <4>2, <4>3 DEF Task
      <3>2. CASE ~\E f \in new : row[f] = n
        <4>1. \/ object'[n] = [object[n] EXCEPT !.status = "Completed"]
              \/ object'[n] = object[n]
          <5> HIDE DEF new
          <5> QED
            BY <1>2, <3>2
        <4>2. /\ [object[n] EXCEPT !.status = "Completed"] \in Task
              /\ [object[n] EXCEPT !.status = "Completed"].file = object[n].file
              /\ [object[n] EXCEPT !.status = "Completed"].up = object[n].up
          BY <3>0 DEF Task
        <4> QED
          BY <3>0, <4>1, <4>2
      <3> QED
        BY <3>1, <3>2
    <2>3. object' = [n \in Object |-> object'[n]]
      BY <1>2
    <2> DEFINE p == object'
    <2>4. Rowed(p) /\ \A n \in Object \ FreeObjects : p[n].file = object[n].file
      BY <2>2, <2>3 DEF Rowed
    <2>5. p = object'
      OBVIOUS
    <2> HIDE DEF p
    <2>6. LoopsTyped(loops, p) /\ AsksTyped(asked, p)
      BY <2>4, OthersKeepFile
    <2>7. AsksTyped(asked', p)
      BY <1>0, <2>6, AsksLeft
    <2> QED
      BY <1>0, <2>4, <2>5, <2>6, <2>7 DEF Rowed, Object, ChunkIds, Task
  <1> QED
    BY <1>1, <1>2 DEF ListReply

LEMMA PageStepTyped ==
    ASSUME UploadsTyped, NEW r \in asked, PageStep(r)
    PROVE  UploadTypes
  <1>1. CASE StatusReply(r)
    <2> DEFINE n == r.object
               t == [object[n] EXCEPT !.known = TRUE, !.status = "Pending", !.up = r.up]
               o == [object EXCEPT ![n] = t]
    <2>1. AskTyped(r, object) /\ r \in Asked
      BY DEF UploadsTyped, AsksTyped, AskTyped
    <2>2. n \in Object /\ r.up \subseteq ChunkIds(object[n].file)
      BY <1>1, <2>1 DEF StatusReply, Asked, AskTyped
    <2>3. object[n] \in Task
      BY <2>2, QueueThere DEF Rowed
    <2>4. r.up \subseteq UNION {ChunkIds(f) : f \in File}
      BY <2>2, <2>3, ChunksOfFile DEF Task
    <2>5. t \in Task /\ t.file = object[n].file /\ t.up = r.up
      BY <2>3, <2>4 DEF Task
    <2>6. StartUpload(tasks, o, active, loops) /\ asked' \subseteq asked
      BY <1>1 DEF StatusReply
    <2>7. UNCHANGED <<commands, record, marks>>
      BY <1>1 DEF StatusReply, serverVars
    <2> HIDE DEF t
    <2>8. Refiled(object, o)
      BY <2>2, <2>5, QueueThere, RowKept
    <2> HIDE DEF o, n
    <2>9. Rowed(object)' /\ LoopsTyped(loops', object') /\ AsksTyped(asked', object')
      BY <2>6, <2>8, RefiledStarted
    <2> QED
      BY <2>7, <2>9, CommandsBounded, ServerRests DEF UploadTypes
  <1>2. CASE ListReply(r)
    <2>1. UNCHANGED <<commands, record, marks>>
      BY <1>2 DEF ListReply, serverVars
    <2> QED
      BY <1>2, <2>1, ListReplyTyped, CommandsBounded, ServerRests DEF UploadTypes
  <1>3. CASE DeleteReply(r) \/ StatusError(r)
    <2>1. UNCHANGED <<object, loops, commands, record, marks>> /\ asked' \subseteq asked
      BY <1>3 DEF DeleteReply, StatusError, serverVars
    <2>2. AsksTyped(asked', object')
      BY <2>1, AsksLeft DEF UploadsTyped
    <2> QED
      BY <2>1, <2>2, QueueStays, CommandsBounded, ServerRests DEF UploadTypes
  <1>4. CASE ServeDelete(r)
    <2>1. UNCHANGED <<object, loops, commands, marks>>
      BY <1>4 DEF ServeDelete
    <2>2. PICK reply \in {"ok", "error"} : asked' = (asked \ {r}) \cup {[r EXCEPT !.reply = reply]}
      BY <1>4 DEF ServeDelete
    <2>3. /\ r \in [kind : {"delete"}, index : Nat, file : File, reply : {"none", "ok", "error"}]
          /\ r.file \in File
      BY <1>4 DEF ServeDelete, UploadsTyped, AsksTyped, AskTyped, Asked
    <2> DEFINE q == [r EXCEPT !.reply = reply]
    <2>4. q \in [kind : {"delete"}, index : Nat, file : File, reply : {"none", "ok", "error"}]
      BY <2>3
    <2>5. asked' = (asked \ {r}) \cup {q}
      BY <2>2
    <2> HIDE DEF q
    <2>6. AskTyped(q, object)
      BY <2>4 DEF AskTyped, Asked
    <2>7. AsksTyped(asked', object')
      BY <2>1, <2>5, <2>6 DEF UploadsTyped, AsksTyped
    <2>8. record' = record \/ record' = [record EXCEPT ![r.file] = "none"]
      BY <1>4 DEF ServeDelete
    <2>9. ServerTyped'
      BY <2>1, <2>3, <2>8 DEF UploadsTyped, ServerTyped
    <2> QED
      BY <2>1, <2>7, <2>9, QueueStays, CommandsBounded DEF UploadTypes
  <1> QED
    BY <1>1, <1>2, <1>3, <1>4 DEF PageStep

LEMMA SubmitTyped ==
    ASSUME UploadsTyped, NEW f \in File, EnqueueUpload(f)
    PROVE  Rowed(object)' /\ LoopsTyped(loops', object') /\ AsksTyped(asked', object')
  <1>0. asked' \subseteq asked
    BY DEF EnqueueUpload
  <1>1. CASE Listed(f) /\ StartUpload(tasks, SetStatus(f, "Pending"), active, loops)
    <2>1. Refiled(object, SetStatus(f, "Pending"))
      BY StatusSetTyped, QueueThere DEF TaskStatus
    <2> QED
      BY <1>0, <1>1, <2>1, RefiledStarted
  <1>2. CASE /\ FreeObjects # {}
             /\ LET n == Min(FreeObjects) IN
                StartUpload(Append(tasks, n), [object EXCEPT ![n] = NewTask(f)], active, loops)
    <2> DEFINE n == Min(FreeObjects)
               t == NewTask(f)
               o == [object EXCEPT ![n] = t]
    <2>1. FreeObjects \subseteq Nat
      BY UploadClientAssumption DEF FreeObjects, Object
    <2>2. n \in FreeObjects
      BY <1>2, <2>1, LeastNatural
    <2>3. n \in Object
      BY <2>2 DEF FreeObjects
    <2>4. t \in Task /\ t.up \subseteq ChunkIds(t.file)
      BY DEF NewTask, Task
    <2>5. StartUpload(Append(tasks, n), o, active, loops)
      BY <1>2
    <2> HIDE DEF n, t
    <2>6. Rowed(o)
      BY <2>3, <2>4, QueueThere, RowPut
    <2>7. \A m \in Object \ FreeObjects : o[m].file = object[m].file
      BY <2>2, QueueThere DEF Rowed
    <2>8. Append(tasks, n) \in Seq(Object)
      BY <2>3, QueueThere
    <2> HIDE DEF o
    <2> QED
      BY <1>0, <2>5, <2>6, <2>7, <2>8, StartedTyped
  <1> QED
    BY <1>1, <1>2 DEF EnqueueUpload

LEMMA DeleteTyped ==
    ASSUME UploadsTyped, NEW f \in File, HandleDelete(f)
    PROVE  Rowed(object)' /\ LoopsTyped(loops', object') /\ AsksTyped(asked', object')
  <1> DEFINE i == Min(Rows(tasks, object, f))
             n == tasks[i]
             q == [kind |-> "delete", index |-> i, file |-> f, reply |-> "none"]
  <1>1. i \in Nat
    BY QueueThere, Indexed DEF HandleDelete
  <1>2. /\ object' = object /\ loops' = {Cancelled(l, n) : l \in loops}
        /\ asked' \subseteq asked \cup {q}
    BY DEF HandleDelete
  <1> HIDE DEF n, i
  <1>3. q \in Asked /\ q.kind # "status"
    BY <1>1 DEF Asked
  <1> HIDE DEF q
  <1>4. AsksTyped(asked', object)
    BY <1>2, <1>3 DEF UploadsTyped, AsksTyped, AskTyped
  <1>5. ASSUME NEW l \in loops
        PROVE  LoopTyped(Cancelled(l, n), object)
    <2> DEFINE k == [l EXCEPT !.reply = "error"]
    <2>1. LoopTyped(l, object) /\ l \in Loop
      BY DEF UploadsTyped, LoopsTyped, LoopTyped
    <2>2. /\ k \in Loop /\ k.object = l.object /\ k.file = l.file /\ k.awaits = l.awaits
          /\ k.chunk = l.chunk /\ k.up = l.up
      BY <2>1 DEF Loop
    <2>3. Cancelled(l, n) = k \/ Cancelled(l, n) = l
      BY DEF Cancelled
    <2> HIDE DEF k
    <2> QED
      BY <2>1, <2>2, <2>3 DEF LoopTyped
  <1>6. LoopsTyped(loops', object)
    BY <1>2, <1>5 DEF LoopsTyped
  <1> QED
    BY <1>2, <1>4, <1>6 DEF UploadsTyped, Rowed, Object, ChunkIds, Task

LEMMA UserStepTyped ==
    ASSUME UploadsTyped, UserStep
    PROVE  UploadTypes
  <1>0. Click /\ UNCHANGED <<record, marks>>
    BY DEF UserStep, HandleSubmit, EnqueueUpload, HandleDelete, ResumeUpload, AskStatus, OpenPage,
           serverVars
  <1> SUFFICES Rowed(object)' /\ LoopsTyped(loops', object') /\ AsksTyped(asked', object')
    BY <1>0, CommandsBounded, ServerRests DEF UploadTypes
  <1>1. ASSUME NEW f \in File, HandleSubmit(f)
        PROVE  Rowed(object)' /\ LoopsTyped(loops', object') /\ AsksTyped(asked', object')
    BY <1>1, SubmitTyped DEF HandleSubmit
  <1>2. ASSUME NEW f \in File, HandleDelete(f)
        PROVE  Rowed(object)' /\ LoopsTyped(loops', object') /\ AsksTyped(asked', object')
    BY <1>2, DeleteTyped
  <1>3. ASSUME NEW i \in DOMAIN tasks, ResumeUpload(i)
        PROVE  Rowed(object)' /\ LoopsTyped(loops', object') /\ AsksTyped(asked', object')
    <2>1. tasks[i] \in Object
      BY QueueThere, ElementOfSeq
    <2>2. Refiled(object, [object EXCEPT ![tasks[i]].status = "Pending"])
      BY <2>1, QueueThere, StatusPut DEF TaskStatus
    <2>3. asked' \subseteq asked
      BY <1>3 DEF ResumeUpload
    <2> QED
      BY <1>3, <2>2, <2>3, RefiledStarted DEF ResumeUpload
  <1>4. ASSUME NEW i \in DOMAIN tasks, AskStatus(i)
        PROVE  Rowed(object)' /\ LoopsTyped(loops', object') /\ AsksTyped(asked', object')
    <2> DEFINE n == tasks[i]
               q == [kind |-> "status", object |-> n, up |-> marks[object[n].file]]
    <2>1. n \in Object
      BY QueueThere, ElementOfSeq
    <2>2. object[n] \in Task
      BY <2>1, QueueThere DEF Rowed
    <2>3. object[n].file \in File
      BY <2>2 DEF Task
    <2>4. marks[object[n].file] \subseteq ChunkIds(object[n].file) /\ ChunkIds(object[n].file) \subseteq Nat
      BY <2>3, MarksOwn, ChunksOfFile
    <2>5. UNCHANGED <<object, loops>> /\ asked' = asked \cup {q}
      BY <1>4 DEF AskStatus
    <2> HIDE DEF n
    <2>6. AskTyped(q, object)
      BY <2>1, <2>4 DEF AskTyped, Asked
    <2> HIDE DEF q
    <2>7. AsksTyped(asked', object')
      BY <2>5, <2>6 DEF UploadsTyped, AsksTyped
    <2> QED
      BY <2>5, <2>7, QueueStays
  <1>5. CASE OpenPage
    <2> DEFINE q == [kind |-> "list", files |-> Public \cup {f \in File : record[f] = "completed"}]
    <2>1. UNCHANGED <<object, loops>> /\ asked' = asked \cup {q}
      BY <1>5 DEF OpenPage
    <2>2. AskTyped(q, object)
      BY UploadClientAssumption DEF AskTyped, Asked
    <2> HIDE DEF q
    <2>3. AsksTyped(asked', object')
      BY <2>1, <2>2 DEF UploadsTyped, AsksTyped
    <2> QED
      BY <2>1, <2>3, QueueStays
  <1> QED
    BY <1>1, <1>2, <1>3, <1>4, <1>5 DEF UserStep

LEMMA UploadsTypedStep ==
    UploadsTyped /\ [UploadClientNext]_uploadClientVars => UploadsTyped'
  <1> SUFFICES ASSUME UploadsTyped, [UploadClientNext]_uploadClientVars
               PROVE  UploadsTyped'
    OBVIOUS
  <1>1. UploadClientInv'
    BY UploadClientStep DEF UploadsTyped
  <1>2. UploadTypes
    <2>1. ASSUME NEW f \in File, Cleanup(f)
          PROVE  UploadTypes
      <3>1. UNCHANGED <<object, loops, asked, commands, record>>
        BY <2>1 DEF Cleanup
      <3>2. marks' = [marks EXCEPT ![f] = {}]
        BY <2>1 DEF Cleanup
      <3>3. ServerTyped'
        BY <3>1, <3>2 DEF UploadsTyped, ServerTyped
      <3>4. AsksTyped(asked', object')
        BY <3>1, AsksLeft DEF UploadsTyped
      <3> QED
        BY <3>1, <3>3, <3>4, QueueStays, CommandsBounded DEF UploadTypes
    <2>2. CASE UNCHANGED uploadClientVars
      <3>1. UNCHANGED <<object, loops, asked, commands, record, marks>>
        BY <2>2 DEF uploadClientVars, serverVars
      <3>2. AsksTyped(asked', object')
        BY <3>1, AsksLeft DEF UploadsTyped
      <3> QED
        BY <3>1, <3>2, QueueStays, CommandsBounded, ServerRests DEF UploadTypes
    <2> QED
      BY <2>1, <2>2, LoopStepTyped, PageStepTyped, UserStepTyped DEF UploadClientNext
  <1>3. LoopsTyped(loops, object)' /\ AsksTyped(asked, object)' /\ (commands \in 0 .. MaxCommands)'
    BY <1>2 DEF UploadTypes, LoopsTyped, LoopTyped, Loop, Object, ChunkIds, AsksTyped, AskTyped, Asked
  <1> QED
    BY <1>1, <1>2, <1>3 DEF UploadTypes, UploadsTyped

-----------------------------------------------------------------------------
(* All the parts.  The part that runs has its invariant, and the others    *)
(* rest.                                                                   *)
Parts ==
    {"uploads", "session", "requests", "tabs", "chat", "table", "tags", "routes", "layout",
     "accounts", "theme"}

FrontendTyped ==
    /\ part \in Parts
    /\ part = "uploads" => UploadsTyped
    /\ part = "session" => SessionTyped
    /\ part = "requests" => RequestsTyped
    /\ part = "tabs" => TabsTyped
    /\ part = "chat" => ChatTyped
    /\ part = "table" => TableTyped
    /\ part = "tags" => TagsTyped
    /\ part = "routes" => role \in {"USER", "ADMIN"}
    /\ part = "layout" => LayoutTyped
    /\ part = "accounts" => AccountsTyped
    /\ part = "theme" => ThemeTyped

LEMMA FrontendTypedInit == FrontendInit => FrontendTyped
  <1> SUFFICES ASSUME FrontendInit
               PROVE  FrontendTyped
    OBVIOUS
  <1>1. part \in Parts
    BY DEF FrontendInit, Parts
  <1>2. UploadsTyped /\ RequestsTyped /\ TabsTyped /\ ChatTyped /\ TableTyped /\ TagsTyped
    BY UploadsTypedInit, RequestsTypedInit, TabsTypedInit, ChatTypedInit, TableTypedInit, TagsTypedInit
       DEF FrontendInit
  <1>3. LayoutTyped /\ ThemeTyped /\ AccountsTyped
    BY LayoutTypedInit, ThemeTypedInit, AccountsTypedInit DEF FrontendInit
  <1>4. part = "session" => SessionTyped
    BY SessionTypedInit DEF FrontendInit
  <1>5. part = "routes" => role \in {"USER", "ADMIN"}
    BY DEF FrontendInit, RouteTreeInit
  <1> QED
    BY <1>1, <1>2, <1>3, <1>4, <1>5 DEF FrontendTyped

LEMMA FrontendTypedStep == FrontendTyped /\ [FrontendNext]_frontendVars => FrontendTyped'
  <1> SUFFICES ASSUME FrontendTyped, [FrontendNext]_frontendVars
               PROVE  FrontendTyped'
    OBVIOUS
  <1>1. part' = part
    BY DEF FrontendNext, frontendVars
  <1>2. part = "uploads" => [UploadClientNext]_uploadClientVars
    BY DEF FrontendNext, frontendVars
  <1>3. part = "session" => [SessionNext]_sessionVars
    BY DEF FrontendNext, frontendVars
  <1>4. part = "requests" => [RequestsNext]_requestsVars
    BY DEF FrontendNext, frontendVars
  <1>5. part = "tabs" => [TabsNext]_tabsVars
    BY DEF FrontendNext, frontendVars
  <1>6. part = "chat" => [ChatNext]_chatVars
    BY DEF FrontendNext, frontendVars
  <1>7. part = "table" => [TableNext]_tableVars
    BY DEF FrontendNext, frontendVars
  <1>8. part = "tags" => [OrgTagsNext]_orgTagsVars
    BY DEF FrontendNext, frontendVars
  <1>9. part = "routes" => [RouteTreeNext]_routeTreeVars
    BY DEF FrontendNext, frontendVars
  <1>10. part = "layout" => [LayoutNext]_layoutVars
    BY DEF FrontendNext, frontendVars
  <1>11. part = "accounts" => [AccountNext]_accountVars
    BY DEF FrontendNext, frontendVars
  <1>12. part = "theme" => [ThemeNext]_themeVars
    BY DEF FrontendNext, frontendVars
  <1>13. CASE part = "uploads"
    BY <1>1, <1>2, <1>13, UploadsTypedStep DEF FrontendTyped
  <1>14. CASE part = "session"
    BY <1>1, <1>3, <1>14, SessionTypedStep DEF FrontendTyped
  <1>15. CASE part = "requests"
    BY <1>1, <1>4, <1>15, RequestsTypedStep DEF FrontendTyped
  <1>16. CASE part = "tabs"
    BY <1>1, <1>5, <1>16, TabsTypedStep DEF FrontendTyped
  <1>17. CASE part = "chat"
    BY <1>1, <1>6, <1>17, ChatTypedStep DEF FrontendTyped
  <1>18. CASE part = "table"
    BY <1>1, <1>7, <1>18, TableTypedStep DEF FrontendTyped
  <1>19. CASE part = "tags"
    BY <1>1, <1>8, <1>19, TagsTypedStep DEF FrontendTyped
  <1>20. CASE part = "routes"
    <2>1. role \in {"USER", "ADMIN"}
      BY <1>20 DEF FrontendTyped
    <2>2. role' \in {"USER", "ADMIN"}
      BY <1>9, <1>20, <2>1 DEF RouteTreeNext, routeTreeVars
    <2> QED
      BY <1>1, <1>20, <2>2 DEF FrontendTyped, Parts
  <1>21. CASE part = "layout"
    BY <1>1, <1>10, <1>21, LayoutTypedStep DEF FrontendTyped
  <1>22. CASE part = "accounts"
    BY <1>1, <1>11, <1>22, AccountsTypedStep DEF FrontendTyped
  <1>23. CASE part = "theme"
    BY <1>1, <1>12, <1>23, ThemeTypedStep DEF FrontendTyped
  <1> QED
    BY <1>13, <1>14, <1>15, <1>16, <1>17, <1>18, <1>19, <1>20, <1>21, <1>22, <1>23
       DEF FrontendTyped, Parts

(* Each part of the browser application keeps its types, from the sizes    *)
(* and counts in it to the references: a task or a loop has chunks of its  *)
(* own file only, a tag dialog tags of the tree, a navigation a route.     *)
THEOREM FrontendTypeCorrect == FrontendSpec => []FrontendTypeOK
  <1>1. FrontendTyped => FrontendTypeOK
    BY UploadsTypedOK, SessionTypedOK, RequestsTypedOK, TabsTypedOK, ChatTypedOK, TableTypedOK,
       LayoutTypedOK, ThemeTypedOK
       DEF FrontendTyped, FrontendTypeOK, Parts, TagsTyped, AccountsTyped
  <1> QED
    BY <1>1, FrontendTypedInit, FrontendTypedStep, PTL DEF FrontendSpec
=============================================================================
