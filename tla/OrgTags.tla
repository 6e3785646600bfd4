------------------------------ MODULE OrgTags ------------------------------
(***************************************************************************)
(* Organisation tags: the tables of tags and users on the server, and the  *)
(* pages that edit them.  The tag page shows a tree and opens one dialog   *)
(* for a new tag, a tag below another, or an edit; the user page opens a   *)
(* dialog for the tags of a user; the personal page sets the main tag.     *)
(* Each submits what it holds by then, and shows what it loaded before.    *)
(* The server reads the row of a user, changes it and saves the whole of   *)
(* it; a registration saves the row first and its tags later.              *)
(***************************************************************************)
EXTENDS Naturals, FiniteSets

CONSTANTS
    Person,     \* the users
    Registered, \* those who register: an administrator's new user gets no tag
    SharedTag,  \* ids an administrator may type
    Private,    \* the private tag of each user; its id cannot be typed
    Top,        \* no parent
    Absent,     \* no such tag
    Within,     \* pairs of ids: the first is a part of the second
    MaxEdits    \* bound: dialogs opened and tags deleted

PrivateTags == {Private[u] : u \in Person}
Tag == SharedTag \cup PrivateTags

ASSUME OrgTagsAssumption ==
    /\ Registered \subseteq Person
    /\ MaxEdits \in Nat /\ Within \subseteq Tag \X Tag
    /\ SharedTag \cap PrivateTags = {} /\ {Top, Absent} \cap Tag = {} /\ Top # Absent

VARIABLES
    parent,     \* organization_tags: the parent of each tag, or Absent
    orgTags,    \* users.org_tags
    primaryOrg, \* users.primary_org
    treeData,   \* the tags the tag page shows
    tagDialog,  \* its dialog
    userRows,   \* the tags the user page shows of each user; nobody before it has loaded
    userDialog, \* its dialog
    mine,       \* the tags the personal page of each user shows
    saves,      \* requests that save something
    tagged,     \* history: whose registration gave them their private tag
    unshown,    \* history: whose row was saved from one that did not show it
    edits

userTable == <<orgTags, primaryOrg, tagged, unshown>>
tagTables == <<parent, userTable>>
tagPages == <<treeData, userRows, mine>>
tagDialogs == <<tagDialog, userDialog>>
orgTagsVars == <<tagTables, tagPages, tagDialogs, saves, edits>>

Exists(t) == parent[t] # Absent

(* GetOrganizationTagTree: tags without a parent, and below each tag those *)
(* that name it.                                                           *)
InTree ==
    LET Whole(S) == \A t \in Tag : parent[t] \in S \cup {Top} => t \in S
    IN  {t \in Tag : \A S \in SUBSET Tag : Whole(S) => t \in S}

(* ListUsers and GetUserOrgTags leave out the tags FindByID does not give, *)
(* be they deleted or not.                                                 *)
Details(u) == SUBSET {t \in orgTags[u] : Exists(t)}

Edit == edits < MaxEdits /\ edits' = edits + 1
Closed == [open |-> FALSE]

(* getData of a page, answered.                                            *)
LoadTree == treeData' = InTree /\ UNCHANGED <<tagTables, userRows, mine, tagDialogs, saves, edits>>
LoadUsers ==
    /\ \E rows \in [Person -> SUBSET Tag] :
           (\A u \in Person : rows[u] \in Details(u)) /\ userRows' = rows
    /\ UNCHANGED <<tagTables, treeData, mine, tagDialogs, saves, edits>>
LoadMine(u) ==
    /\ \E shown \in Details(u) : mine' = [mine EXCEPT ![u] = shown]
    /\ UNCHANGED <<tagTables, treeData, userRows, tagDialogs, saves, edits>>
----------------------------------------------------------------------------
(* The dialog of the tag page, as handleAdd, handleAddChild or handleEdit  *)
(* open it and the administrator fills it in: any id may be typed, also in *)
(* an edit, and any tag of the tree chosen as the parent.                  *)
OpenTagDialog ==
    /\ Edit /\ ~tagDialog.open
    /\ \E kind \in {"add", "addChild", "edit"}, t \in SharedTag, p \in treeData \cup {Top} :
           /\ kind = "addChild" => p # Top
           /\ kind = "edit" => \E row \in treeData : p # Top \/ parent[row] = Top
           /\ tagDialog' = [open |-> TRUE, kind |-> kind, tag |-> t, parent |-> p]
    /\ UNCHANGED <<tagTables, tagPages, userDialog, saves>>

SubmitTag ==
    /\ tagDialog.open
    /\ saves' = saves \cup {[kind |-> tagDialog.kind, tag |-> tagDialog.tag, parent |-> tagDialog.parent]}
    /\ UNCHANGED <<tagTables, tagPages, tagDialogs, edits>>

CancelTag ==
    /\ tagDialog.open /\ tagDialog' = Closed
    /\ UNCHANGED <<tagTables, tagPages, userDialog, saves, edits>>

(* CreateOrganizationTag and UpdateOrganizationTag: neither looks whether  *)
(* the parent lies below the tag; that there is one the foreign key        *)
(* demands.  A success closes the dialog that is open by then, whichever   *)
(* it is.                                                                  *)
SaveTag(s) ==
    /\ s.kind \in {"add", "addChild", "edit"}
    /\ saves' = saves \ {s}
    /\ \/ /\ Exists(s.tag) <=> s.kind = "edit"
          /\ s.parent \in {Top, s.tag} \cup {t \in Tag : Exists(t)}
          /\ parent' = [parent EXCEPT ![s.tag] = s.parent]
          /\ tagDialog' = Closed
       \/ UNCHANGED <<parent, tagDialog>>
    /\ UNCHANGED <<userTable, tagPages, userDialog, edits>>

(* The foreign key makes the tags below it top-level.                      *)
DeleteTag(t) ==
    /\ Edit /\ t \in treeData
    /\ parent' = [x \in Tag |-> IF x = t THEN Absent ELSE IF parent[x] = t THEN Top ELSE parent[x]]
    /\ UNCHANGED <<userTable, tagPages, tagDialogs, saves>>
----------------------------------------------------------------------------
(* OrgTagSettingDialog: handleUpdateModelWhenEdit keeps the private tags   *)
(* of the row apart when it opens.                                         *)
OpenUserDialog(u) ==
    /\ Edit /\ ~userDialog.open /\ u \in DOMAIN userRows
    /\ userDialog' = [open |-> TRUE, user |-> u, picked |-> userRows[u],
                      private |-> userRows[u] \cap PrivateTags]
    /\ UNCHANGED <<tagTables, tagPages, tagDialog, saves>>

(* Tags of the tree are added, private ones only taken out.                *)
PickTags ==
    /\ userDialog.open /\ userDialog.picked = userRows[userDialog.user]
    /\ \E T \in SUBSET ((treeData \ PrivateTags) \cup userDialog.picked) :
           userDialog' = [userDialog EXCEPT !.picked = T]
    /\ UNCHANGED <<tagTables, tagPages, tagDialog, saves, edits>>

Assignment(tags) ==
    [kind |-> "assign", user |-> userDialog.user, tags |-> tags,
     showed |-> Private[userDialog.user] \in userDialog.private]

SubmitPicked ==    \* mutant: as picked
    /\ userDialog.open
    /\ saves' = saves \cup {Assignment(userDialog.picked)}
    /\ UNCHANGED <<tagTables, tagPages, tagDialogs, edits>>

SubmitUserTags ==
    /\ userDialog.open
    /\ saves' = saves \cup {Assignment(userDialog.picked \cup userDialog.private)}
    /\ UNCHANGED <<tagTables, tagPages, tagDialogs, edits>>

CancelUserTags ==
    /\ userDialog.open /\ userDialog' = Closed
    /\ UNCHANGED <<tagTables, tagPages, tagDialog, saves, edits>>

(* A user's row as some request holds it, to be saved as a whole.          *)
Row(by, u, tags, primary, showed) ==
    [kind |-> "row", by |-> by, user |-> u, tags |-> tags, primary |-> primary, showed |-> showed]

(* AssignOrgTagsToUser reads the row.                                      *)
AssignTags(s) ==
    /\ s.kind = "assign"
    /\ \/ saves' = (saves \ {s}) \cup {Row("assign", s.user, s.tags, primaryOrg[s.user], s.showed)}
       \/ saves' = saves \ {s}
    /\ UNCHANGED <<tagTables, tagPages, tagDialogs, edits>>

(* userRepo.Update.                                                        *)
SaveRow(s) ==
    /\ s.kind = "row"
    /\ saves' = saves \ {s}
    /\ \/ /\ orgTags' = [orgTags EXCEPT ![s.user] = s.tags]
          /\ primaryOrg' = [primaryOrg EXCEPT ![s.user] = s.primary]
          /\ tagged' = IF s.by = "register" THEN tagged \cup {s.user} ELSE tagged
          /\ unshown' = IF s.showed THEN unshown ELSE unshown \cup {s.user}
          /\ userDialog' = IF s.by = "assign" THEN Closed ELSE userDialog
       \/ UNCHANGED <<userTable, userDialog>>
    /\ UNCHANGED <<parent, tagPages, tagDialog, edits>>

(* Register and CreateUser after they have created the row: the private    *)
(* tag, unless it is there; only Register gives it to the user.            *)
CreatePrivateTag(s) ==
    /\ s.kind = "privateTag"
    /\ LET tag == Private[s.user] IN
       \/ /\ parent' = IF Exists(tag) THEN parent ELSE [parent EXCEPT ![tag] = Top]
          /\ saves' = (saves \ {s}) \cup
                {Row("register", u, {tag}, tag, TRUE) : u \in {s.user} \cap Registered}
       \/ saves' = saves \ {s} /\ UNCHANGED parent
    /\ UNCHANGED <<userTable, tagPages, tagDialogs, edits>>

(* The personal page: showModal, setPrimaryOrg, SetUserPrimaryOrg.         *)
SetPrimary(u) ==
    /\ Edit
    /\ \E t \in mine[u] \ {primaryOrg[u]} :
           saves' = saves \cup {[kind |-> "primary", user |-> u, tag |-> t]}
    /\ UNCHANGED <<tagTables, tagPages, tagDialogs>>

(* strings.Contains looks for the id in the joined ids, and the row is     *)
(* saved with the tags that were read.                                     *)
SavePrimary(s) ==
    /\ s.kind = "primary"
    /\ LET held == orgTags[s.user] IN
       \/ /\ s.tag \in held \/ \E t \in held : <<s.tag, t>> \in Within
          /\ saves' = (saves \ {s}) \cup
                {Row("primary", s.user, held, s.tag, Private[s.user] \in held)}
       \/ saves' = saves \ {s}
    /\ UNCHANGED <<tagTables, tagPages, tagDialogs, edits>>
----------------------------------------------------------------------------
OrgTagsInit ==
    /\ parent = [t \in Tag |-> Absent]
    /\ orgTags = [u \in Person |-> {}] /\ primaryOrg = [u \in Person |-> Absent]
    /\ tagged = {} /\ unshown = {}
    /\ treeData = {} /\ userRows = <<>> /\ mine = [u \in Person |-> {}]
    /\ tagDialog = Closed /\ userDialog = Closed /\ edits = 0
    /\ saves = {[kind |-> "privateTag", user |-> u] : u \in Person}

OrgTagsNext ==
    \/ LoadTree \/ LoadUsers \/ OpenTagDialog \/ SubmitTag \/ CancelTag
    \/ PickTags \/ SubmitUserTags \/ CancelUserTags
    \/ \E t \in Tag : DeleteTag(t)
    \/ \E u \in Person : OpenUserDialog(u) \/ LoadMine(u) \/ SetPrimary(u)
    \/ \E s \in saves : SaveTag(s) \/ AssignTags(s) \/ SavePrimary(s) \/ CreatePrivateTag(s) \/ SaveRow(s)

OrgTagsSpec == OrgTagsInit /\ [][OrgTagsNext]_orgTagsVars
----------------------------------------------------------------------------
OrgTagsTypeOK ==
    /\ parent \in [Tag -> Tag \cup {Top, Absent}]
    /\ orgTags \in [Person -> SUBSET Tag]
    /\ DOMAIN userRows \subseteq Person /\ \A u \in DOMAIN userRows : userRows[u] \subseteq Tag
    /\ primaryOrg \in [Person -> Tag \cup {Absent}] /\ mine \in [Person -> SUBSET Tag]
    /\ treeData \subseteq Tag /\ edits \in 0 .. MaxEdits
    /\ tagged \subseteq Registered /\ unshown \subseteq Person

(* org-tag-setting-dialog.vue keeps a copy of the private tags, "so that   *)
(* they are not deleted by mistake".  Whoever was given a private tag by   *)
(* the registration keeps it through every edit of the tags of users,      *)
(* concurrent ones, from old rows and of deleted tags too, unless a row    *)
(* was saved that did not show it: a row is loaded without it when the     *)
(* look for the tag fails, or before the registration has given it.        *)
PrivateTagKept == \A u \in tagged \ unshown : Private[u] \in orgTags[u]
=============================================================================
