---------------------------- MODULE FrontendProofs ----------------------------
(***************************************************************************)
(* Theorems about the stores and pages of the browser, each about the      *)
(* specification of its own component, for any users, files, windows,      *)
(* tags, bounds and answers of the server.                                 *)
(***************************************************************************)
EXTENDS UploadClient, Session, Requests, Tabs, ChatClient, Table, OrgTags, Layout, Accounts,
        Theme, FiniteSetTheorems, SequenceTheorems, TLAPS

-----------------------------------------------------------------------------
(* Least numbers, and what is left of a sequence.                          *)
LEMMA LeastNatural ==
    ASSUME NEW S, S \subseteq Nat, S # {}
    PROVE  Min(S) \in S /\ \A y \in S : Min(S) <= y
  <1> DEFINE R == {p \in Nat \X Nat : p[1] < p[2]}
  <1>1. IsWellFoundedOn(R, Nat)
    BY NatLessThanWellFounded DEF OpToRel
  <1>2. \A x, y \in Nat : x < y => <<x, y>> \in R
    OBVIOUS
  <1>3. PICK x \in S : \A y \in S : <<y, x>> \notin R
    <2> HIDE DEF R
    <2> QED
      BY <1>1, WFMin
  <1>4. \A y \in S : ~(y < x)
    <2> HIDE DEF R
    <2> QED
      BY <1>2, <1>3, Zenon
  <1>5. \A y \in S : x <= y
    BY <1>4
  <1> QED
    BY <1>3, <1>5 DEF Min

(* What is left when a position is removed.                                *)
LEMMA Removing ==
    ASSUME NEW T, NEW ts \in Seq(T), NEW k \in 1 .. Len(ts)
    PROVE  /\ RemoveAt(ts, k) \in Seq(T) /\ Len(RemoveAt(ts, k)) = Len(ts) - 1
           /\ \A i \in 1 .. Len(ts) - 1 : RemoveAt(ts, k)[i] = IF i < k THEN ts[i] ELSE ts[i + 1]
  <1> DEFINE left == SubSeq(ts, 1, k - 1)
             right == SubSeq(ts, k + 1, Len(ts))
             us == left \o right
  <1>0. Len(ts) \in Nat /\ DOMAIN ts = 1 .. Len(ts) /\ \A i \in 1 .. Len(ts) : ts[i] \in T
    BY ElementOfSeq
  <1>1. left \in Seq(T) /\ Len(left) = k - 1 /\ \A i \in 1 .. k - 1 : left[i] = ts[i]
    <2>1. \A i \in 1 .. k - 1 : ts[i] \in T
      BY <1>0
    <2>2. /\ SubSeq(ts, 1, k - 1) \in Seq(T)
          /\ Len(SubSeq(ts, 1, k - 1)) = IF 1 <= k - 1 THEN k - 1 - 1 + 1 ELSE 0
          /\ \A i \in 1 .. (k - 1) - 1 + 1 : SubSeq(ts, 1, k - 1)[i] = ts[1 + i - 1]
      BY <1>0, <2>1, SubSeqProperties
    <2> QED
      BY <1>0, <2>2
  <1>2. /\ right \in Seq(T) /\ Len(right) = Len(ts) - k
        /\ \A i \in 1 .. Len(ts) - k : right[i] = ts[k + i]
    <2>1. \A i \in k + 1 .. Len(ts) : ts[i] \in T
      BY <1>0
    <2>2. /\ SubSeq(ts, k + 1, Len(ts)) \in Seq(T)
          /\ Len(SubSeq(ts, k + 1, Len(ts))) = IF k + 1 <= Len(ts) THEN Len(ts) - (k + 1) + 1 ELSE 0
          /\ \A i \in 1 .. Len(ts) - (k + 1) + 1 : SubSeq(ts, k + 1, Len(ts))[i] = ts[k + 1 + i - 1]
      BY <1>0, <2>1, SubSeqProperties
    <2>3. right \in Seq(T) /\ Len(right) = Len(ts) - k
      <3>1. Len(right) = IF k + 1 <= Len(ts) THEN Len(ts) - (k + 1) + 1 ELSE 0
        BY <2>2
      <3>2. right \in Seq(T)
        BY <2>2
      <3>3. \A n \in Nat : \A m \in 1 .. n :
               (IF m + 1 <= n THEN n - (m + 1) + 1 ELSE 0) = n - m
        OBVIOUS
      <3>4. Len(ts) \in Nat
        BY <1>0
      <3>5. Len(right) = Len(ts) - k
        <4> HIDE DEF right
        <4> QED
          BY <3>1, <3>3, <3>4
      <3> QED
        BY <3>2, <3>5
    <2>4. ASSUME NEW i \in 1 .. Len(ts) - k
          PROVE  right[i] = ts[k + i]
      <3>1. i \in 1 .. Len(ts) - (k + 1) + 1 /\ k + 1 + i - 1 = k + i
        BY <1>0
      <3> QED
        BY <2>2, <3>1
    <2> HIDE DEF right
    <2> QED
      BY <2>3, <2>4
  <1> HIDE DEF left, right
  <1>3. /\ us \in Seq(T) /\ Len(us) = Len(ts) - 1 /\ DOMAIN us = 1 .. Len(us)
        /\ \A i \in 1 .. Len(ts) - 1 : us[i] = IF i < k THEN ts[i] ELSE ts[i + 1]
    <2>1. /\ us \in Seq(T) /\ Len(us) = Len(left) + Len(right)
          /\ \A i \in 1 .. Len(left) + Len(right) :
                 us[i] = IF i <= Len(left) THEN left[i] ELSE right[i - Len(left)]
      BY <1>1, <1>2, ConcatProperties
    <2> HIDE DEF us
    <2>2. us \in Seq(T) /\ Len(us) = Len(ts) - 1 /\ DOMAIN us = 1 .. Len(us)
      BY <1>0, <1>1, <1>2, <2>1
    <2>3. ASSUME NEW i \in 1 .. Len(ts) - 1
          PROVE  us[i] = IF i < k THEN ts[i] ELSE ts[i + 1]
      <3>1. CASE i < k
        <4>1. i \in 1 .. Len(left) + Len(right) /\ i <= Len(left) /\ i \in 1 .. k - 1
          BY <1>0, <1>1, <1>2, <3>1
        <4> QED
          BY <1>1, <2>1, <3>1, <4>1
      <3>2. CASE ~(i < k)
        <4>1. i - (k - 1) \in 1 .. Len(ts) - k /\ k + (i - (k - 1)) = i + 1
          BY <1>0, <3>2
        <4>2. us[i] = right[i - (k - 1)]
          <5>1. i \in 1 .. Len(left) + Len(right) /\ ~(i <= Len(left))
            BY <1>0, <1>1, <1>2, <3>2
          <5> QED
            BY <1>1, <2>1, <5>1
        <4> QED
          BY <1>2, <3>2, <4>1, <4>2
      <3> QED
        BY <3>1, <3>2
    <2> QED
      BY <2>2, <2>3
  <1>4. us = RemoveAt(ts, k)
    BY DEF RemoveAt, left, right
  <1> HIDE DEF us
  <1> QED
    BY <1>3, <1>4

(* What a filter keeps.  Its k-th element is at the k-th of the positions, *)
(* which is there: the last one has all of them before it, and below the   *)
(* one that has k + 1 the last of the rest has k.                          *)
LEMMA LastPosition ==
    ASSUME NEW P, P \subseteq Nat, P # {}, NEW n \in Nat, \A i \in P : i <= n
    PROVE  \E m \in P : \A i \in P : i <= m
  <1> DEFINE U == {u \in Nat : \A i \in P : i <= u}
             m == Min(U)
  <1>1. m \in U /\ \A u \in U : m <= u
    BY LeastNatural
  <1>2. m \in P
    <2> SUFFICES ASSUME m \notin P PROVE FALSE
      OBVIOUS
    <2>1. m \in Nat /\ \A i \in P : i \in Nat /\ i <= m /\ i # m
      BY <1>1
    <2> HIDE DEF m
    <2>2. m - 1 \in Nat /\ \A i \in P : i <= m - 1
      <3>1. PICK i \in P : TRUE
        OBVIOUS
      <3>2. i \in Nat /\ i <= m /\ i # m
        BY <2>1
      <3>3. m - 1 \in Nat
        BY <2>1, <3>2
      <3>4. \A j \in Nat : j <= m /\ j # m => j <= m - 1
        BY <2>1
      <3> QED
        BY <2>1, <3>3, <3>4
    <2>3. m - 1 \in U
      BY <2>2
    <2> HIDE DEF U
    <2> QED
      BY <1>1, <2>1, <2>3
  <1> QED
    BY <1>1, <1>2

LEMMA NthIsThere ==
    ASSUME NEW n \in Nat, NEW P \in SUBSET (1 .. n), NEW k \in 1 .. Cardinality(P)
    PROVE  Nth(P, k) \in P /\ Cardinality({j \in P : j <= Nth(P, k)}) = k
  <1> DEFINE Upto(i) == {j \in P : j <= i}
             Missing(d) == ~ \E i \in P : Cardinality(Upto(i)) = Cardinality(P) - d
             Bad == {d \in Nat : d < Cardinality(P) /\ Missing(d)}
  <1>1. IsFiniteSet(P) /\ Cardinality(P) \in Nat /\ P \subseteq Nat
    <2>1. IsFiniteSet(1 .. n)
      BY FS_Interval
    <2>2. IsFiniteSet(P)
      BY <2>1, FS_Subset
    <2> QED
      BY <2>2, FS_CardinalityType
  <1>2. ASSUME NEW Q \in SUBSET P, Q # {} PROVE \E m \in Q : \A i \in Q : i <= m
    <2>1. Q \subseteq Nat /\ \A i \in Q : i <= n
      BY <1>1
    <2> QED
      BY <1>2, <2>1, LastPosition
  <1>3. Bad = {}
    <2> SUFFICES ASSUME Bad # {} PROVE FALSE
      OBVIOUS
    <2> DEFINE d == Min(Bad)
    <2>1. d \in Bad /\ \A e \in Bad : d <= e
      BY LeastNatural
    <2>2. d \in Nat /\ d < Cardinality(P) /\ Missing(d)
      BY <2>1
    <2>3. \A e \in Nat : e < d /\ e < Cardinality(P) => ~Missing(e)
      BY <2>1
    <2> HIDE DEF d, Bad
    <2>4. CASE d = 0
      <3>1. P # {}
        BY <1>1, <2>2, FS_EmptySet
      <3>2. PICK m \in P : \A i \in P : i <= m
        BY <1>2, <3>1
      <3>3. Upto(m) = P
        BY <3>2
      <3> QED
        BY <1>1, <2>2, <2>4, <3>3
    <2>5. CASE d # 0
      <3>1. d - 1 \in Nat /\ d - 1 < d /\ d - 1 < Cardinality(P)
        BY <1>1, <2>2, <2>5
      <3>2. PICK i \in P : Cardinality(Upto(i)) = Cardinality(P) - (d - 1)
        BY <2>3, <3>1
      <3> DEFINE Q == Upto(i) \ {i}
      <3>3. IsFiniteSet(Upto(i))
        BY <1>1, FS_Subset
      <3>4. i \in Upto(i)
        BY <1>1
      <3>5. IsFiniteSet(Q) /\ Cardinality(Q) = Cardinality(P) - d
        <4>1. Cardinality(Q) = Cardinality(Upto(i)) - 1 /\ IsFiniteSet(Q)
          BY <3>3, <3>4, FS_RemoveElement
        <4> QED
          BY <1>1, <2>2, <3>2, <4>1
      <3>6. Q # {}
        BY <1>1, <2>2, <3>5, FS_EmptySet
      <3>7. PICK m \in Q : \A j \in Q : j <= m
        BY <1>2, <3>6
      <3>8. Upto(m) = Q
        <4>1. i \in Nat /\ m \in Nat /\ m \in P /\ m <= i /\ m # i
          BY <1>1, <3>7
        <4>2. \A j \in Nat : j <= m => j <= i /\ j # i
          BY <4>1
        <4>3. \A j \in P : j <= m => j \in Q
          BY <1>1, <4>2
        <4>4. \A j \in Q : j \in P /\ j <= m
          BY <3>7
        <4> QED
          BY <4>3, <4>4
      <3>9. m \in P
        BY <3>7
      <3> QED
        BY <2>2, <3>5, <3>8, <3>9
    <2> QED
      BY <2>4, <2>5
  <1>4. \E i \in P : Cardinality(Upto(i)) = k
    <2>1. Cardinality(P) - k \in Nat /\ Cardinality(P) - k < Cardinality(P)
          /\ Cardinality(P) - (Cardinality(P) - k) = k
      BY <1>1
    <2> QED
      BY <1>3, <2>1
  <1> QED
    BY <1>4 DEF Nth

LEMMA Filtering ==
    ASSUME NEW T, NEW s \in Seq(T), NEW P \in SUBSET DOMAIN s
    PROVE  /\ Filtered(s, P) \in Seq(T)
           /\ \A k \in DOMAIN Filtered(s, P) :
                 Nth(P, k) \in DOMAIN s /\ Filtered(s, P)[k] = s[Nth(P, k)]
           /\ \A k, l \in DOMAIN Filtered(s, P) : Nth(P, k) = Nth(P, l) => k = l
  <1>1. Len(s) \in Nat /\ P \in SUBSET (1 .. Len(s)) /\ \A i \in DOMAIN s : s[i] \in T
    BY ElementOfSeq
  <1>2. \A k \in 1 .. Cardinality(P) : Nth(P, k) \in P /\ Cardinality({j \in P : j <= Nth(P, k)}) = k
    BY <1>1, NthIsThere
  <1>3. Cardinality(P) \in Nat
    <2>1. IsFiniteSet(1 .. Len(s))
      BY <1>1, FS_Interval
    <2> QED
      BY <1>1, <2>1, FS_Subset, FS_CardinalityType
  <1>4. Filtered(s, P) \in [1 .. Cardinality(P) -> T]
    BY <1>1, <1>2 DEF Filtered
  <1>5. Filtered(s, P) \in Seq(T)
    BY <1>3, <1>4, SeqDef
  <1> QED
    BY <1>2, <1>5 DEF Filtered

-----------------------------------------------------------------------------
(* The table.  Whatever ends the spinner shows an answer in the same step. *)
LEMMA PagerStep ==
    RowsMatchPager /\ [TableNext]_tableVars => RowsMatchPager'
  <1> SUFFICES ASSUME RowsMatchPager, [TableNext]_tableVars PROVE RowsMatchPager'
    OBVIOUS
  <1> USE DEF RowsMatchPager
  <1>1. ASSUME NEW i \in 1 .. MaxRequests, Answered(i) PROVE RowsMatchPager'
    BY <1>1 DEF Answered, Show, Served, Page
  <1>2. ASSUME NEW p \in 1 .. Users, OnUpdatePage(p) PROVE RowsMatchPager'
    BY <1>2 DEF OnUpdatePage, GetData
  <1>3. ASSUME NEW size \in PageSizes, OnUpdatePageSize(size) PROVE RowsMatchPager'
    BY <1>3 DEF OnUpdatePageSize, GetData
  <1>4. CASE ReloadList \/ DeleteUser
    BY <1>4 DEF ReloadList, DeleteUser, GetData
  <1>5. CASE UNCHANGED usersView
    BY <1>5 DEF usersView
  <1>6. CASE UNCHANGED tableVars
    BY <1>6 DEF tableVars
  <1> QED
    BY <1>1, <1>2, <1>3, <1>4, <1>5, <1>6 DEF TableNext, ReloadColumns, Check, Drag

(* When no spinner is shown the pager shows the page of the rows.          *)
THEOREM PagerFollowsRows == TableSpec => []RowsMatchPager
  <1>1. TableInit => RowsMatchPager
    BY DEF TableInit, RowsMatchPager
  <1> QED
    BY <1>1, PagerStep, PTL DEF TableSpec

-----------------------------------------------------------------------------
(* Organisation tags.  A save that was made from a row with the private    *)
(* tag of its user names that tag.                                         *)
Saves == {"assign", "row"}
Named(s) ==
    s.kind \in Saves => /\ s.showed => Private[s.user] \in s.tags
                        /\ s.kind = "row" /\ s.by = "register" => s.user \in Registered /\ s.showed

PrivateInv ==
    /\ orgTags = [u \in Person |-> orgTags[u]]
    /\ tagged \subseteq Registered
    /\ tagDialog.open => tagDialog.kind \notin Saves
    /\ \A s \in saves : Named(s)
    /\ PrivateTagKept

LEMMA PrivateInit == OrgTagsInit => PrivateInv
  BY DEF OrgTagsInit, PrivateInv, Closed, Named, Saves, PrivateTagKept

(* What is not saved changes no row.                                       *)
LEMMA RowsUnsaved ==
    ASSUME PrivateInv, UNCHANGED userTable, \A s \in saves' : s \in saves \/ Named(s),
           tagDialog'.open => tagDialog'.kind \notin Saves
    PROVE  PrivateInv'
  BY DEF PrivateInv, userTable, PrivateTagKept, Named, Saves

LEMMA SubmitsKeepTags ==
    ASSUME PrivateInv, SubmitTag \/ SubmitUserTags \/ \E u \in Person : SetPrimary(u)
    PROVE  PrivateInv'
  <1>1. UNCHANGED <<userTable, tagDialog>>
    BY DEF SubmitTag, SubmitUserTags, SetPrimary, tagTables, tagDialogs
  <1>2. CASE SubmitTag
    <2> DEFINE new == [kind |-> tagDialog.kind, tag |-> tagDialog.tag,
                       parent |-> tagDialog.parent]
    <2>1. saves' = saves \cup {new} /\ Named(new)
      BY <1>2 DEF SubmitTag, PrivateInv, Named
    <2> HIDE DEF new
    <2> QED
      BY <1>1, <2>1, RowsUnsaved DEF PrivateInv
  <1>3. CASE SubmitUserTags
    <2> DEFINE new == Assignment(userDialog.picked \cup userDialog.private)
    <2>1. saves' = saves \cup {new} /\ Named(new)
      BY <1>3 DEF SubmitUserTags, Assignment, Named
    <2> HIDE DEF new
    <2> QED
      BY <1>1, <2>1, RowsUnsaved DEF PrivateInv
  <1>4. ASSUME NEW u \in Person, SetPrimary(u) PROVE PrivateInv'
    <2>1. PICK t : saves' = saves \cup {[kind |-> "primary", user |-> u, tag |-> t]}
      BY <1>4 DEF SetPrimary
    <2>2. Named([kind |-> "primary", user |-> u, tag |-> t])
      BY DEF Named, Saves
    <2> QED
      BY <1>1, <2>1, <2>2, RowsUnsaved DEF PrivateInv
  <1> QED
    BY <1>2, <1>3, <1>4

LEMMA RowSaved == ASSUME PrivateInv, NEW s \in saves, SaveRow(s) PROVE PrivateInv'
  <1>1. /\ s.kind = "row" /\ saves' = saves \ {s} /\ Named(s)
        /\ UNCHANGED tagDialog
    BY DEF SaveRow, PrivateInv
  <1>2. CASE UNCHANGED userTable
    BY <1>1, <1>2, RowsUnsaved DEF PrivateInv
  <1>3. CASE /\ orgTags' = [orgTags EXCEPT ![s.user] = s.tags]
             /\ tagged' = IF s.by = "register" THEN tagged \cup {s.user} ELSE tagged
             /\ unshown' = IF s.showed THEN unshown ELSE unshown \cup {s.user}
    <2>1. /\ s.showed => Private[s.user] \in s.tags
          /\ s.by = "register" => s.user \in Registered /\ s.showed
      BY <1>1 DEF Named, Saves
    <2>2. \A u \in Registered : u \in Person
      BY OrgTagsAssumption
    <2>3. ASSUME NEW u \in tagged' \ unshown' PROVE Private[u] \in orgTags'[u]
      <3>1. u \in Person
        BY <1>3, <2>1, <2>2, <2>3 DEF PrivateInv
      <3>2. CASE u = s.user
        BY <1>3, <2>1, <2>3, <3>1, <3>2 DEF PrivateInv
      <3>3. CASE u # s.user
        BY <1>3, <2>3, <3>1, <3>3 DEF PrivateInv, PrivateTagKept
      <3> QED
        BY <3>2, <3>3
    <2>4. orgTags' = [u \in Person |-> orgTags'[u]] /\ tagged' \subseteq Registered
      BY <1>3, <2>1 DEF PrivateInv
    <2> QED
      BY <1>1, <2>3, <2>4 DEF PrivateInv, PrivateTagKept, Named
  <1> QED
    BY <1>2, <1>3 DEF SaveRow

LEMMA SavesKeepTags ==
    ASSUME PrivateInv, NEW s \in saves,
           SaveTag(s) \/ AssignTags(s) \/ SavePrimary(s) \/ CreatePrivateTag(s)
    PROVE  PrivateInv'
  <1>1. UNCHANGED userTable
    BY DEF SaveTag, AssignTags, SavePrimary, CreatePrivateTag, tagTables
  <1>2. tagDialog'.open => tagDialog'.kind \notin Saves
    <2>1. tagDialog' = Closed \/ UNCHANGED tagDialog
      BY DEF SaveTag, AssignTags, SavePrimary, CreatePrivateTag, tagDialogs
    <2> QED
      BY <2>1 DEF PrivateInv, Closed
  <1>3. \A r \in saves' : r \in saves \/ Named(r)
    <2>1. CASE SaveTag(s)
      BY <2>1 DEF SaveTag
    <2>2. CASE AssignTags(s)
      <3> DEFINE new == Row("assign", s.user, s.tags, primaryOrg[s.user], s.showed)
      <3>1. s.kind = "assign" /\ Named(s)
        BY <2>2 DEF AssignTags, PrivateInv
      <3>2. Named(new)
        BY <3>1 DEF Row, Named, Saves
      <3>3. saves' = (saves \ {s}) \cup {new} \/ saves' = saves \ {s}
        BY <2>2 DEF AssignTags
      <3> HIDE DEF new
      <3> QED
        BY <3>2, <3>3
    <2>3. CASE SavePrimary(s)
      <3> DEFINE held == orgTags[s.user]
      <3> DEFINE new == Row("primary", s.user, held, s.tag, Private[s.user] \in held)
      <3>1. Named(new)
        BY DEF Row, Named, Saves
      <3>2. saves' = (saves \ {s}) \cup {new} \/ saves' = saves \ {s}
        BY <2>3 DEF SavePrimary
      <3> HIDE DEF new
      <3> QED
        BY <3>1, <3>2
    <2>4. CASE CreatePrivateTag(s)
      BY <2>4 DEF CreatePrivateTag, Row, Named, Saves
    <2> QED
      BY <2>1, <2>2, <2>3, <2>4
  <1> QED
    BY <1>1, <1>2, <1>3, RowsUnsaved

LEMMA PrivateStep == PrivateInv /\ [OrgTagsNext]_orgTagsVars => PrivateInv'
  <1> SUFFICES ASSUME PrivateInv, [OrgTagsNext]_orgTagsVars PROVE PrivateInv'
    OBVIOUS
  <1>1. CASE \/ LoadTree \/ LoadUsers \/ OpenTagDialog \/ CancelTag \/ PickTags \/ CancelUserTags
             \/ \E t \in Tag : DeleteTag(t)
             \/ \E u \in Person : OpenUserDialog(u) \/ LoadMine(u)
             \/ UNCHANGED orgTagsVars
    <2>1. UNCHANGED <<userTable, saves>>
      BY <1>1 DEF LoadTree, LoadUsers, OpenTagDialog, CancelTag, PickTags, CancelUserTags, DeleteTag,
                  OpenUserDialog, LoadMine, orgTagsVars, tagTables
    <2>2. tagDialog'.open => tagDialog'.kind \notin Saves
      BY <1>1 DEF LoadTree, LoadUsers, OpenTagDialog, CancelTag, PickTags, CancelUserTags, DeleteTag,
                  OpenUserDialog, LoadMine, orgTagsVars, tagDialogs, PrivateInv, Closed, Saves
    <2> QED
      BY <2>1, <2>2, RowsUnsaved
  <1> QED
    BY <1>1, SubmitsKeepTags, SavesKeepTags, RowSaved DEF OrgTagsNext

(* Whoever was given a private tag by the registration keeps it, whatever  *)
(* is assigned or chosen concurrently and from however old a row, as long  *)
(* as no row is saved that was read without it.                            *)
THEOREM PrivateTagsSurvive == OrgTagsSpec => []PrivateTagKept
  <1>1. PrivateInv => PrivateTagKept
    BY DEF PrivateInv
  <1> QED
    BY <1>1, PrivateInit, PrivateStep, PTL DEF OrgTagsSpec

-----------------------------------------------------------------------------
(* Registrations.  A submission past the creation wrote its password, and  *)
(* no other one gets past it for the same name.                            *)
Submission == [id : Nat, name : Name, password : Password,
               step : {"find", "create", "tag", "assign", "ok", "error"}]

Registering(r) ==
    /\ r.step \in {"tag", "assign", "ok"} => accounts[r.name].password = r.password
    /\ r.step \in {"assign", "ok"} => r.name \in tags
    /\ r.step = "ok" => accounts[r.name] = [password |-> r.password, tag |-> TRUE]

RegistrationInv ==
    /\ accounts \in [Name -> [password : Password \cup {"none"}, tag : BOOLEAN]]
    /\ told \in [Name -> Password \cup {"none"}] /\ submitted \in Nat
    /\ \A r \in submits : r \in Submission /\ Registering(r)
    /\ RegistrationComplete

LEMMA RegistrationInit == AccountInit => RegistrationInv
  BY DEF AccountInit, RegistrationInv, RegistrationComplete, NoRow

(* A submission moves on and leaves the rows that the others rely on.      *)
LEMMA SubmissionMoved ==
    ASSUME RegistrationInv, NEW r \in submits, UNCHANGED <<told, submitted>>,
           NEW step \in {"create", "tag", "assign", "ok", "error"}, To(r, step),
           accounts' \in [Name -> [password : Password \cup {"none"}, tag : BOOLEAN]],
           step \in {"tag", "assign", "ok"} => accounts'[r.name].password = r.password,
           step \in {"assign", "ok"} => r.name \in tags',
           step = "ok" => accounts'[r.name] = [password |-> r.password, tag |-> TRUE],
           \A q \in submits \ {r} : Registering(q)', RegistrationComplete'
    PROVE  RegistrationInv'
  <1> DEFINE next == [r EXCEPT !.step = step]
  <1>1. r \in Submission
    BY DEF RegistrationInv
  <1>2. /\ next \in Submission /\ next.step = step /\ next.name = r.name
        /\ next.password = r.password /\ submits' = (submits \ {r}) \cup {next}
    BY <1>1 DEF To, Submission
  <1> HIDE DEF next
  <1>3. Registering(next)'
    BY <1>2 DEF Registering
  <1> QED
    BY <1>2, <1>3 DEF RegistrationInv

LEMMA ServedRegistration ==
    ASSUME RegistrationInv, NEW r \in submits,
           FindUser(r) \/ CreateUser(r) \/ CreateTag(r) \/ AssignTag(r) \/ StatementFails(r)
    PROVE  RegistrationInv'
  <1>1. /\ r.name \in Name /\ r.password \in Password /\ Registering(r)
        /\ accounts \in [Name -> [password : Password \cup {"none"}, tag : BOOLEAN]]
    BY DEF RegistrationInv, Submission
  <1>2. UNCHANGED <<told, submitted>>
    BY DEF FindUser, CreateUser, CreateTag, AssignTag, StatementFails, Serving
  <1>3. \A q \in submits : q.name \in Name /\ q.password \in Password /\ Registering(q)
    BY DEF RegistrationInv, Submission
  <1>4. CASE UNCHANGED <<accounts, tags>> /\ (To(r, "create") \/ To(r, "error"))
    <2>1. (\A q \in submits : Registering(q)') /\ RegistrationComplete'
      BY <1>2, <1>4 DEF RegistrationInv, Registering, RegistrationComplete
    <2> QED
      BY <1>1, <1>2, <1>4, <2>1, SubmissionMoved
  <1>5. CASE CreateUser(r) /\ accounts[r.name] = NoRow
    <2>1. /\ accounts' = [accounts EXCEPT ![r.name].password = r.password]
          /\ tags' = tags /\ To(r, "tag")
      BY <1>5 DEF CreateUser
    <2>2. /\ accounts' \in [Name -> [password : Password \cup {"none"}, tag : BOOLEAN]]
          /\ accounts'[r.name].password = r.password
          /\ \A n \in Name \ {r.name} : accounts'[n] = accounts[n]
      BY <1>1, <2>1
    <2>3. accounts[r.name].password = "none" /\ accounts[r.name].tag = FALSE
      BY <1>5 DEF NoRow
    <2>4. ASSUME NEW q \in submits \ {r} PROVE Registering(q)'
      <3>1. CASE q.name = r.name
        BY <1>3, <2>3, <3>1, AccountsAssumption DEF Registering
      <3>2. CASE q.name # r.name
        BY <1>3, <2>1, <2>2, <3>2 DEF Registering
      <3> QED
        BY <3>1, <3>2
    <2>5. RegistrationComplete'
      <3>1. told[r.name] = "none"
        BY <1>1, <2>3 DEF RegistrationInv, RegistrationComplete
      <3> QED
        BY <1>2, <2>1, <2>2, <3>1 DEF RegistrationInv, RegistrationComplete
    <2> QED
      BY <1>2, <2>1, <2>2, <2>4, <2>5, SubmissionMoved
  <1>6. CASE CreateTag(r)
    <2>1. accounts' = accounts /\ tags' = tags \cup {r.name} /\ To(r, "assign") /\ r.step = "tag"
      BY <1>6 DEF CreateTag, Serving
    <2>2. (\A q \in submits : Registering(q)') /\ RegistrationComplete'
      BY <1>2, <1>3, <2>1 DEF RegistrationInv, Registering, RegistrationComplete
    <2>3. accounts[r.name].password = r.password
      BY <1>1, <2>1 DEF Registering
    <2> QED
      BY <1>1, <1>2, <2>1, <2>2, <2>3, SubmissionMoved
  <1>7. CASE AssignTag(r)
    <2> DEFINE row == [password |-> r.password, tag |-> TRUE]
    <2>1. /\ accounts' = [accounts EXCEPT ![r.name] = row]
          /\ tags' = tags /\ To(r, "ok") /\ r.step = "assign"
      BY <1>7 DEF AssignTag, Serving
    <2>2. /\ row.password = r.password /\ accounts[r.name].password = r.password
          /\ r.name \in tags /\ row \in [password : Password \cup {"none"}, tag : BOOLEAN]
      BY <1>1, <2>1 DEF Registering
    <2>3. \A q \in submits : q.name = r.name /\ q.step \in {"tag", "assign", "ok"} =>
             q.password = r.password
      BY <1>3, <2>2 DEF Registering
    <2>4. told[r.name] # "none" => told[r.name] = r.password
      BY <1>1, <2>2 DEF RegistrationInv, RegistrationComplete
    <2>5. \A q \in submits : row = [password |-> r.password, tag |-> TRUE]
      OBVIOUS
    <2> HIDE DEF row
    <2>6. /\ accounts' \in [Name -> [password : Password \cup {"none"}, tag : BOOLEAN]]
          /\ accounts'[r.name] = row /\ \A n \in Name \ {r.name} : accounts'[n] = accounts[n]
      BY <1>1, <2>1, <2>2
    <2>7. ASSUME NEW q \in submits PROVE Registering(q)'
      <3>1. CASE q.name = r.name
        BY <1>3, <2>1, <2>2, <2>3, <2>5, <2>6, <3>1 DEF Registering
      <3>2. CASE q.name # r.name
        BY <1>3, <2>1, <2>6, <3>2 DEF Registering
      <3> QED
        BY <3>1, <3>2
    <2>8. RegistrationComplete'
      BY <1>2, <2>1, <2>4, <2>5, <2>6 DEF RegistrationInv, RegistrationComplete
    <2> QED
      BY <1>2, <2>1, <2>2, <2>5, <2>6, <2>7, <2>8, SubmissionMoved
  <1> QED
    BY <1>4, <1>5, <1>6, <1>7
       DEF FindUser, CreateUser, StatementFails, serverAccounts

LEMMA RegistrationStep == RegistrationInv /\ [AccountNext]_accountVars => RegistrationInv'
  <1> SUFFICES ASSUME RegistrationInv, [AccountNext]_accountVars PROVE RegistrationInv'
    OBVIOUS
  <1>1. CASE UNCHANGED <<submits, submitted, accounts, tags, told>>
    BY <1>1 DEF RegistrationInv, Registering, RegistrationComplete
  <1>2. CASE SubmitRegister
    <2>1. form.name \in Name /\ form.password \in Password
      <3>1. Rules[at] = Register
        BY <1>2 DEF SubmitRegister, Rules, Modules
      <3>2. Accepts("name", form) /\ Accepts("password", form)
        BY <1>2, <3>1 DEF SubmitRegister, Validate, Register
      <3> QED
        BY <3>2 DEF Accepts
    <2> DEFINE new == [id |-> submitted + 1, name |-> form.name, password |-> form.password,
                       step |-> "find"]
    <2>2. new \in Submission /\ new.step = "find" /\ submits' = submits \cup {new}
      BY <1>2, <2>1 DEF SubmitRegister, RegistrationInv, Submission
    <2> HIDE DEF new
    <2>3. UNCHANGED <<accounts, tags, told>> /\ submitted' \in Nat
      BY <1>2 DEF SubmitRegister, serverAccounts, RegistrationInv
    <2> QED
      BY <2>2, <2>3 DEF RegistrationInv, Registering, RegistrationComplete
  <1>3. ASSUME NEW r \in submits, RegisterReply(r) PROVE RegistrationInv'
    <2>1. UNCHANGED <<submitted, accounts, tags>> /\ submits' = submits \ {r}
      BY <1>3 DEF RegisterReply, serverAccounts
    <2>2. r.name \in Name /\ r.password \in Password /\ Registering(r)
      BY DEF RegistrationInv, Submission
    <2>3. CASE r.step = "ok"
      <3>1. told' = [told EXCEPT ![r.name] = r.password]
        BY <1>3, <2>3 DEF RegisterReply
      <3> QED
        BY <2>1, <2>2, <2>3, <3>1 DEF RegistrationInv, Registering, RegistrationComplete
    <2>4. CASE UNCHANGED told
      BY <2>1, <2>4 DEF RegistrationInv, Registering, RegistrationComplete
    <2> QED
      BY <1>3, <2>3, <2>4 DEF RegisterReply
  <1>4. CASE UNCHANGED accountVars
    BY <1>1, <1>4 DEF accountVars, serverAccounts
  <1> QED
    BY <1>1, <1>2, <1>3, <1>4, ServedRegistration
       DEF AccountNext, Fill, ToggleLoginModule, LogIn, GetCaptcha, CaptchaTimer, serverAccounts

(* A name that was said to be registered has its row, with the password    *)
(* said, and its private tag, however submissions overlap and fail.        *)
THEOREM RegistrationsComplete == AccountSpec => []RegistrationComplete
  <1>1. RegistrationInv => RegistrationComplete
    BY DEF RegistrationInv
  <1> QED
    BY <1>1, RegistrationInit, RegistrationStep, PTL DEF AccountSpec

-----------------------------------------------------------------------------
(* The layout.  What a narrow window had is in the backup, or about to be  *)
(* put back, until another window uses the backup.                         *)
Fitted == [mode : Mode, collapse : BOOLEAN]
Screen == [narrow : BOOLEAN, mode : Mode, reverse : BOOLEAN, collapse : BOOLEAN,
           full : BOOLEAN, tab : BOOLEAN]

Kept(w) ==
    before[w] # None /\ ~spoiled[w] =>
        IF win[w].narrow THEN backup = before[w]
        ELSE IF restoring[w] = None THEN Shows(w) = before[w] ELSE restoring[w] = before[w]

LayoutInv ==
    /\ win \in [Window -> Screen]
    /\ backup \in Fitted \cup {None}
    /\ restoring \in [Window -> Fitted \cup {None}] /\ before \in [Window -> Fitted \cup {None}]
    /\ spoiled \in [Window -> BOOLEAN]
    /\ \A w \in Window :
          /\ Kept(w)
          /\ win[w].narrow => restoring[w] = None
          /\ win[w].full => win[w].tab

LEMMA LayoutTypes ==
    /\ Settings \in Screen /\ None \notin Fitted
    /\ \A m \in Mode, v \in BOOLEAN : [mode |-> m, collapse |-> v] \in Fitted
  BY DEF Settings, Screen, None, Fitted, Mode

LEMMA LayoutStarts == LayoutInit => LayoutInv
  BY LayoutTypes DEF LayoutInit, LayoutInv, Kept, Settings

(* A click that leaves the backup alone: a window that is wide forgets     *)
(* what it had when its mode or its sider changes.                         *)
LEMMA LayoutClicked ==
    ASSUME LayoutInv, NEW w \in Window, NEW next \in Screen, win' = [win EXCEPT ![w] = next],
           UNCHANGED <<backup, restoring, spoiled>>, next.narrow = win[w].narrow,
           next.full => next.tab,
           \/ Forget(w)
           \/ /\ UNCHANGED before
              /\ next.narrow \/ (next.mode = win[w].mode /\ next.collapse = win[w].collapse)
    PROVE  LayoutInv'
  <1>1. /\ win' \in [Window -> Screen] /\ before' \in [Window -> Fitted \cup {None}]
        /\ \A v \in Window \ {w} : win'[v] = win[v] /\ before'[v] = before[v]
        /\ win'[w] = next
    BY DEF LayoutInv, Forget
  <1>2. Kept(w)'
    <2>1. CASE Forget(w)
      BY <1>1, <2>1 DEF LayoutInv, Kept, Forget
    <2>2. CASE ~Forget(w)
      BY <1>1, <2>2 DEF LayoutInv, Kept, Shows
    <2> QED
      BY <2>1, <2>2
  <1>3. \A v \in Window \ {w} : Kept(v)'
    BY <1>1 DEF LayoutInv, Kept, Shows
  <1> QED
    BY <1>1, <1>2, <1>3 DEF LayoutInv

(* A step of the watch: the windows that had kept something are spoiled.   *)
LEMMA OthersSpoiled ==
    ASSUME LayoutInv, NEW w \in Window,
           \A v \in Window \ {w} : /\ win'[v] = win[v] /\ restoring'[v] = restoring[v]
                                   /\ before'[v] = before[v]
                                   /\ spoiled'[v] = Spoil(w)[v]
    PROVE  \A v \in Window \ {w} : /\ Kept(v)' /\ (win'[v].narrow => restoring'[v] = None)
                                   /\ win'[v].full => win'[v].tab
  <1>1. ASSUME NEW v \in Window \ {w}, before[v] # None PROVE spoiled'[v]
    BY <1>1 DEF Spoil
  <1> QED
    BY <1>1 DEF LayoutInv, Kept

LEMMA LayoutStep == LayoutInv /\ [LayoutNext]_layoutVars => LayoutInv'
  <1> SUFFICES ASSUME LayoutInv, [LayoutNext]_layoutVars PROVE LayoutInv'
    OBVIOUS
  <1>0. ASSUME UNCHANGED layoutVars PROVE LayoutInv'
    BY <1>0 DEF layoutVars, layoutHistory, LayoutInv, Kept, Shows
  <1> SUFFICES ASSUME NEW w \in Window,
                      \/ Narrow(w) \/ Widen(w) \/ Restore(w) \/ ReloadWindow(w)
                      \/ \E m \in Mode : SetThemeLayout(w, m)
                      \/ SetLayoutReverse(w) \/ SetTabVisible(w) \/ ResetConfig(w)
                      \/ ToggleSider(w) \/ ClickMask(w) \/ ToggleFullContent(w)
               PROVE  LayoutInv'
    BY <1>0 DEF LayoutNext
  <1>1. win[w] \in Screen /\ (win[w].full => win[w].tab)
    BY DEF LayoutInv
  <1>2. CASE Narrow(w)
    <2> DEFINE next == [win[w] EXCEPT !.narrow = TRUE, !.mode = "vertical", !.collapse = TRUE]
    <2>1. /\ next \in Screen /\ next.narrow /\ (next.full => next.tab)
          /\ win' = [win EXCEPT ![w] = next]
      BY <1>1, <1>2 DEF Narrow, Screen, Mode
    <2>2. Shows(w) \in Fitted /\ Shows(w) # None
      BY <1>1, LayoutTypes DEF Shows, Screen
    <2>3. /\ backup' = Shows(w) /\ before' = [before EXCEPT ![w] = Shows(w)]
          /\ spoiled' = [Spoil(w) EXCEPT ![w] = FALSE] /\ UNCHANGED restoring
          /\ restoring[w] = None
      BY <1>2 DEF Narrow, Event
    <2> HIDE DEF next
    <2>4. /\ \A v \in Window \ {w} : /\ win'[v] = win[v] /\ restoring'[v] = restoring[v]
                                     /\ before'[v] = before[v] /\ spoiled'[v] = Spoil(w)[v]
          /\ win'[w] = next /\ before'[w] = Shows(w) /\ spoiled' \in [Window -> BOOLEAN]
      BY <2>1, <2>3 DEF LayoutInv, Spoil
    <2>5. Kept(w)'
      BY <2>1, <2>3, <2>4 DEF Kept
    <2> QED
      BY <2>1, <2>2, <2>3, <2>4, <2>5, OthersSpoiled DEF LayoutInv
  <1>3. CASE Widen(w)
    <2> DEFINE next == [win[w] EXCEPT !.narrow = FALSE]
    <2>1. /\ next \in Screen /\ ~next.narrow /\ (next.full => next.tab)
          /\ win' = [win EXCEPT ![w] = next] /\ win[w].narrow
      BY <1>1, <1>3 DEF Widen, Screen
    <2>2. restoring' = [restoring EXCEPT ![w] = backup] /\ UNCHANGED <<backup, before, spoiled>>
      BY <1>3 DEF Widen, layoutHistory
    <2> HIDE DEF next
    <2>3. /\ \A v \in Window \ {w} : win'[v] = win[v] /\ restoring'[v] = restoring[v]
          /\ win'[w] = next /\ restoring'[w] = backup
      BY <2>1, <2>2 DEF LayoutInv
    <2>4. Kept(w)'
      BY <2>1, <2>2, <2>3 DEF LayoutInv, Kept
    <2>5. \A v \in Window \ {w} : Kept(v)'
      BY <2>2, <2>3 DEF LayoutInv, Kept, Shows
    <2> QED
      BY <2>1, <2>2, <2>3, <2>4, <2>5 DEF LayoutInv
  <1>4. CASE Restore(w)
    <2> DEFINE next == [win[w] EXCEPT !.mode = restoring[w].mode,
                                      !.collapse = restoring[w].collapse]
    <2>1. restoring[w] \in Fitted /\ ~win[w].narrow
      BY <1>4 DEF Restore, LayoutInv
    <2>2. /\ next \in Screen /\ ~next.narrow /\ (next.full => next.tab)
          /\ next.mode = restoring[w].mode /\ next.collapse = restoring[w].collapse
          /\ win' = [win EXCEPT ![w] = next]
      BY <1>1, <1>4, <2>1 DEF Restore, Screen, Fitted
    <2>3. /\ backup' = None /\ restoring' = [restoring EXCEPT ![w] = None]
          /\ UNCHANGED before /\ spoiled' = Spoil(w)
      BY <1>4 DEF Restore
    <2> HIDE DEF next
    <2>4. /\ \A v \in Window \ {w} : /\ win'[v] = win[v] /\ restoring'[v] = restoring[v]
                                     /\ before'[v] = before[v] /\ spoiled'[v] = Spoil(w)[v]
          /\ win'[w] = next /\ restoring'[w] = None /\ spoiled'[w] = spoiled[w]
          /\ spoiled' \in [Window -> BOOLEAN]
      BY <2>2, <2>3 DEF LayoutInv, Spoil
    <2>5. Kept(w)'
      <3>1. before[w] # None /\ ~spoiled[w] => restoring[w] = before[w]
        BY <2>1, LayoutTypes DEF LayoutInv, Kept
      <3>2. restoring[w] = [mode |-> restoring[w].mode, collapse |-> restoring[w].collapse]
        BY <2>1 DEF Fitted
      <3> QED
        BY <2>2, <2>3, <2>4, <3>1, <3>2 DEF Kept, Shows
    <2> QED
      BY <2>2, <2>3, <2>4, <2>5, OthersSpoiled DEF LayoutInv
  <1>5. CASE ReloadWindow(w)
    <2>1. CASE win[w].narrow
      <3> DEFINE next == [Settings EXCEPT !.narrow = TRUE, !.collapse = TRUE]
                 kept == [mode |-> Settings.mode, collapse |-> FALSE]
      <3>1. /\ next \in Screen /\ next.narrow /\ (next.full => next.tab)
            /\ win' = [win EXCEPT ![w] = next]
        BY <1>5, <2>1 DEF ReloadWindow, Settings, Screen, Mode
      <3>2. kept \in Fitted /\ backup' = kept
        BY <1>5, <2>1, LayoutTypes DEF ReloadWindow, Screen
      <3>3. /\ restoring' = [restoring EXCEPT ![w] = None] /\ UNCHANGED before
            /\ spoiled' = [Spoil(w) EXCEPT ![w] = TRUE]
        BY <1>5, <2>1 DEF ReloadWindow, Forget, LayoutInv
      <3> HIDE DEF next, kept
      <3>4. /\ \A v \in Window \ {w} : /\ win'[v] = win[v] /\ restoring'[v] = restoring[v]
                                       /\ before'[v] = before[v] /\ spoiled'[v] = Spoil(w)[v]
            /\ win'[w] = next /\ restoring'[w] = None /\ spoiled'[w]
            /\ spoiled' \in [Window -> BOOLEAN]
        <4>1. /\ \A v \in Window \ {w} : win'[v] = win[v] /\ restoring'[v] = restoring[v]
              /\ win'[w] = next /\ restoring'[w] = None /\ before' = before
          BY <3>1, <3>3 DEF LayoutInv
        <4>2. DOMAIN Spoil(w) = Window /\ Spoil(w) \in [Window -> BOOLEAN]
          BY DEF LayoutInv, Spoil
        <4>3. /\ \A v \in Window \ {w} : spoiled'[v] = Spoil(w)[v]
              /\ spoiled'[w] /\ spoiled' \in [Window -> BOOLEAN]
          BY <3>3, <4>2
        <4> QED
          BY <4>1, <4>3
      <3> HIDE <2>1
      <3> QED
        BY <3>1, <3>2, <3>3, <3>4, OthersSpoiled, ZenonT(60) DEF LayoutInv, Kept
    <2>2. CASE ~win[w].narrow
      <3>1. /\ win' = [win EXCEPT ![w] = Settings] /\ ~Settings.narrow /\ ~Settings.full
            /\ restoring' = [restoring EXCEPT ![w] = backup]
            /\ before' = [before EXCEPT ![w] = None] /\ UNCHANGED <<backup, spoiled>>
        BY <1>5, <2>2 DEF ReloadWindow, Forget, Settings
      <3>2. /\ \A v \in Window \ {w} : /\ win'[v] = win[v] /\ restoring'[v] = restoring[v]
                                       /\ before'[v] = before[v]
            /\ win'[w] = Settings /\ before'[w] = None
        BY <3>1 DEF LayoutInv
      <3>3. \A v \in Window : Kept(v)'
        BY <3>1, <3>2 DEF LayoutInv, Kept, Shows
      <3> QED
        BY <3>1, <3>2, <3>3, LayoutTypes DEF LayoutInv
    <2> QED
      BY <2>1, <2>2
  <1>6. ASSUME NEW m \in Mode, SetThemeLayout(w, m) PROVE LayoutInv'
    <2> DEFINE next == [win[w] EXCEPT !.mode = m]
    <2>1. /\ next \in Screen /\ next.narrow = win[w].narrow /\ (next.full => next.tab)
          /\ win' = [win EXCEPT ![w] = next]
      BY <1>1, <1>6 DEF SetThemeLayout, Screen
    <2> HIDE DEF next
    <2> QED
      BY <1>6, <2>1, LayoutClicked DEF SetThemeLayout, Drawer
  <1>7. CASE SetLayoutReverse(w)
    <2> DEFINE next == [win[w] EXCEPT !.reverse = ~@]
    <2>1. /\ next \in Screen /\ next.narrow = win[w].narrow /\ (next.full => next.tab)
          /\ win' = [win EXCEPT ![w] = next]
      BY <1>1, <1>7 DEF SetLayoutReverse, Screen
    <2> HIDE DEF next
    <2> QED
      BY <1>7, <2>1, LayoutClicked DEF SetLayoutReverse, Drawer
  <1>8. CASE SetTabVisible(w)
    <2> DEFINE next == [win[w] EXCEPT !.tab = ~@]
    <2>1. /\ next \in Screen /\ next.narrow = win[w].narrow /\ (next.full => next.tab)
          /\ win' = [win EXCEPT ![w] = next]
      BY <1>1, <1>8 DEF SetTabVisible, Drawer, Screen
    <2> HIDE DEF next
    <2> QED
      BY <1>8, <2>1, LayoutClicked DEF SetTabVisible, Drawer
  <1>9. CASE ResetConfig(w)
    <2> DEFINE next == [win[w] EXCEPT !.mode = Settings.mode, !.reverse = FALSE, !.tab = TRUE]
    <2>1. /\ next \in Screen /\ next.narrow = win[w].narrow /\ (next.full => next.tab)
          /\ win' = [win EXCEPT ![w] = next]
      BY <1>1, <1>9, LayoutTypes DEF ResetConfig, Screen
    <2> HIDE DEF next
    <2> QED
      BY <1>9, <2>1, LayoutClicked DEF ResetConfig, Drawer
  <1>10. CASE ToggleSider(w)
    <2> DEFINE next == [win[w] EXCEPT !.collapse = ~@]
    <2>1. /\ next \in Screen /\ next.narrow = win[w].narrow /\ (next.full => next.tab)
          /\ win' = [win EXCEPT ![w] = next]
      BY <1>1, <1>10 DEF ToggleSider, Screen
    <2> HIDE DEF next
    <2> QED
      BY <1>10, <2>1, LayoutClicked DEF ToggleSider
  <1>11. CASE ClickMask(w)
    <2> DEFINE next == [win[w] EXCEPT !.collapse = TRUE]
    <2>1. /\ next \in Screen /\ next.narrow /\ win[w].narrow /\ (next.full => next.tab)
          /\ win' = [win EXCEPT ![w] = next]
      BY <1>1, <1>11 DEF ClickMask, Screen
    <2> HIDE DEF next
    <2> QED
      BY <1>11, <2>1, LayoutClicked DEF ClickMask, layoutHistory
  <1>12. CASE ToggleFullContent(w)
    <2> DEFINE next == [win[w] EXCEPT !.full = ~@]
    <2>1. /\ next \in Screen /\ next.narrow = win[w].narrow /\ next.tab
          /\ next.mode = win[w].mode /\ next.collapse = win[w].collapse
          /\ win' = [win EXCEPT ![w] = next]
      BY <1>1, <1>12 DEF ToggleFullContent, Screen
    <2> HIDE DEF next
    <2> QED
      BY <1>12, <2>1, LayoutClicked DEF ToggleFullContent, layoutHistory
  <1> QED
    BY <1>2, <1>3, <1>4, <1>5, <1>6, <1>7, <1>8, <1>9, <1>10, <1>11, <1>12

(* A window that is wide again has the layout and the sider it had, unless *)
(* it was reloaded in between or another window used the backup.           *)
THEOREM LayoutsRestored == LayoutSpec => []LayoutRestored
  <1>1. LayoutInv => LayoutRestored
    BY DEF LayoutInv, Kept, LayoutRestored
  <1> QED
    BY <1>1, LayoutStarts, LayoutStep, PTL DEF LayoutSpec

(* Every menu is teleported to elements that exist, a sider with a width   *)
(* can be folded, and the full content can be left.                        *)
THEOREM MenusReachable == LayoutSpec => []MenuReachable
  <1>1. LayoutInv => MenuReachable
    <2> SUFFICES ASSUME LayoutInv, NEW w \in Window
                 PROVE  /\ ActiveMenu(win[w].mode, win[w].reverse) \subseteq Places(w)
                        /\ SiderHasWidth(win[w].mode, win[w].reverse) /\ ~win[w].full => CanFold(w)
                        /\ win[w].full => win[w].tab
      BY DEF MenuReachable
    <2>1. win[w].mode \in Mode /\ (win[w].full => win[w].tab)
      BY DEF LayoutInv, Screen
    <2>2. ActiveMenu(win[w].mode, win[w].reverse) \subseteq Places(w)
      <3>1. win[w].mode # "horizontal" => Siders(w) # {}
        <4>1. win[w].narrow \in BOOLEAN
          BY DEF LayoutInv, Screen
        <4>2. CASE win[w].narrow
          <5>1. ("drawer" = "drawer") = win[w].narrow
            BY <4>1, <4>2
          <5> QED
            BY <5>1 DEF Siders, SiderVisible
        <4>3. CASE ~win[w].narrow
          <5>1. ("column" = "drawer") = win[w].narrow
            BY <4>1, <4>3
          <5> QED
            BY <5>1 DEF Siders, SiderVisible
        <4> QED
          BY <4>2, <4>3
      <3> QED
        BY <2>1, <3>1 DEF ActiveMenu, VerticalMenu, VerticalMixMenu, HorizontalMenu,
                          HorizontalMixMenu, ReversedHorizontalMixMenu, Places, HeaderProps, Mode
    <2>3. SiderHasWidth(win[w].mode, win[w].reverse) /\ ~win[w].full => CanFold(w)
      BY <2>1 DEF SiderHasWidth, SiderVisible, CanFold, HeaderToggler, VerticalToggler,
                  FirstLevelToggler, HeaderProps, ChildMenus, Mode
    <2> QED
      BY <2>1, <2>2, <2>3
  <1> QED
    BY <1>1, LayoutStarts, LayoutStep, PTL DEF LayoutSpec

-----------------------------------------------------------------------------
(* The request layer.  A step changes the outcome of one call at most, and *)
(* then as the abstract layer does; waiting for a refresh and sending the  *)
(* call again leave it open.                                               *)
CallsOK ==
    calls = [c \in Call |-> calls[c]]
    /\ \A c \in Call : calls[c] \in [at : {"idle", "sent", "waits", "data", "error"},
                                     token : {calls[c].token}, on : {calls[c].on}]

OutcomeOf(at0) ==
    CASE at0 = "idle" -> "none" [] at0 \in {"sent", "waits"} -> "open" [] OTHER -> at0

LEMMA CallMoved ==
    ASSUME CallsOK, NEW c \in Call, NEW next,
           next = [at |-> next.at, token |-> next.token, on |-> next.on],
           next.at \in {"idle", "sent", "waits", "data", "error"},
           calls' = [calls EXCEPT ![c] = next]
    PROVE  /\ CallsOK'
           /\ Outcome' = [Outcome EXCEPT ![c] = OutcomeOf(next.at)]
           /\ Outcome[c] = OutcomeOf(calls[c].at)
           /\ OutcomeOf(next.at) = OutcomeOf(calls[c].at) => Outcome' = Outcome
  <1>1. /\ \A d \in Call \ {c} : calls'[d] = calls[d]
        /\ calls'[c] = next /\ calls' = [d \in Call |-> calls'[d]]
    BY DEF CallsOK
  <1>2. CallsOK'
    BY <1>1 DEF CallsOK
  <1>3. Outcome = [d \in Call |-> OutcomeOf(calls[d].at)]
    BY DEF Outcome, OutcomeOf
  <1>4. Outcome' = [d \in Call |-> OutcomeOf(calls'[d].at)]
    BY DEF Outcome, OutcomeOf
  <1> QED
    BY <1>1, <1>2, <1>3, <1>4

LEMMA CallOpened ==
    ASSUME CallsOK, NEW c \in Call, NEW next,
           next = [at |-> next.at, token |-> next.token, on |-> next.on],
           next.at = "sent", calls[c].at = "idle",
           calls' = [calls EXCEPT ![c] = next]
    PROVE  CallsOK' /\ C!Open(c)
  <1>1. /\ CallsOK' /\ Outcome' = [Outcome EXCEPT ![c] = OutcomeOf(next.at)]
        /\ Outcome[c] = OutcomeOf(calls[c].at)
    BY CallMoved
  <1> QED
    BY <1>1 DEF C!Open, OutcomeOf

LEMMA CallSettled ==
    ASSUME CallsOK, NEW c \in Call, NEW next,
           next = [at |-> next.at, token |-> next.token, on |-> next.on],
           next.at \in {"data", "error"}, calls[c].at \in {"sent", "waits"},
           calls' = [calls EXCEPT ![c] = next]
    PROVE  CallsOK' /\ C!Settle(c)
  <1>1. /\ CallsOK' /\ Outcome' = [Outcome EXCEPT ![c] = OutcomeOf(next.at)]
        /\ Outcome[c] = OutcomeOf(calls[c].at)
    BY CallMoved
  <1>2. OutcomeOf(next.at) = next.at /\ OutcomeOf(calls[c].at) = "open"
    BY DEF OutcomeOf
  <1> QED
    BY <1>1, <1>2 DEF C!Settle

LEMMA CallStaysOpen ==
    ASSUME CallsOK, NEW c \in Call, NEW next,
           next = [at |-> next.at, token |-> next.token, on |-> next.on],
           next.at \in {"sent", "waits"}, calls[c].at \in {"sent", "waits"},
           calls' = [calls EXCEPT ![c] = next]
    PROVE  CallsOK' /\ Outcome' = Outcome
  <1>1. CallsOK' /\ (OutcomeOf(next.at) = OutcomeOf(calls[c].at) => Outcome' = Outcome)
    BY CallMoved
  <1> QED
    BY <1>1 DEF OutcomeOf

LEMMA CallWaits ==
    ASSUME CallsOK, NEW c \in Call, NEW r, calls[c].at = "sent", calls' = Wait(c, r)
    PROVE  CallsOK' /\ Outcome' = Outcome
  <1> DEFINE next == [[calls[c] EXCEPT !.at = "waits"] EXCEPT !.on = r]
  <1>1. calls' = [calls EXCEPT ![c] = next]
    <2> DEFINE first == [calls EXCEPT ![c] = [calls[c] EXCEPT !.at = "waits"]]
    <2>1. calls' = [first EXCEPT ![c] = [first[c] EXCEPT !.on = r]]
      BY DEF Wait
    <2>2. first[c] = [calls[c] EXCEPT !.at = "waits"]
      BY DEF CallsOK
    <2>3. calls' = [first EXCEPT ![c] = next]
      BY <2>1, <2>2
    <2> QED
      BY <2>3 DEF CallsOK
  <1>2. next = [at |-> next.at, token |-> next.token, on |-> next.on] /\ next.at = "waits"
    <2> DEFINE half == [calls[c] EXCEPT !.at = "waits"]
    <2>1. calls[c] \in [at : {"idle", "sent", "waits", "data", "error"},
                        token : {calls[c].token}, on : {calls[c].on}]
      BY DEF CallsOK
    <2>2. half \in [at : {"waits"}, token : {calls[c].token}, on : {calls[c].on}]
      BY <2>1
    <2>3. next = [half EXCEPT !.on = r]
      OBVIOUS
    <2> HIDE DEF half, next
    <2> QED
      BY <2>2, <2>3
  <1> HIDE DEF next
  <1> QED
    BY <1>1, <1>2, CallStaysOpen

LEMMA CallEnds ==
    ASSUME CallsOK, NEW c \in Call, NEW at0 \in {"data", "error"},
           calls[c].at \in {"sent", "waits"}, calls' = Set(c, at0)
    PROVE  CallsOK' /\ C!Settle(c)
  <1> DEFINE next == [calls[c] EXCEPT !.at = at0]
  <1>1. calls' = [calls EXCEPT ![c] = next]
    BY DEF Set
  <1>0. calls[c] \in [at : {"idle", "sent", "waits", "data", "error"},
                      token : {calls[c].token}, on : {calls[c].on}]
    BY DEF CallsOK
  <1>2. next = [at |-> next.at, token |-> next.token, on |-> next.on] /\ next.at = at0
    BY <1>0
  <1> HIDE DEF next
  <1> QED
    BY <1>1, <1>2, CallSettled

LEMMA CallStep ==
    CallsOK /\ [RequestsNext]_requestsVars => CallsOK' /\ [C!CallsNext]_Outcome
  <1> SUFFICES ASSUME CallsOK, [RequestsNext]_requestsVars
               PROVE  CallsOK' /\ [C!CallsNext]_Outcome
    OBVIOUS
  <1> DEFINE now == Sent(bearer)
  <1>1. now = [at |-> now.at, token |-> now.token, on |-> now.on] /\ now.at = "sent"
    BY DEF Sent
  <1>2. CASE UNCHANGED calls
    BY <1>2 DEF CallsOK, Outcome
  <1>3. ASSUME NEW c \in Call, Issue(c)
        PROVE  CallsOK' /\ C!Open(c)
    <2>1. calls[c].at = "idle" /\ calls' = [calls EXCEPT ![c] = now]
      BY <1>3 DEF Issue
    <2> HIDE DEF now
    <2> QED
      BY <1>1, <2>1, CallOpened
  <1>4. ASSUME NEW c \in Call, Succeed(c) \/ Refuse(c)
        PROVE  CallsOK' /\ C!Settle(c)
    <2>1. PICK at0 \in {"data", "error"} : calls' = Set(c, at0)
      BY <1>4 DEF Succeed, Refuse
    <2>2. calls[c].at = "sent"
      BY <1>4 DEF Succeed, Refuse
    <2> QED
      BY <2>1, <2>2, CallEnds
  <1>5. ASSUME NEW c \in Call, Expired(c)
        PROVE  CallsOK' /\ Outcome' = Outcome
    <2>1. calls[c].at = "sent" /\ \E r : calls' = Wait(c, r)
      BY <1>5 DEF Expired
    <2> QED
      BY <2>1, CallWaits
  <1>6. ASSUME NEW c \in Call, Resume(c)
        PROVE  CallsOK' /\ (C!Settle(c) \/ Outcome' = Outcome)
    <2>1. CASE refreshes[calls[c].on].at = "ok"
      <3>1. calls[c].at = "waits" /\ calls' = [calls EXCEPT ![c] = now]
        BY <1>6, <2>1 DEF Resume
      <3> HIDE DEF now
      <3> QED
        BY <1>1, <3>1, CallStaysOpen
    <2>2. CASE refreshes[calls[c].on].at # "ok"
      <3>1. calls[c].at = "waits" /\ calls' = Set(c, "error")
        BY <1>6, <2>2 DEF Resume
      <3> QED
        BY <3>1, CallEnds
    <2> QED
      BY <2>1, <2>2
  <1>7. ASSUME \/ \E r \in Refresh : RefreshReply(r)
               \/ Timer \/ CloseDialog
               \/ \E t \in 1 .. MaxToken : ServerExpires(t)
        PROVE  UNCHANGED calls
    BY <1>7 DEF RefreshReply, Timer, CloseDialog, ServerExpires
  <1>8. UNCHANGED requestsVars => UNCHANGED calls
    BY DEF requestsVars
  <1> QED
    BY <1>2, <1>3, <1>4, <1>5, <1>6, <1>7, <1>8 DEF RequestsNext, Progress, C!CallsNext

(* A call that has been made is answered once, with data or with an error, *)
(* and the answer stands: through the expiry of its token, the refreshes   *)
(* of other calls, the retries and the end of the session.                 *)
THEOREM RequestsImplementCalls == RequestsSpec => C!CallsInit /\ [][C!CallsNext]_Outcome
  <1>1. RequestsInit => CallsOK /\ C!CallsInit
    BY DEF RequestsInit, CallsOK, C!CallsInit, Outcome
  <1> QED
    BY <1>1, CallStep, PTL DEF RequestsSpec

-----------------------------------------------------------------------------
(* The session.  A location with the path of the login page is the login   *)
(* page once the constant routes are there; before, the guard of the       *)
(* page's first navigation is all that can run.                            *)
Sound(location) ==
    location.ask # "login" /\ (location.path = "login" => location.name = "login")

SoundNav(n) ==
    /\ Sound(n.to)
    /\ n \in [id : {n.id}, to : {n.to}, root : {n.root}, who : {n.who},
              at : {n.at}, then : {n.then}]

SessionInv ==
    /\ Sound(page)
    /\ constInit => ConstantRoutes \subseteq registered /\ \A n \in navs : SoundNav(n)
    /\ ~constInit => page = Start /\ \E path \in Path : navs = Opening(path)

LEMMA ResolvedSound ==
    ASSUME NEW routes, ConstantRoutes \subseteq routes, NEW path
    PROVE  Sound(Resolve(path, routes))
  BY DEF Sound, Resolve, RouteHome, ConstantRoutes

LEMMA PagesSound ==
    /\ Sound(Forbidden) /\ Sound(Start)
    /\ \A ask : ask # "login" => Sound(LoginPage(ask))
  BY DEF Sound, Forbidden, Start, LoginPage

LEMMA PushSound ==
    ASSUME NEW N, \A n \in N : SoundNav(n), NEW to, Sound(to), NEW root, NEW then,
           Push(N, to, root, then)
    PROVE  \A n \in navs' : SoundNav(n)
  <1> DEFINE new == [id |-> FreeId(N), to |-> to, root |-> root, who |-> NoUser,
                     at |-> "guard", then |-> then]
  <1>1. navs' = N \cup {new}
    BY DEF Push
  <1>2. SoundNav(new)
    BY DEF SoundNav
  <1> QED
    BY <1>1, <1>2

LEMMA MoveSound ==
    ASSUME \A m \in navs : SoundNav(m), NEW n \in navs, NEW next, SoundNav(next),
           navs' = (navs \ {n}) \cup {next}
    PROVE  \A m \in navs' : SoundNav(m)
  OBVIOUS

LEMMA RedirectSound ==
    ASSUME \A m \in navs : SoundNav(m), NEW n \in navs, NEW to, Sound(to), NEW root,
           Redirect(n, to, root)
    PROVE  (\A m \in navs' : SoundNav(m)) /\ page' = page
  <1> DEFINE next == [n EXCEPT !.to = to, !.root = root, !.at = "guard"]
  <1>1. next \in [id : {n.id}, to : {to}, root : {root}, who : {n.who},
                   at : {"guard"}, then : {n.then}]
    BY DEF SoundNav
  <1>2. SoundNav(next)
    BY <1>1 DEF SoundNav
  <1>3. navs' = (navs \ {n}) \cup {next} /\ page' = page
    BY DEF Redirect
  <1> HIDE DEF next
  <1> QED
    BY <1>2, <1>3, MoveSound

LEMMA LoadSound ==
    ASSUME \A m \in navs : SoundNav(m), NEW n \in navs, Load(n)
    PROVE  (\A m \in navs' : SoundNav(m)) /\ page' = page
  <1> DEFINE next == [n EXCEPT !.at = "load"]
  <1>1. next \in [id : {n.id}, to : {n.to}, root : {n.root}, who : {n.who},
                   at : {"load"}, then : {n.then}]
    BY DEF SoundNav
  <1>2. SoundNav(next)
    BY <1>1 DEF SoundNav
  <1>3. navs' = (navs \ {n}) \cup {next} /\ page' = page
    BY DEF Load
  <1> HIDE DEF next
  <1> QED
    BY <1>2, <1>3, MoveSound

LEMMA RoutesReset ==
    ResetRoutes \/ InitConstantRoute => constInit' /\ ConstantRoutes \subseteq registered'
  BY DEF ResetRoutes, InitConstantRoute

LEMMA ResetSound ==
    ASSUME constInit, ConstantRoutes \subseteq registered, Sound(page),
           NEW N, \A n \in N : SoundNav(n), ResetStore(N)
    PROVE  SessionInv'
  <1>1. page' = page
    BY DEF ResetStore
  <1>2. CASE Constant(page.name)
    BY <1>1, <1>2, RoutesReset DEF ResetStore, SessionInv, Sound
  <1>3. CASE ~Constant(page.name)
    <2>1. Push(N, LoginPage(page.path), FALSE, "resetRoutes") /\ UNCHANGED routeVars
      BY <1>3 DEF ResetStore
    <2>2. page.path # "login"
      BY <1>3 DEF Sound, Constant, ConstantRoutes
    <2>3. \A n \in navs' : SoundNav(n)
      BY <2>1, <2>2, PagesSound, PushSound
    <2> QED
      BY <1>1, <2>1, <2>3 DEF SessionInv, routeVars, Sound
  <1> QED
    BY <1>2, <1>3

LEMMA DecisionSound ==
    ASSUME \A m \in navs : SoundNav(m), NEW n \in navs, Decide(n),
           ConstantRoutes \subseteq registered'
    PROVE  (\A m \in navs' : SoundNav(m)) /\ page' = page
  <1>1. \/ \E to, root : Sound(to) /\ Redirect(n, to, root)
        \/ Load(n)
    <2>1. CASE n.to.name = "not-found" /\ AuthRouteExists(n.to.path)
      BY <2>1, PagesSound DEF Decide
    <2>2. CASE /\ ~(n.to.name = "not-found" /\ AuthRouteExists(n.to.path))
               /\ n.to.name = "login" /\ stored # NoUser
      BY <2>2, ResolvedSound DEF Decide
    <2>3. CASE /\ ~(n.to.name = "not-found" /\ AuthRouteExists(n.to.path))
               /\ ~(n.to.name = "login" /\ stored # NoUser)
               /\ ~Constant(n.to.name)
      <3>1. n.to.path # "login"
        BY <2>3 DEF SoundNav, Sound, Constant, ConstantRoutes
      <3> QED
        BY <2>3, <3>1, PagesSound DEF Decide
    <2>4. CASE /\ ~(n.to.name = "not-found" /\ AuthRouteExists(n.to.path))
               /\ ~(n.to.name = "login" /\ stored # NoUser)
               /\ Constant(n.to.name)
      BY <2>4 DEF Decide
    <2> QED
      BY <2>1, <2>2, <2>3, <2>4
  <1> QED
    BY <1>1, RedirectSound, LoadSound

LEMMA EndSound ==
    ASSUME constInit, ConstantRoutes \subseteq registered, Sound(page),
           \A m \in navs : SoundNav(m), NEW n \in navs, NEW there, Sound(there), End(n, there)
    PROVE  SessionInv'
  <1>1. (\A m \in navs' : SoundNav(m)) /\ Sound(page)'
    BY DEF End, Sound
  <1>2. constInit' /\ ConstantRoutes \subseteq registered'
    BY RoutesReset DEF End, routeVars
  <1> QED
    BY <1>1, <1>2 DEF SessionInv

LEMMA FirstGuard ==
    ASSUME ~constInit, page = Start, NEW path \in Path, navs = Opening(path), SessionNext
    PROVE  \E n \in navs : GuardConstant(n)
  <1> DEFINE first == [id |-> 1, to |-> Resolve(path, {}), root |-> path = "root",
                       who |-> NoUser, at |-> "guard", then |-> "nothing"]
  <1>1. navs = {first} /\ first.at = "guard" /\ first.to.name = "not-found"
    BY DEF Opening, Resolve
  <1> HIDE DEF first
  <1>2. first.to # page
    BY <1>1 DEF Start
  <1>3. ~Quiet
    BY <1>1 DEF Quiet, Loading
  <1>4. ~(\E u \in User : BackReply(u) \/ LoginSubmit(u)) /\ ~LoginReply /\ ~LoginInfo /\ ~EndSession
        /\ \A q \in Path : ~Navigate(q) /\ ~Reload(q)
    BY <1>3 DEF BackReply, LoginSubmit, LoginReply, LoginInfo, EndSession, Navigate, Reload
  <1>5. \A n \in navs : ~Confirm(n) /\ ~InfoReply(n) /\ ~LoadFails(n) /\ ~Rejects(n)
    BY <1>1 DEF Confirm, InfoReply, LoadFails, Loading, Rejects
  <1>6. \E n \in navs : Guard(n)
    BY <1>4, <1>5 DEF SessionNext, Jobs, Replies
  <1> QED
    BY <1>1, <1>2, <1>6 DEF Guard, GuardDuplicate, GuardAnonymous, GuardAsksInfo, GuardInit,
                            GuardDecides

LEMMA SessionStep == SessionInv /\ [SessionNext]_sessionVars => SessionInv'
  <1> SUFFICES ASSUME SessionInv, [SessionNext]_sessionVars
               PROVE  SessionInv'
    OBVIOUS
  <1>1. CASE UNCHANGED sessionVars
    BY <1>1 DEF sessionVars, navVars, routeVars, SessionInv, Sound
  <1>2. CASE ~constInit /\ SessionNext
    <2>1. PICK n \in navs : GuardConstant(n)
      BY <1>2, FirstGuard DEF SessionInv
    <2>2. PICK path \in Path : navs = Opening(path)
      BY <1>2 DEF SessionInv
    <2>3. constInit' /\ ConstantRoutes \subseteq registered'
      BY <2>1, RoutesReset DEF GuardConstant
    <2> DEFINE to == Resolve(n.to.path, registered')
               next == [n EXCEPT !.to = to, !.root = n.root, !.at = "guard"]
    <2>4. Sound(to)
      BY <2>3, ResolvedSound
    <2>8. n \in [id : {n.id}, to : {n.to}, root : {n.root}, who : {n.who},
                at : {"guard"}, then : {n.then}]
      BY <2>2 DEF Opening
    <2>5. next \in [id : {n.id}, to : {to}, root : {n.root}, who : {n.who},
                     at : {"guard"}, then : {n.then}]
      BY <2>8
    <2>6. SoundNav(next)
      BY <2>4, <2>5 DEF SoundNav
    <2>7. navs' = {next} /\ page' = page
      BY <2>1, <2>2 DEF GuardConstant, Redirect, Opening
    <2> HIDE DEF next
    <2> QED
      BY <2>3, <2>6, <2>7 DEF SessionInv, Sound
  <1> SUFFICES ASSUME constInit, SessionNext
               PROVE  SessionInv'
    BY <1>1, <1>2
  <1>3. /\ Sound(page) /\ ConstantRoutes \subseteq registered
        /\ \A n \in navs : SoundNav(n)
    BY DEF SessionInv
  <1>4. ASSUME UNCHANGED <<constInit, registered, page>>, \A n \in navs' : SoundNav(n)
        PROVE  SessionInv'
    BY <1>3, <1>4 DEF SessionInv, Sound
  <1>5. ASSUME NEW n \in navs, Guard(n)
        PROVE  SessionInv'
    <2>1. CASE GuardDuplicate(n)
      BY <1>3, <2>1, EndSound DEF GuardDuplicate
    <2>2. CASE GuardAnonymous(n)
      <3>1. \/ Load(n)
            \/ \E ask : ask # "login" /\ Redirect(n, LoginPage(ask), FALSE)
        <4>1. n.to.name # "login" => n.to.path # "login"
          BY <1>3 DEF SoundNav, Sound
        <4>2. LoginQuery(n.to) # "login"
          BY <4>1 DEF LoginQuery
        <4> QED
          BY <2>2, <4>2 DEF GuardAnonymous
      <3> QED
        BY <1>3, <1>4, <2>2, <3>1, RedirectSound, LoadSound, PagesSound
           DEF GuardAnonymous, routeVars
    <2>3. CASE GuardAsksInfo(n)
      <3> DEFINE next == [n EXCEPT !.at = "info", !.who = stored]
      <3>1. next \in [id : {n.id}, to : {n.to}, root : {n.root}, who : {stored},
                       at : {"info"}, then : {n.then}]
        BY <1>3 DEF SoundNav
      <3>2. SoundNav(next)
        BY <1>3, <3>1 DEF SoundNav
      <3>3. navs' = (navs \ {n}) \cup {next} /\ UNCHANGED <<constInit, registered, page>>
        BY <2>3 DEF GuardAsksInfo, routeVars
      <3> HIDE DEF next
      <3> QED
        BY <1>3, <1>4, <3>2, <3>3, MoveSound
    <2>4. CASE GuardInit(n)
      <3>1. constInit' = constInit /\ ConstantRoutes \subseteq registered'
        BY <2>4 DEF GuardInit, InitAuthRoute
      <3>2. (\A m \in navs' : SoundNav(m)) /\ page' = page
        <4>1. CASE n.to.name = "not-found"
          BY <1>3, <2>4, <3>1, <4>1, ResolvedSound, RedirectSound DEF GuardInit
        <4>2. CASE n.to.name # "not-found"
          BY <1>3, <2>4, <3>1, <4>2, DecisionSound DEF GuardInit
        <4> QED
          BY <4>1, <4>2
      <3> QED
        BY <1>3, <3>1, <3>2 DEF SessionInv, Sound
    <2>5. CASE GuardDecides(n)
      BY <1>3, <1>4, <2>5, DecisionSound DEF GuardDecides, routeVars
    <2> QED
      BY <1>5, <2>1, <2>2, <2>3, <2>4, <2>5 DEF Guard, GuardConstant
  <1>6. ASSUME NEW n \in navs, Confirm(n)
        PROVE  SessionInv'
    <2>1. PICK there : Sound(there) /\ End(n, there)
      BY <1>3, <1>6 DEF Confirm, SoundNav
    <2> QED
      BY <1>3, <2>1, EndSound
  <1>7. ASSUME NEW n \in navs, InfoReply(n)
        PROVE  SessionInv'
    <2> DEFINE next == [n EXCEPT !.at = "init", !.who = NoUser]
               N == (navs \ {n}) \cup {next}
    <2>1. next \in [id : {n.id}, to : {n.to}, root : {n.root}, who : {NoUser},
                     at : {"init"}, then : {n.then}]
      BY <1>3 DEF SoundNav
    <2>2. SoundNav(next)
      BY <1>3, <2>1 DEF SoundNav
    <2>3. \/ navs' = N /\ UNCHANGED <<constInit, registered, page>>
          \/ ResetStore(N)
      BY <1>7 DEF InfoReply, routeVars
    <2> HIDE DEF next
    <2>4. \A m \in N : SoundNav(m)
      BY <1>3, <2>2
    <2> HIDE DEF N
    <2> QED
      BY <1>3, <1>4, <2>3, <2>4, ResetSound
  <1>8. ASSUME NEW u \in User, BackReply(u)
        PROVE  SessionInv'
    BY <1>3, <1>4, <1>8, ResetSound DEF BackReply, routeVars, navVars
  <1>9. CASE LoginReply
    BY <1>3, <1>4, <1>9, ResetSound DEF LoginReply, routeVars, navVars
  <1>10. CASE LoginInfo
    <2>1. UNCHANGED <<constInit, registered, page>>
      BY <1>10 DEF LoginInfo, routeVars, navVars
    <2>2. CASE UNCHANGED navVars
      BY <1>3, <1>4, <2>1, <2>2 DEF navVars
    <2>3. CASE \E path : Push(navs, Resolve(path, registered), path = "root", "nothing")
      BY <1>3, <1>4, <2>1, <2>3, ResolvedSound, PushSound
    <2> QED
      BY <1>10, <2>2, <2>3 DEF LoginInfo
  <1>11. ASSUME NEW u \in User, LoginSubmit(u)
         PROVE  SessionInv'
    BY <1>3, <1>4, <1>11 DEF LoginSubmit, routeVars, navVars
  <1>12. ASSUME NEW path \in Path, Navigate(path)
         PROVE  SessionInv'
    BY <1>3, <1>4, <1>12, ResolvedSound, PushSound DEF Navigate, routeVars
  <1>13. ASSUME NEW path \in Path, Reload(path)
         PROVE  SessionInv'
    BY <1>13, PagesSound DEF Reload, SessionInv, Opening, Resolve
  <1>14. CASE EndSession
    BY <1>3, <1>14, ResetSound DEF EndSession
  <1>15. ASSUME NEW n \in navs, LoadFails(n)
         PROVE  SessionInv'
    <2> DEFINE next == [n EXCEPT !.at = "failed"]
    <2>1. next \in [id : {n.id}, to : {n.to}, root : {n.root}, who : {n.who},
                     at : {"failed"}, then : {n.then}]
      BY <1>3 DEF SoundNav
    <2>2. SoundNav(next)
      BY <1>3, <2>1 DEF SoundNav
    <2>3. navs' = (navs \ {n}) \cup {next} /\ UNCHANGED <<constInit, registered, page>>
      BY <1>15 DEF LoadFails, routeVars
    <2> HIDE DEF next
    <2> QED
      BY <1>3, <1>4, <2>2, <2>3, MoveSound
  <1>16. ASSUME NEW n \in navs, Rejects(n)
         PROVE  SessionInv'
    BY <1>3, <1>4, <1>16 DEF Rejects, routeVars
  <1> QED
    BY <1>5, <1>6, <1>7, <1>8, <1>9, <1>10, <1>11, <1>12, <1>13, <1>14, <1>15, <1>16
       DEF SessionNext, Jobs, Replies

(* The login page is never asked to return to itself, whichever way to it  *)
(* is taken and however late the session ends: the routes of the login     *)
(* page are registered before anything but the first guard runs.           *)
THEOREM RedirectsNeverNest == SessionSpec => []NoNestedRedirect
  <1>1. SessionInit => SessionInv
    BY PagesSound DEF SessionInit, SessionInv
  <1>2. SessionInv => NoNestedRedirect
    <2>1. ASSUME NEW path, navs = Opening(path)
          PROVE  \A n \in navs : n.to.ask # "login"
      BY <2>1 DEF Opening, Resolve
    <2> QED
      BY <2>1 DEF SessionInv, NoNestedRedirect, SoundNav, Sound
  <1> QED
    BY <1>1, <1>2, SessionStep, PTL DEF SessionSpec

-----------------------------------------------------------------------------
(* The upload queue.  Every loop runs for a file of its own, the active    *)
(* files are theirs, and no two rows of the list have one file; the least  *)
(* index that findIndex returns exists.                                    *)
RowShaped(t) == t \in [file : {t.file}, status : {t.status}, known : {t.known}, up : {t.up}]
RowsShaped(o) == o = [n \in Object |-> o[n]] /\ \A n \in Object : RowShaped(o[n])

LoopShaped(l) ==
    l \in [object : {l.object}, file : {l.file}, chunk : {l.chunk}, awaits : {l.awaits},
           reply : {l.reply}, up : {l.up}]

OneRow(ts, o) == \A i, j \in DOMAIN ts : o[ts[i]].file = o[ts[j]].file => i = j

Slots(a, ls) ==
    /\ \A l \in ls : LoopShaped(l)
    /\ \A l, m \in ls : l.file = m.file => l = m
    /\ a = {l.file : l \in ls}
    /\ IsFiniteSet(a) /\ Cardinality(a) <= Limit

Removal(r) ==
    r \in [kind : {"delete"}, index : Nat \ {0}, file : {r.file}, reply : {r.reply}]

QueueInv ==
    /\ RowsShaped(object) /\ tasks \in Seq(Object) /\ OneRow(tasks, object)
    /\ Slots(active, loops)

UploadClientInv == QueueInv /\ \A r \in asked : r.kind = "delete" => Removal(r)

SameFiles(o, p) == RowsShaped(p) /\ \A n \in Object : p[n].file = o[n].file

LEMMA Sequenced ==
    ASSUME NEW S, IsFiniteSet(S)
    PROVE  /\ SetToSeq(S) \in Seq(S)
           /\ \A i, j \in DOMAIN SetToSeq(S) : SetToSeq(S)[i] = SetToSeq(S)[j] => i = j
  <1>1. Cardinality(S) \in Nat
    BY FS_CardinalityType
  <1>2. \E f \in [1 .. Cardinality(S) -> S] : IsInjective(f)
    BY FS_CardinalityType DEF ExistsBijection, Bijection, Injection, IsInjective
  <1>3. SetToSeq(S) \in [1 .. Cardinality(S) -> S] /\ IsInjective(SetToSeq(S))
    BY <1>2 DEF SetToSeq
  <1> QED
    BY <1>1, <1>3, SeqDef DEF IsInjective

LEMMA RowsCounted ==
    ASSUME NEW ts, NEW o, OneRow(ts, o), NEW f
    PROVE  Cardinality(Rows(ts, o, f)) <= 1
  <1>1. CASE Rows(ts, o, f) = {}
    BY <1>1, FS_EmptySet
  <1>2. CASE Rows(ts, o, f) # {}
    <2>1. PICK i : i \in Rows(ts, o, f)
      BY <1>2
    <2>2. Rows(ts, o, f) = {i}
      BY <2>1 DEF Rows, OneRow
    <2> QED
      BY <2>2, FS_Singleton
  <1> QED
    BY <1>1, <1>2

LEMMA LoopsCounted ==
    ASSUME NEW a, NEW ls, Slots(a, ls)
    PROVE  Cardinality(ls) = Cardinality(a)
  <1> DEFINE file == [l \in ls |-> l.file]
  <1>1. file \in [ls -> a] /\ \A l, m \in ls : file[l] = file[m] => l = m
    BY DEF Slots
  <1>2. \A f \in a : \E l \in ls : file[l] = f
    BY DEF Slots
  <1>3. file \in Injection(ls, a) /\ file \in Surjection(ls, a)
    <2> HIDE DEF file
    <2> QED
      BY <1>1, <1>2 DEF Injection, Surjection, IsInjective
  <1> HIDE DEF file
  <1> QED
    BY <1>3, FS_Injection DEF Slots

LEMMA SlotGiven ==
    ASSUME NEW a, NEW ls, Slots(a, ls), NEW l \in ls
    PROVE  Slots(a \ {l.file}, ls \ {l})
  <1>1. a \ {l.file} = {m.file : m \in ls \ {l}}
    BY DEF Slots
  <1>2. /\ IsFiniteSet(a \ {l.file})
        /\ Cardinality(a \ {l.file}) <= Cardinality(a)
    <2>1. IsFiniteSet(a)
      BY DEF Slots
    <2> QED
      BY <2>1, FS_Subset
  <1>3. Cardinality(a) \in Nat /\ Cardinality(a \ {l.file}) \in Nat /\ Limit \in Nat
    BY <1>2, FS_CardinalityType, UploadClientAssumption DEF Slots
  <1>4. Cardinality(a \ {l.file}) <= Limit
    BY <1>2, <1>3 DEF Slots
  <1> QED
    BY <1>1, <1>2, <1>4 DEF Slots

LEMMA SlotTaken ==
    ASSUME NEW a, NEW ls, Slots(a, ls), HasSlot(a), NEW l, LoopShaped(l), l.file \notin a
    PROVE  Slots(a \cup {l.file}, ls \cup {l})
  <1>1. a \cup {l.file} = {m.file : m \in ls \cup {l}}
    BY DEF Slots
  <1>2. /\ IsFiniteSet(a \cup {l.file})
        /\ Cardinality(a \cup {l.file}) = Cardinality(a) + 1
    BY FS_AddElement DEF Slots
  <1>3. Cardinality(a) \in Nat /\ Limit \in Nat
    BY FS_CardinalityType, UploadClientAssumption DEF Slots
  <1>4. Cardinality(a \cup {l.file}) <= Limit
    BY <1>2, <1>3 DEF HasSlot
  <1>5. \A m, k \in ls \cup {l} : m.file = k.file => m = k
    BY DEF Slots
  <1> QED
    BY <1>1, <1>2, <1>4, <1>5 DEF Slots

LEMMA LoopReplaced ==
    ASSUME NEW a, NEW ls, Slots(a, ls), NEW l \in ls, NEW k, LoopShaped(k), k.file = l.file
    PROVE  Slots(a, (ls \ {l}) \cup {k})
  <1>1. a = {m.file : m \in (ls \ {l}) \cup {k}}
    BY DEF Slots
  <1>2. \A m, n \in (ls \ {l}) \cup {k} : m.file = n.file => m = n
    BY DEF Slots
  <1> QED
    BY <1>1, <1>2 DEF Slots

LEMMA LoopBegins ==
    ASSUME NEW n, NEW f, NEW chunk, NEW awaits
    PROVE  LoopShaped(LoopAt(n, f, chunk, awaits)) /\ LoopAt(n, f, chunk, awaits).file = f
  BY DEF LoopShaped, LoopAt

LEMMA SameRows ==
    ASSUME NEW ts \in Seq(Object), NEW o, OneRow(ts, o), NEW p, SameFiles(o, p)
    PROVE  OneRow(ts, p)
  <1>1. \A i \in DOMAIN ts : p[ts[i]].file = o[ts[i]].file
    BY ElementOfSeq DEF SameFiles
  <1> QED
    BY <1>1 DEF OneRow

LEMMA ObjectChanged ==
    ASSUME NEW o, RowsShaped(o), NEW n, NEW t, RowShaped(t), n \in Object => t.file = o[n].file
    PROVE  SameFiles(o, [o EXCEPT ![n] = t])
  BY DEF SameFiles, RowsShaped

LEMMA StatusChanged ==
    ASSUME NEW o, RowsShaped(o), NEW n, NEW status
    PROVE  SameFiles(o, [o EXCEPT ![n].status = status])
  <1> DEFINE t == [o[n] EXCEPT !.status = status]
  <1>1. [o EXCEPT ![n].status = status] = [o EXCEPT ![n] = t]
    OBVIOUS
  <1>2. CASE n \in Object
    <2>1. RowShaped(o[n])
      BY <1>2 DEF RowsShaped
    <2>2. RowShaped(t) /\ t.file = o[n].file
      BY <2>1 DEF RowShaped
    <2> HIDE DEF t
    <2> QED
      BY <1>1, <2>2, ObjectChanged
  <1>3. CASE n \notin Object
    <2>1. [o EXCEPT ![n] = t] = o
      BY <1>3 DEF RowsShaped
    <2> QED
      BY <1>1, <2>1 DEF SameFiles
  <1> QED
    BY <1>2, <1>3

LEMMA ListChanged ==
    ASSUME NEW o, RowsShaped(o), NEW n, NEW up
    PROVE  SameFiles(o, [o EXCEPT ![n].up = up])
  <1> DEFINE t == [o[n] EXCEPT !.up = up]
  <1>1. [o EXCEPT ![n].up = up] = [o EXCEPT ![n] = t]
    OBVIOUS
  <1>2. CASE n \in Object
    <2>1. RowShaped(o[n])
      BY <1>2 DEF RowsShaped
    <2>2. RowShaped(t) /\ t.file = o[n].file
      BY <2>1 DEF RowShaped
    <2> HIDE DEF t
    <2> QED
      BY <1>1, <2>2, ObjectChanged
  <1>3. CASE n \notin Object
    <2>1. [o EXCEPT ![n] = t] = o
      BY <1>3 DEF RowsShaped
    <2> QED
      BY <1>1, <2>1 DEF SameFiles
  <1> QED
    BY <1>2, <1>3

LEMMA Listing ==
    ASSUME NEW ts \in Seq(Object), NEW o, OneRow(ts, o), NEW n \in Object,
           n \notin Range(ts), NEW t, RowShaped(t), RowsShaped(o),
           \A i \in DOMAIN ts : o[ts[i]].file # t.file
    PROVE  /\ Append(ts, n) \in Seq(Object)
           /\ RowsShaped([o EXCEPT ![n] = t])
           /\ OneRow(Append(ts, n), [o EXCEPT ![n] = t])
  <1> DEFINE p == [o EXCEPT ![n] = t]
             us == Append(ts, n)
  <1>1. /\ us \in Seq(Object) /\ Len(us) = Len(ts) + 1 /\ DOMAIN us = 1 .. Len(us)
        /\ \A i \in 1 .. Len(ts) : us[i] = ts[i]
        /\ us[Len(ts) + 1] = n /\ Len(ts) \in Nat /\ DOMAIN ts = 1 .. Len(ts)
    BY AppendProperties
  <1>2. RowsShaped(p) /\ p[n] = t /\ \A m \in Object \ {n} : p[m] = o[m]
    BY DEF RowsShaped
  <1>3. \A i \in DOMAIN ts : ts[i] \in Object \ {n}
    BY ElementOfSeq DEF Range
  <1> HIDE DEF p, us
  <1>4. \A i \in DOMAIN us : \/ i \in DOMAIN ts /\ p[us[i]] = o[ts[i]]
                             \/ i = Len(ts) + 1 /\ p[us[i]] = t
    BY <1>1, <1>2, <1>3
  <1>5. OneRow(us, p)
    <2> SUFFICES ASSUME NEW i \in DOMAIN us, NEW j \in DOMAIN us, p[us[i]].file = p[us[j]].file
                 PROVE  i = j
      BY DEF OneRow
    <2> QED
      BY <1>4 DEF OneRow
  <1> QED
    BY <1>1, <1>2, <1>5 DEF p, us

LEMMA Unlisting ==
    ASSUME NEW ts \in Seq(Object), NEW o, OneRow(ts, o), NEW k \in 1 .. Len(ts)
    PROVE  RemoveAt(ts, k) \in Seq(Object) /\ OneRow(RemoveAt(ts, k), o)
  <1> DEFINE us == RemoveAt(ts, k)
  <1>1. Len(ts) \in Nat /\ DOMAIN ts = 1 .. Len(ts)
    BY ElementOfSeq
  <1>2. /\ us \in Seq(Object) /\ Len(us) = Len(ts) - 1 /\ DOMAIN us = 1 .. Len(us)
        /\ \A i \in 1 .. Len(ts) - 1 : us[i] = IF i < k THEN ts[i] ELSE ts[i + 1]
    BY Removing, ElementOfSeq
  <1> HIDE DEF us
  <1>3. \A i, j \in DOMAIN us : o[us[i]].file = o[us[j]].file => i = j
    <2> SUFFICES ASSUME NEW i \in DOMAIN us, NEW j \in DOMAIN us, o[us[i]].file = o[us[j]].file
                 PROVE  i = j
      OBVIOUS
    <2>1. PICK m \in DOMAIN ts : us[i] = ts[m] /\ m = IF i < k THEN i ELSE i + 1
      BY <1>1, <1>2
    <2>2. PICK n \in DOMAIN ts : us[j] = ts[n] /\ n = IF j < k THEN j ELSE j + 1
      BY <1>1, <1>2
    <2>3. m = n
      BY <2>1, <2>2 DEF OneRow
    <2> QED
      BY <1>1, <1>2, <2>1, <2>2, <2>3
  <1> QED
    BY <1>2, <1>3 DEF OneRow, us

LEMMA ListingAll ==
    ASSUME NEW ts \in Seq(Object), NEW o, OneRow(ts, o), NEW us \in Seq(Object),
           OneRow(us, o),
           \A i \in DOMAIN ts, j \in DOMAIN us : o[ts[i]].file # o[us[j]].file
    PROVE  ts \o us \in Seq(Object) /\ OneRow(ts \o us, o)
  <1> DEFINE both == ts \o us
  <1>0. /\ Len(ts) \in Nat /\ DOMAIN ts = 1 .. Len(ts)
        /\ Len(us) \in Nat /\ DOMAIN us = 1 .. Len(us)
    OBVIOUS
  <1>1. /\ both \in Seq(Object) /\ Len(both) = Len(ts) + Len(us) /\ DOMAIN both = 1 .. Len(both)
        /\ \A i \in 1 .. Len(ts) + Len(us) :
              both[i] = IF i <= Len(ts) THEN ts[i] ELSE us[i - Len(ts)]
    BY ConcatProperties
  <1> HIDE DEF both
  <1>2. \A i \in DOMAIN both :
           \/ i \in DOMAIN ts /\ both[i] = ts[i]
           \/ i - Len(ts) \in DOMAIN us /\ both[i] = us[i - Len(ts)]
    BY <1>0, <1>1
  <1>3. \A i, j \in DOMAIN both : o[both[i]].file = o[both[j]].file => i = j
    <2> SUFFICES ASSUME NEW i \in DOMAIN both, NEW j \in DOMAIN both,
                        o[both[i]].file = o[both[j]].file
                 PROVE  i = j
      OBVIOUS
    <2>1. CASE i \in DOMAIN ts /\ both[i] = ts[i] /\ j \in DOMAIN ts /\ both[j] = ts[j]
      BY <2>1 DEF OneRow
    <2>2. CASE /\ i - Len(ts) \in DOMAIN us /\ both[i] = us[i - Len(ts)]
               /\ j - Len(ts) \in DOMAIN us /\ both[j] = us[j - Len(ts)]
      <3>1. i - Len(ts) = j - Len(ts)
        BY <2>2 DEF OneRow
      <3> QED
        BY <1>0, <1>1, <3>1
    <2> QED
      BY <1>2, <2>1, <2>2
  <1> QED
    BY <1>1, <1>3 DEF OneRow, both

LEMMA FileSame ==
    ASSUME NEW o, NEW p, NEW q, SameFiles(o, p), SameFiles(p, q)
    PROVE  SameFiles(o, q)
  BY DEF SameFiles

LEMMA StatusSet ==
    ASSUME NEW f, NEW status, RowsShaped(object)
    PROVE  SameFiles(object, SetStatus(f, status))
  <1>1. SameFiles(object, object)
    BY DEF SameFiles
  <1> QED
    BY <1>1, StatusChanged DEF SetStatus

(* Starting the next upload breaks rows that have lost their file and may  *)
(* take a slot for a file that has none.                                   *)
LEMMA Started ==
    ASSUME NEW ts \in Seq(Object), NEW o, RowsShaped(o), OneRow(ts, o), NEW a, NEW ls, Slots(a, ls),
           StartUpload(ts, o, a, ls)
    PROVE  QueueInv'
  <1> DEFINE queued == Eligible(ts, o, a)
             ready == {i \in queued : CanAsk(o[ts[i]])}
             broken == {ts[i] : i \in {j \in queued : \A k \in ready : j < k}}
             breaks == [n \in Object |->
                          IF n \in broken THEN [o[n] EXCEPT !.status = "Break"] ELSE o[n]]
             first == Min(ready)
             n == ts[first]
  <1>1. SameFiles(o, breaks)
    <2>1. ASSUME NEW m \in Object
          PROVE  RowShaped(breaks[m]) /\ breaks[m].file = o[m].file
      <3>1. RowShaped(o[m])
        BY DEF RowsShaped
      <3>2. /\ RowShaped([o[m] EXCEPT !.status = "Break"])
            /\ [o[m] EXCEPT !.status = "Break"].file = o[m].file
        BY <3>1 DEF RowShaped
      <3> HIDE DEF broken
      <3> QED
        BY <3>1, <3>2
    <2>2. breaks = [m \in Object |-> breaks[m]]
      OBVIOUS
    <2> HIDE DEF breaks
    <2> QED
      BY <2>1, <2>2 DEF SameFiles, RowsShaped
  <1>2. SameFiles(o, o)
    BY DEF SameFiles
  <1>3. SameFiles(o, [breaks EXCEPT ![n].status = "Uploading"])
    <2>1. RowsShaped(breaks)
      BY <1>1 DEF SameFiles
    <2> HIDE DEF breaks, n
    <2> QED
      BY <1>1, <2>1, StatusChanged, FileSame
  <1>4. ready # {} => first \in ready
    <2>1. ready \subseteq Nat
      BY DEF Eligible
    <2> HIDE DEF ready
    <2> QED
      BY <2>1, LeastNatural
  <1>5. ready # {} => o[n].file \notin a
    BY <1>4 DEF Eligible
  <1>6. LoopShaped(Enters(n, o[n])) /\ Enters(n, o[n]).file = o[n].file
    <2> HIDE DEF n
    <2> QED
      BY LoopBegins DEF Enters
  <1>7. /\ tasks' = ts
        /\ \/ object' = o /\ active' = a /\ loops' = ls
           \/ object' = breaks /\ active' = a /\ loops' = ls
           \/ /\ HasSlot(a) /\ ready # {}
              /\ object' = [breaks EXCEPT ![n].status = "Uploading"]
              /\ active' = a \cup {o[n].file}
              /\ loops' = ls \cup {Enters(n, o[n])}
    BY DEF StartUpload
  <1> HIDE DEF queued, ready, broken, breaks, first, n
  <1>8. SameFiles(o, object') /\ tasks' = ts
    BY <1>1, <1>2, <1>3, <1>7
  <1>9. Slots(active', loops')
    <2>1. CASE active' = a /\ loops' = ls
      BY <2>1
    <2>2. CASE /\ HasSlot(a) /\ ready # {}
               /\ active' = a \cup {o[n].file}
               /\ loops' = ls \cup {Enters(n, o[n])}
      <3> DEFINE l == Enters(n, o[n])
      <3>1. LoopShaped(l) /\ l.file = o[n].file /\ l.file \notin a
        BY <1>5, <1>6, <2>2
      <3>2. active' = a \cup {l.file} /\ loops' = ls \cup {l} /\ HasSlot(a)
        BY <2>2, <3>1
      <3> HIDE DEF l
      <3> QED
        BY <3>1, <3>2, SlotTaken
    <2> QED
      BY <1>7, <2>1, <2>2
  <1>10. OneRow(tasks', object')
    BY <1>8, SameRows
  <1> QED
    BY <1>8, <1>9, <1>10 DEF QueueInv, SameFiles, OneRow, Slots, RowsShaped, Object

(* The end of a loop: its slot is given back first.                        *)
LEMMA Ended ==
    ASSUME QueueInv, NEW l \in loops, NEW o, SameFiles(object, o), Finally(l, o)
    PROVE  QueueInv'
  <1>1. Slots(active \ {l.file}, loops \ {l}) /\ RowsShaped(o)
    BY SlotGiven DEF QueueInv, SameFiles
  <1>2. OneRow(tasks, o)
    BY SameRows DEF QueueInv
  <1> QED
    BY <1>1, <1>2, Started DEF Finally, QueueInv

LEMMA Thrown ==
    ASSUME QueueInv, NEW l \in loops, Throws(l)
    PROVE  QueueInv'
  <1>1. SameFiles(object, SetStatus(l.file, "Break"))
    BY StatusSet DEF QueueInv
  <1> QED
    BY <1>1, Ended DEF Throws

LEMMA QueueFrame ==
    ASSUME QueueInv, tasks' = tasks, SameFiles(object, object'), Slots(active', loops')
    PROVE  QueueInv'
  <1>1. OneRow(tasks, object')
    BY SameRows DEF QueueInv
  <1> QED
    BY <1>1 DEF QueueInv, SameFiles, OneRow, Slots, RowsShaped, Object

LEMMA LoopGoesOn ==
    ASSUME QueueInv, NEW l \in loops, NEW k, LoopShaped(k), k.file = l.file,
           loops' = (loops \ {l}) \cup {k}, active' = active, tasks' = tasks,
           SameFiles(object, object')
    PROVE  QueueInv'
  <1>1. Slots(active', loops')
    BY LoopReplaced DEF QueueInv
  <1> QED
    BY <1>1, QueueFrame

LEMMA Continued ==
    ASSUME QueueInv, NEW l \in loops, NEW o, SameFiles(object, o), Continue(l, o)
    PROVE  QueueInv'
  <1>1. CASE Finally(l, o)
    BY <1>1, Ended
  <1>2. CASE ~Finally(l, o) /\ ~Throws(l)
    <2>1. PICK chunk : /\ object' = o /\ tasks' = tasks /\ active' = active
                       /\ loops' = (loops \ {l}) \cup {LoopAt(l.object, l.file, chunk, "chunk")}
      BY <1>2 DEF Continue
    <2> QED
      BY <2>1, LoopBegins, LoopGoesOn
  <1>3. CASE Throws(l)
    BY <1>3, Thrown
  <1> QED
    BY <1>1, <1>2, <1>3

LEMMA LoopAnswered ==
    ASSUME QueueInv, NEW l \in loops, NEW reply, NEW up, Answer(l, reply, up),
           UNCHANGED <<object, tasks, active>>
    PROVE  QueueInv'
  <1> DEFINE k == [l EXCEPT !.reply = reply, !.up = up]
  <1>1. LoopShaped(l)
    BY DEF QueueInv, Slots
  <1>2. LoopShaped(k) /\ k.file = l.file
    BY <1>1 DEF LoopShaped
  <1>3. loops' = (loops \ {l}) \cup {k}
    BY DEF Answer
  <1>4. SameFiles(object, object')
    BY DEF SameFiles, QueueInv
  <1> HIDE DEF k
  <1> QED
    BY <1>2, <1>3, <1>4, LoopGoesOn

LEMMA LoopStepKeeps ==
    ASSUME QueueInv, NEW l \in loops, LoopStep(l)
    PROVE  QueueInv'
  <1>1. CASE ServeChunk(l) \/ ServeMerge(l) \/ ServeError(l)
    BY <1>1, LoopAnswered DEF ServeChunk, ServeMerge, ServeError
  <1>2. CASE ReplyError(l)
    BY <1>2, Thrown DEF ReplyError
  <1>3. CASE ReplyMerge(l)
    <2>1. SameFiles(object, SetStatus(l.file, "Completed"))
      BY StatusSet DEF QueueInv
    <2>2. Continue(l, SetStatus(l.file, "Completed")) \/ Throws(l)
      BY <1>3 DEF ReplyMerge
    <2> QED
      BY <2>1, <2>2, Continued, Thrown
  <1>4. CASE ReplyChunk(l)
    <2> DEFINE o == [object EXCEPT ![Find(l.file)].up = l.up]
    <2>1. SameFiles(object, o)
      BY ListChanged DEF QueueInv
    <2>2. \/ Throws(l)
          \/ /\ object' = o
             /\ loops' = (loops \ {l}) \cup {LoopAt(l.object, l.file, l.chunk + 1, "merge")}
             /\ UNCHANGED <<tasks, active>>
          \/ Continue(l, o)
      BY <1>4 DEF ReplyChunk
    <2> HIDE DEF o
    <2>3. CASE Throws(l)
      BY <2>3, Thrown
    <2>4. CASE Continue(l, o)
      BY <2>1, <2>4, Continued
    <2>5. CASE /\ object' = o
               /\ loops' = (loops \ {l}) \cup {LoopAt(l.object, l.file, l.chunk + 1, "merge")}
               /\ UNCHANGED <<tasks, active>>
      BY <2>1, <2>5, LoopBegins, LoopGoesOn
    <2> QED
      BY <2>2, <2>3, <2>4, <2>5
  <1> QED
    BY <1>1, <1>2, <1>3, <1>4 DEF LoopStep, Ends

LEMMA Indexed ==
    ASSUME QueueInv, NEW f, Listed(f)
    PROVE  Min(Rows(tasks, object, f)) \in 1 .. Len(tasks)
  <1>1. DOMAIN tasks = 1 .. Len(tasks) /\ Len(tasks) \in Nat
    BY DEF QueueInv
  <1>2. Rows(tasks, object, f) \subseteq 1 .. Len(tasks) /\ Rows(tasks, object, f) # {}
    BY <1>1 DEF Rows, Listed
  <1>3. Rows(tasks, object, f) \subseteq Nat
    BY <1>1, <1>2
  <1> QED
    BY <1>2, <1>3, LeastNatural

(* The rows that the server lists get objects that nothing refers to.      *)
LEMMA RowsListed ==
    ASSUME QueueInv, NEW r \in asked, ListReply(r)
    PROVE  QueueInv'
  <1> DEFINE new == {f \in r.files : ~Listed(f)}
  <1>1. UNCHANGED <<active, loops>>
    BY DEF ListReply
  <1>2. CASE tasks' = <<>> /\ UNCHANGED object
    BY <1>1, <1>2 DEF QueueInv, OneRow, RowsShaped, Slots, Object
  <1>3. ASSUME NEW row \in [new -> FreeObjects], IsInjective(row),
               tasks' = tasks \o SetToSeq({row[f] : f \in new}),
               object' = [n \in Object |->
                      IF \E f \in new : row[f] = n
                      THEN [file |-> CHOOSE f \in new : row[f] = n,
                            status |-> "Completed", known |-> FALSE, up |-> {}]
                      ELSE IF \E f \in r.files : Listed(f) /\ Find(f) = n
                      THEN [object[n] EXCEPT !.status = "Completed"] ELSE object[n]]
        PROVE  QueueInv'
    <2> DEFINE S == {row[f] : f \in new}
               us == SetToSeq(S)
    <2>1. S \subseteq Object /\ S \cap Range(tasks) = {}
      BY DEF FreeObjects
    <2>2. IsFiniteSet(S)
      <3>1. IsFiniteSet(Object)
        BY UploadClientAssumption, FS_Interval DEF Object
      <3> QED
        BY <2>1, <3>1, FS_Subset
    <2>3. us \in Seq(S) /\ us \in Seq(Object) /\ \A i, j \in DOMAIN us : us[i] = us[j] => i = j
      <3>1. us \in Seq(S) /\ \A i, j \in DOMAIN us : us[i] = us[j] => i = j
        <4> HIDE DEF S
        <4> QED
          BY <2>2, Sequenced
      <3> HIDE DEF us, S
      <3> QED
        BY <2>1, <3>1, SeqMonotonic
    <2>4. \A n \in Object \ S : object'[n] = object[n]
                                \/ object'[n] = [object[n] EXCEPT !.status = "Completed"]
      BY <1>3
    <2>5. \A n \in S : /\ object'[n].file \in new /\ row[object'[n].file] = n
                       /\ object'[n] = [file |-> object'[n].file, status |-> "Completed",
                                        known |-> FALSE, up |-> {}]
      <3> SUFFICES ASSUME NEW n \in S
                   PROVE  /\ object'[n].file \in new /\ row[object'[n].file] = n
                          /\ object'[n] = [file |-> object'[n].file, status |-> "Completed",
                                           known |-> FALSE, up |-> {}]
        OBVIOUS
      <3> DEFINE g == CHOOSE f \in new : row[f] = n
      <3>1. g \in new /\ row[g] = n
        OBVIOUS
      <3>2. object'[n] = [file |-> g, status |-> "Completed", known |-> FALSE, up |-> {}]
        BY <1>3, <2>1
      <3> HIDE DEF g, new
      <3> QED
        BY <3>1, <3>2
    <2>6. object' = [n \in Object |-> object'[n]]
      BY <1>3
    <2>7. \A n \in Object \ S : RowShaped(object'[n]) /\ object'[n].file = object[n].file
      <3> SUFFICES ASSUME NEW n \in Object \ S
                   PROVE  RowShaped(object'[n]) /\ object'[n].file = object[n].file
        OBVIOUS
      <3>1. RowShaped(object[n])
        BY DEF QueueInv, RowsShaped
      <3>2. /\ RowShaped([object[n] EXCEPT !.status = "Completed"])
            /\ [object[n] EXCEPT !.status = "Completed"].file = object[n].file
        BY <3>1 DEF RowShaped
      <3> HIDE DEF S
      <3> QED
        BY <2>4, <3>1, <3>2
    <2>8. RowsShaped(object')
      <3>1. \A n \in S : RowShaped(object'[n])
        <4> SUFFICES ASSUME NEW n \in S
                     PROVE  RowShaped(object'[n])
          OBVIOUS
        <4> DEFINE f == object'[n].file
        <4>1. object'[n] = [file |-> f, status |-> "Completed", known |-> FALSE, up |-> {}]
          BY <2>5
        <4> HIDE DEF f
        <4> QED
          BY <4>1 DEF RowShaped
      <3> HIDE DEF S
      <3> QED
        BY <2>6, <2>7, <3>1 DEF RowsShaped
    <2>9. \A i \in DOMAIN tasks : tasks[i] \in Object \ S
      BY <2>1, ElementOfSeq DEF QueueInv, Range
    <2>10. \A i \in DOMAIN us : us[i] \in S
      <3> HIDE DEF us, S
      <3> QED
        BY <2>3, ElementOfSeq
    <2>11. \A i \in DOMAIN tasks : object'[tasks[i]].file \notin new
      <3> SUFFICES ASSUME NEW i \in DOMAIN tasks
                   PROVE  ~(object'[tasks[i]].file \in new)
        OBVIOUS
      <3>1. object'[tasks[i]].file = object[tasks[i]].file
        <4> HIDE DEF S
        <4> QED
          BY <2>7, <2>9
      <3>2. Listed(object[tasks[i]].file)
        BY DEF Listed, Rows
      <3> QED
        BY <3>1, <3>2
    <2> HIDE DEF S, us, new
    <2>12. OneRow(tasks, object')
      BY <2>7, <2>9 DEF OneRow, QueueInv
    <2>13. OneRow(us, object')
      <3> SUFFICES ASSUME NEW i \in DOMAIN us, NEW j \in DOMAIN us,
                          object'[us[i]].file = object'[us[j]].file
                   PROVE  i = j
        BY Zenon DEF OneRow
      <3>1. us[i] \in S /\ us[j] \in S
        BY <2>10
      <3>2. row[object'[us[i]].file] = us[i] /\ row[object'[us[j]].file] = us[j]
        BY <2>5, <3>1
      <3> QED
        BY <2>3, <3>2
    <2>14. \A i \in DOMAIN tasks, j \in DOMAIN us : object'[tasks[i]].file # object'[us[j]].file
      BY <2>5, <2>10, <2>11
    <2>15. tasks' = tasks \o us
      BY <1>3 DEF us, S
    <2>16. tasks \in Seq(Object)
      BY DEF QueueInv
    <2>17. tasks' \in Seq(Object) /\ OneRow(tasks', object')
      BY <2>3, <2>12, <2>13, <2>14, <2>15, <2>16, ListingAll
    <2> QED
      BY <1>1, <2>8, <2>17 DEF QueueInv, RowsShaped, OneRow, Slots, Object
  <1> QED
    BY <1>2, <1>3 DEF ListReply

LEMMA QueueRests ==
    ASSUME QueueInv, UNCHANGED <<object, tasks, active, loops>>
    PROVE  QueueInv'
  <1>1. SameFiles(object, object')
    BY DEF SameFiles, QueueInv
  <1>2. Slots(active', loops')
    BY DEF QueueInv
  <1> QED
    BY <1>1, <1>2, QueueFrame

LEMMA Submitted ==
    ASSUME QueueInv, NEW f \in File, EnqueueUpload(f)
    PROVE  QueueInv'
  <1>1. CASE /\ Listed(f) /\ object[Find(f)].status = "Break"
             /\ StartUpload(tasks, SetStatus(f, "Pending"), active, loops)
    <2>1. SameFiles(object, SetStatus(f, "Pending"))
      BY StatusSet DEF QueueInv
    <2>2. OneRow(tasks, SetStatus(f, "Pending"))
      BY <2>1, SameRows DEF QueueInv
    <2> QED
      BY <1>1, <2>1, <2>2, Started DEF QueueInv, SameFiles
  <1>2. CASE /\ ~Listed(f) /\ FreeObjects # {}
             /\ LET n == Min(FreeObjects) IN
                StartUpload(Append(tasks, n), [object EXCEPT ![n] = NewTask(f)], active, loops)
    <2> DEFINE n == Min(FreeObjects)
               t == NewTask(f)
    <2>1. FreeObjects \subseteq Nat
      BY UploadClientAssumption DEF FreeObjects, Object
    <2>2. n \in FreeObjects
      BY <1>2, <2>1, LeastNatural
    <2>3. n \in Object /\ n \notin Range(tasks)
      BY <2>2 DEF FreeObjects
    <2>4. RowShaped(t) /\ t.file = f
      BY DEF RowShaped, NewTask
    <2>5. \A i \in DOMAIN tasks : object[tasks[i]].file # t.file
      BY <1>2, <2>4 DEF Listed, Rows
    <2>6. StartUpload(Append(tasks, n), [object EXCEPT ![n] = t], active, loops)
      BY <1>2
    <2> HIDE DEF n, t
    <2>7. /\ Append(tasks, n) \in Seq(Object)
          /\ RowsShaped([object EXCEPT ![n] = t])
          /\ OneRow(Append(tasks, n), [object EXCEPT ![n] = t])
      BY <2>3, <2>4, <2>5, Listing DEF QueueInv
    <2>8. Slots(active, loops)
      BY DEF QueueInv
    <2> QED
      BY <2>6, <2>7, <2>8, Started
  <1> QED
    BY <1>1, <1>2 DEF EnqueueUpload

LEMMA RowStarted ==
    ASSUME QueueInv, NEW o, SameFiles(object, o), StartUpload(tasks, o, active, loops)
    PROVE  QueueInv'
  <1>1. OneRow(tasks, o)
    BY SameRows DEF QueueInv
  <1> QED
    BY <1>1, Started DEF QueueInv, SameFiles

LEMMA RowRemoved ==
    ASSUME QueueInv, NEW k \in 1 .. Len(tasks), tasks' = RemoveAt(tasks, k),
           UNCHANGED object, Slots(active', loops')
    PROVE  QueueInv'
  <1>1. RemoveAt(tasks, k) \in Seq(Object) /\ OneRow(RemoveAt(tasks, k), object)
    BY Unlisting DEF QueueInv
  <1> QED
    BY <1>1 DEF QueueInv, RowsShaped, OneRow, Slots, Object

LEMMA Deleted ==
    ASSUME QueueInv, NEW f \in File, HandleDelete(f)
    PROVE  QueueInv'
  <1> DEFINE i == Min(Rows(tasks, object, f))
             n == tasks[i]
  <1>1. i \in 1 .. Len(tasks)
    BY Indexed DEF HandleDelete
  <1>2. loops' = {Cancelled(l, n) : l \in loops} /\ UNCHANGED <<object, active>>
    BY DEF HandleDelete
  <1>3. tasks' = RemoveAt(tasks, i) \/ tasks' = tasks
    BY DEF HandleDelete
  <1> HIDE DEF i, n
  <1>4. \A l \in loops : LoopShaped(Cancelled(l, n)) /\ Cancelled(l, n).file = l.file
    <2> SUFFICES ASSUME NEW l \in loops
                 PROVE  LoopShaped(Cancelled(l, n)) /\ Cancelled(l, n).file = l.file
      OBVIOUS
    <2>1. LoopShaped(l)
      BY DEF QueueInv, Slots
    <2>2. /\ LoopShaped([l EXCEPT !.reply = "error"])
          /\ [l EXCEPT !.reply = "error"].file = l.file
      BY <2>1 DEF LoopShaped
    <2> QED
      BY <2>1, <2>2 DEF Cancelled
  <1>5. Slots(active', loops')
    <2>1. \A l \in loops' : LoopShaped(l)
      BY <1>2, <1>4
    <2>2. \A l, m \in loops' : l.file = m.file => l = m
      <3> SUFFICES ASSUME NEW l \in loops', NEW m \in loops', l.file = m.file
                   PROVE  l = m
        OBVIOUS
      <3>1. PICK p \in loops : l = Cancelled(p, n)
        BY <1>2
      <3>2. PICK q \in loops : m = Cancelled(q, n)
        BY <1>2
      <3>3. p = q
        BY <1>4, <3>1, <3>2 DEF QueueInv, Slots
      <3> QED
        BY <3>1, <3>2, <3>3
    <2>3. active' = {l.file : l \in loops'}
      <3>1. active = {l.file : l \in loops}
        BY DEF QueueInv, Slots
      <3> QED
        BY <1>2, <1>4, <3>1
    <2> QED
      BY <1>2, <2>1, <2>2, <2>3 DEF QueueInv, Slots
  <1>6. CASE tasks' = tasks
    <2>1. SameFiles(object, object')
      BY <1>2 DEF SameFiles, QueueInv
    <2> QED
      BY <1>5, <1>6, <2>1, QueueFrame
  <1>7. CASE tasks' = RemoveAt(tasks, i)
    BY <1>1, <1>2, <1>5, <1>7, RowRemoved
  <1> QED
    BY <1>3, <1>6, <1>7

LEMMA PageStepKeeps ==
    ASSUME QueueInv, NEW r \in asked, r.kind = "delete" => Removal(r), PageStep(r)
    PROVE  QueueInv'
  <1>1. CASE StatusReply(r)
    <2> DEFINE row == [object[r.object] EXCEPT !.known = TRUE, !.status = "Pending", !.up = r.up]
               o == [object EXCEPT ![r.object] = row]
    <2>1. StartUpload(tasks, o, active, loops)
      BY <1>1 DEF StatusReply
    <2>2. SameFiles(object, o)
      <3>1. CASE r.object \in Object
        <4>1. RowShaped(object[r.object])
          BY <3>1 DEF QueueInv, RowsShaped
        <4>2. RowShaped(row) /\ row.file = object[r.object].file
          BY <4>1 DEF RowShaped
        <4> HIDE DEF row
        <4> QED
          BY <4>2, ObjectChanged DEF QueueInv
      <3>2. CASE r.object \notin Object
        <4> HIDE DEF row
        <4>1. o = object
          BY <3>2 DEF QueueInv, RowsShaped
        <4> QED
          BY <4>1 DEF SameFiles, QueueInv
      <3> QED
        BY <3>1, <3>2
    <2> HIDE DEF o
    <2> QED
      BY <2>1, <2>2, RowStarted
  <1>2. CASE ListReply(r)
    BY <1>2, RowsListed
  <1>3. CASE ServeDelete(r) \/ StatusError(r)
    BY <1>3, QueueRests DEF ServeDelete, StatusError
  <1>4. CASE DeleteReply(r)
    <2>1. UNCHANGED <<object, active, loops>>
      BY <1>4 DEF DeleteReply
    <2>2. CASE tasks' = tasks
      BY <2>1, <2>2, QueueRests
    <2>3. CASE r.index <= Len(tasks) /\ tasks' = RemoveAt(tasks, r.index)
      <3>1. r.index \in Nat \ {0} /\ Len(tasks) \in Nat
        BY <1>4 DEF DeleteReply, Removal, QueueInv
      <3>2. r.index \in 1 .. Len(tasks)
        BY <2>3, <3>1
      <3>3. Slots(active', loops')
        BY <2>1 DEF QueueInv
      <3> QED
        BY <2>1, <2>3, <3>2, <3>3, RowRemoved
    <2> QED
      BY <1>4, <2>2, <2>3 DEF DeleteReply
  <1> QED
    BY <1>1, <1>2, <1>3, <1>4 DEF PageStep

LEMMA UserStepKeeps ==
    ASSUME QueueInv, UserStep
    PROVE  QueueInv'
  <1>1. ASSUME NEW f \in File, HandleSubmit(f)
        PROVE  QueueInv'
    BY <1>1, Submitted DEF HandleSubmit
  <1>2. ASSUME NEW f \in File, HandleDelete(f)
        PROVE  QueueInv'
    BY <1>2, Deleted
  <1>3. ASSUME NEW i \in DOMAIN tasks, ResumeUpload(i)
        PROVE  QueueInv'
    <2>1. SameFiles(object, [object EXCEPT ![tasks[i]].status = "Pending"])
      BY StatusChanged DEF QueueInv
    <2> QED
      BY <1>3, <2>1, RowStarted DEF ResumeUpload
  <1>4. ASSUME NEW i \in DOMAIN tasks, AskStatus(i)
        PROVE  QueueInv'
    BY <1>4, QueueRests DEF AskStatus
  <1>5. CASE OpenPage
    BY <1>5, QueueRests DEF OpenPage
  <1> QED
    BY <1>1, <1>2, <1>3, <1>4, <1>5 DEF UserStep

(* What waits for its reply: a removal remembers an index of the list.     *)
LEMMA RemovalsRemember ==
    UploadClientInv /\ [UploadClientNext]_uploadClientVars
        => \A r \in asked' : r.kind = "delete" => Removal(r)
  <1> SUFFICES ASSUME UploadClientInv, [UploadClientNext]_uploadClientVars
               PROVE  \A r \in asked' : r.kind = "delete" => Removal(r)
    OBVIOUS
  <1>0. QueueInv /\ \A r \in asked : r.kind = "delete" => Removal(r)
    BY DEF UploadClientInv
  <1>1. CASE asked' \subseteq asked
    BY <1>0, <1>1
  <1>2. ASSUME NEW l \in loops, LoopStep(l)
        PROVE  asked' = asked
    BY <1>2 DEF LoopStep, Ends, ServeChunk, ServeMerge, ServeError, ReplyChunk, ReplyMerge, ReplyError
  <1>3. ASSUME NEW r \in asked, PageStep(r)
        PROVE  \A q \in asked' : q.kind = "delete" => Removal(q)
    <2>1. CASE ServeDelete(r)
      <3>1. PICK reply : asked' = (asked \ {r}) \cup {[r EXCEPT !.reply = reply]}
        BY <2>1 DEF ServeDelete
      <3>2. Removal(r)
        BY <1>0, <2>1 DEF ServeDelete
      <3>3. Removal([r EXCEPT !.reply = reply])
        BY <3>2 DEF Removal
      <3> QED
        BY <1>0, <3>1, <3>3
    <2>2. CASE StatusReply(r) \/ ListReply(r) \/ DeleteReply(r) \/ StatusError(r)
      BY <1>1, <2>2 DEF StatusReply, ListReply, DeleteReply, StatusError
    <2> QED
      BY <1>3, <2>1, <2>2 DEF PageStep
  <1>4. ASSUME NEW f \in File, HandleSubmit(f)
        PROVE  asked' = asked
    BY <1>4 DEF HandleSubmit, EnqueueUpload
  <1>5. ASSUME NEW f \in File, HandleDelete(f)
        PROVE  \A q \in asked' : q.kind = "delete" => Removal(q)
    <2> DEFINE i == Min(Rows(tasks, object, f))
               q == [kind |-> "delete", index |-> i, file |-> f, reply |-> "none"]
    <2>1. i \in 1 .. Len(tasks)
      BY <1>0, <1>5, Indexed DEF HandleDelete
    <2>2. asked' \subseteq asked \cup {q}
      BY <1>5 DEF HandleDelete
    <2> HIDE DEF i
    <2>3. Removal(q)
      BY <2>1 DEF Removal
    <2> HIDE DEF q
    <2> QED
      BY <1>0, <2>2, <2>3
  <1>6. ASSUME NEW i \in DOMAIN tasks, ResumeUpload(i) \/ AskStatus(i)
        PROVE  \A q \in asked' : q.kind = "delete" => Removal(q)
    BY <1>0, <1>6 DEF ResumeUpload, AskStatus
  <1>7. CASE OpenPage
    BY <1>0, <1>7 DEF OpenPage
  <1>8. ASSUME NEW f \in File, Cleanup(f)
        PROVE  asked' = asked
    BY <1>8 DEF Cleanup
  <1>9. UNCHANGED uploadClientVars => asked' = asked
    BY DEF uploadClientVars
  <1> QED
    BY <1>0, <1>1, <1>2, <1>3, <1>4, <1>5, <1>6, <1>7, <1>8, <1>9 DEF UploadClientNext, UserStep

LEMMA UploadClientStep ==
    UploadClientInv /\ [UploadClientNext]_uploadClientVars => UploadClientInv'
  <1> SUFFICES ASSUME UploadClientInv, [UploadClientNext]_uploadClientVars
               PROVE  QueueInv'
    BY RemovalsRemember DEF UploadClientInv
  <1>0. QueueInv /\ \A r \in asked : r.kind = "delete" => Removal(r)
    BY DEF UploadClientInv
  <1>1. ASSUME NEW f \in File, Cleanup(f)
        PROVE  QueueInv'
    BY <1>0, <1>1, QueueRests DEF Cleanup
  <1>2. CASE UNCHANGED uploadClientVars
    BY <1>0, <1>2, QueueRests DEF uploadClientVars
  <1> QED
    BY <1>0, <1>1, <1>2, LoopStepKeeps, PageStepKeeps, UserStepKeeps DEF UploadClientNext

LEMMA UploadClientStarts == UploadClientInit => UploadClientInv
  <1> SUFFICES ASSUME UploadClientInit
               PROVE  UploadClientInv
    OBVIOUS
  <1>1. RowsShaped(object)
    <2> DEFINE row == [file |-> CHOOSE f \in File : TRUE, status |-> "Break",
                       known |-> FALSE, up |-> {}]
    <2>1. RowShaped(row)
      BY DEF RowShaped
    <2>2. object = [n \in Object |-> row]
      BY DEF UploadClientInit
    <2> HIDE DEF row
    <2> QED
      BY <2>1, <2>2 DEF RowsShaped
  <1>2. Slots({}, {})
    BY FS_EmptySet, UploadClientAssumption DEF Slots
  <1>3. tasks = <<>> /\ active = {} /\ loops = {} /\ asked = {}
    BY DEF UploadClientInit
  <1>4. tasks \in Seq(Object) /\ OneRow(tasks, object)
    BY <1>3 DEF OneRow
  <1> QED
    BY <1>1, <1>2, <1>3, <1>4 DEF UploadClientInv, QueueInv

(* However uploads fail, are deleted, resumed and enqueued again while the *)
(* old loop still runs, there is one loop per active file, at most Limit.  *)
THEOREM UploadsLimited == UploadClientSpec => []LimitKept
  <1>1. UploadClientInv => LimitKept
    <2> SUFFICES ASSUME Slots(active, loops)
                 PROVE  LimitKept
      BY DEF UploadClientInv, QueueInv
    <2> QED
      BY LoopsCounted DEF LimitKept, Slots
  <1> QED
    BY <1>1, UploadClientStarts, UploadClientStep, PTL DEF UploadClientSpec

(* A file has one row, whatever the server lists, the user adds again and  *)
(* the replies remove: every look-up by MD5 finds the row meant.           *)
THEOREM RowsStayDistinct == UploadClientSpec => []OneRowPerFile
  <1>1. UploadClientInv => OneRowPerFile
    BY RowsCounted DEF UploadClientInv, QueueInv, OneRowPerFile
  <1> QED
    BY <1>1, UploadClientStarts, UploadClientStep, PTL DEF UploadClientSpec

-----------------------------------------------------------------------------
(* The theme.  What a window shows was made of its settings; the switch of *)
(* the recommended colours apart, it still is.  While at most one window   *)
(* has been open, the scheme chosen last is in that window, or else in     *)
(* local storage, and no build older than the flag is about to start.      *)
Tokens(color, follow, recommended) ==
    LET colors == [color EXCEPT !.info = IF follow THEN color.primary ELSE @]
    IN  [k \in ColorKey |-> getColorPalette(colors[k], recommended)]

SettingsShaped(s) ==
    s \in [scheme : {s.scheme}, grayscale : {s.grayscale}, colourWeakness : {s.colourWeakness},
           recommendColor : BOOLEAN, follow : {s.follow}, color : {s.color}]

WindowShaped(t) ==
    t \in [at : {"open"}, build : {t.build}, first : {t.first}, s : {t.s}, dark : {t.dark},
           filter : {t.filter}, css : {t.css}]

Agrees(t, prefers, production) ==
    /\ WindowShaped(t) /\ SettingsShaped(t.s) /\ SettingsShaped(t.first)
    /\ t.dark = Dark(t.s, prefers)
    /\ t.filter = Filter(t.s)
    /\ \E r \in BOOLEAN : t.css = Tokens(t.s.color, t.s.follow, r)
    /\ production => t.css = Tokens(t.s.color, t.s.follow, t.s.recommendColor)

WindowOf(t, prefers, production, newest) ==
    \/ t.at = "closed"
    \/ t.at \in {"loading", "open"} /\ t.build \in 1 .. newest
       /\ (t.at = "open" => Agrees(t, prefers, production))

StoredShaped(g) ==
    /\ g \in [themeSettings : {g.themeSettings}, overrideThemeFlag : Nat, darkMode : {g.darkMode}]
    /\ SettingsShaped(g.themeSettings)

WindowsInv ==
    /\ theme = [p \in Browser |-> theme[p]]
    /\ build \in Nat \ {0}
    /\ \A p \in Browser : WindowOf(theme[p], os, prod, build)
    /\ StoredShaped(stg)

FlagInv ==
    prod => /\ stg.overrideThemeFlag <= build
            /\ \A o \in seen : o \in Nat /\ o <= stg.overrideThemeFlag
            /\ stg.overrideThemeFlag # 0 => stg.overrideThemeFlag \in seen

ChoiceInv ==
    prod /\ alone =>
        /\ \A p, q \in Browser : Active(p) /\ Active(q) => p = q
        /\ (\A p \in Browser : ~Opened(p)) => stg.themeSettings.scheme = choice
        /\ \A p \in Browser : Opened(p) => theme[p].s.scheme = choice
        /\ \A p \in Browser : theme[p].at = "loading" => stg.overrideThemeFlag <= theme[p].build

ThemeInv == WindowsInv /\ FlagInv /\ ChoiceInv

LEMMA TokensOf == \A s : ThemeTokens(s) = Tokens(s.color, s.follow, s.recommendColor)
  BY DEF ThemeTokens, Tokens, ThemeColors

LEMMA ShownPainted ==
    ASSUME NEW p \in Browser, Agrees(theme[p], os, prod)
    PROVE  Painted(p)
  <1> DEFINE t == theme[p]
  <1>1. ContainerToken(t.dark) = NaiveTheme(t.s, os).container
    <2>1. t.dark = Dark(t.s, os)
      BY DEF Agrees
    <2> HIDE DEF t
    <2> QED
      BY <2>1 DEF ContainerToken, NaiveTheme
  <1>2. \E r \in BOOLEAN : t.css = ThemeTokens([t.s EXCEPT !.recommendColor = r])
    <2>1. PICK r \in BOOLEAN : t.css = Tokens(t.s.color, t.s.follow, r)
      BY DEF Agrees
    <2> DEFINE s == [t.s EXCEPT !.recommendColor = r]
    <2>2. s.color = t.s.color /\ s.follow = t.s.follow /\ s.recommendColor = r
      BY DEF Agrees, SettingsShaped
    <2> HIDE DEF s
    <2>3. t.css = ThemeTokens(s)
      BY <2>1, <2>2, TokensOf
    <2> QED
      BY <2>3 DEF s
  <1>3. ASSUME prod, NEW k \in ColorKey
        PROVE  /\ t.css[k][500] = NaiveTheme(t.s, os).hover[k]
               /\ t.css[k][700] = NaiveTheme(t.s, os).pressed[k]
    <2>1. t.css = ThemeTokens(t.s)
      BY <1>3, TokensOf DEF Agrees
    <2> HIDE DEF t
    <2> QED
      BY <1>3, <2>1 DEF ThemeTokens, NaiveTheme
  <1>4. t.filter = Filter(t.s)
    BY DEF Agrees
  <1> QED
    BY <1>1, <1>2, <1>3, <1>4 DEF Painted

LEMMA RepaintShows ==
    ASSUME NEW t, NEW preferred, NEW prefers, Agrees(t, preferred, prod),
           NEW s, SettingsShaped(s),
           prod => /\ s.color = t.s.color /\ s.follow = t.s.follow
                   /\ s.recommendColor = t.s.recommendColor
    PROVE  /\ Agrees(Repaint(t, s, prefers), prefers, prod)
           /\ Repaint(t, s, prefers).at = "open" /\ Repaint(t, s, prefers).s = s
           /\ Repaint(t, s, prefers).build = t.build
  <1> DEFINE css == IF s.color # t.s.color \/ s.follow # t.s.follow THEN ThemeTokens(s) ELSE t.css
             u == Repaint(t, s, prefers)
             dark == Dark(s, prefers)
             filter == Filter(s)
  <1>1. WindowShaped(t)
    BY DEF Agrees
  <1>2. u \in [at : {"open"}, build : {t.build}, first : {t.first}, s : {s}, dark : {dark},
               filter : {filter}, css : {css}]
    <2> HIDE DEF dark, filter
    <2>1. u = [t EXCEPT !.s = s, !.dark = dark, !.filter = filter, !.css = css]
      BY <1>1 DEF Repaint, dark, filter, WindowShaped
    <2> HIDE DEF css, u
    <2> QED
      BY <1>1, <2>1 DEF WindowShaped
  <1> HIDE DEF u
  <1>3. /\ u.at = "open" /\ u.build = t.build /\ u.first = t.first /\ u.s = s
        /\ u.dark = dark /\ u.filter = filter /\ u.css = css
    <2> HIDE DEF dark, filter, css
    <2> QED
      BY <1>2
  <1>4. WindowShaped(u)
    <2> HIDE DEF dark, filter, css
    <2> QED
      BY <1>2, <1>3 DEF WindowShaped
  <1>5. \E r \in BOOLEAN : css = Tokens(s.color, s.follow, r)
    <2>1. CASE s.color # t.s.color \/ s.follow # t.s.follow
      BY <2>1, TokensOf DEF SettingsShaped
    <2>2. CASE ~(s.color # t.s.color \/ s.follow # t.s.follow)
      BY <2>2 DEF Agrees
    <2> QED
      BY <2>1, <2>2
  <1>6. prod => css = Tokens(s.color, s.follow, s.recommendColor)
    BY DEF Agrees
  <1> HIDE DEF css
  <1>7. Agrees(u, prefers, prod)
    BY <1>3, <1>4, <1>5, <1>6 DEF Agrees
  <1> QED
    BY <1>3, <1>7 DEF u

LEMMA WindowsFrame ==
    ASSUME theme' = [q \in Browser |-> theme'[q]], prod' = prod, build' \in Nat \ {0},
           \A q \in Browser : WindowOf(theme'[q], os', prod, build'), StoredShaped(stg')
    PROVE  WindowsInv'
  <1>1. WindowsInv' = (/\ theme' = [q \in Browser |-> theme'[q]]
                       /\ build' \in Nat \ {0}
                       /\ \A q \in Browser : WindowOf(theme'[q], os', prod', build')
                       /\ StoredShaped(stg'))
    BY DEF WindowsInv, WindowOf, Agrees, WindowShaped, SettingsShaped, StoredShaped, Dark, Filter,
           Tokens, getColorPalette, getRecommendedColorPalette, getAntDColorPalette, Nearest
  <1> QED
    BY <1>1

LEMMA ThemeStarts == ThemeInit => ThemeInv
  <1> SUFFICES ASSUME ThemeInit
               PROVE  ThemeInv
    OBVIOUS
  <1>1. SettingsShaped(themeSettings) /\ themeSettings.scheme = choice
    BY DEF ThemeInit, SettingsShaped, themeSettings
  <1>2. StoredShaped(stg) /\ stg.overrideThemeFlag = 0 /\ stg.themeSettings = themeSettings
    BY <1>1 DEF ThemeInit, StoredShaped
  <1>3. \A p \in Browser : theme[p].at = "closed"
    BY DEF ThemeInit, Gone
  <1>4. WindowsInv
    BY <1>2, <1>3 DEF ThemeInit, WindowsInv, WindowOf
  <1>5. FlagInv
    BY <1>2 DEF ThemeInit, FlagInv
  <1>6. ChoiceInv
    BY <1>1, <1>2, <1>3 DEF ChoiceInv, Active, Opened
  <1> QED
    BY <1>4, <1>5, <1>6 DEF ThemeInv

(* The click of a window changes its settings and nobody else's.           *)
LEMMA Changed ==
    ASSUME ThemeInv, NEW p \in Browser, NEW s, SettingsShaped(s), Change(p, s),
           prod => /\ s.color = theme[p].s.color /\ s.follow = theme[p].s.follow
                   /\ s.recommendColor = theme[p].s.recommendColor
    PROVE  ThemeInv'
  <1> DEFINE u == Repaint(theme[p], s, os)
  <1>1. /\ Opened(p) /\ theme' = [theme EXCEPT ![p] = u]
        /\ UNCHANGED <<prod, os, build, seen>> /\ choice' = s.scheme
        /\ alone' = IF s.scheme = theme[p].s.scheme THEN alone ELSE ~OthersActive(p)
    BY DEF Change
  <1>2. Agrees(theme[p], os, prod) /\ theme[p].build \in 1 .. build
    BY <1>1 DEF ThemeInv, WindowsInv, WindowOf, Opened
  <1>3. /\ Agrees(u, os, prod) /\ u.at = "open" /\ u.s = s /\ u.build = theme[p].build
    <2>1. prod => /\ s.color = theme[p].s.color /\ s.follow = theme[p].s.follow
                  /\ s.recommendColor = theme[p].s.recommendColor
      OBVIOUS
    <2>2. Agrees(theme[p], os, prod) /\ SettingsShaped(s)
      BY <1>2
    <2> QED
      BY <2>1, <2>2, RepaintShows
  <1> HIDE DEF u
  <1>4. /\ theme'[p] = u /\ \A q \in Browser \ {p} : theme'[q] = theme[q]
        /\ theme' = [q \in Browser |-> theme'[q]]
    BY <1>1 DEF ThemeInv, WindowsInv
  <1>5. \E dark : stg' = [stg EXCEPT !.darkMode = dark] \/ stg' = stg
    BY DEF Change, StoreDark
  <1>6. /\ StoredShaped(stg') /\ stg'.overrideThemeFlag = stg.overrideThemeFlag
        /\ stg'.themeSettings = stg.themeSettings
    BY <1>5 DEF ThemeInv, WindowsInv, StoredShaped
  <1>7. WindowsInv'
    <2>1. \A q \in Browser : WindowOf(theme'[q], os, prod, build)
      <3>1. WindowOf(u, os, prod, build)
        BY <1>2, <1>3 DEF WindowOf
      <3>2. \A q \in Browser \ {p} : WindowOf(theme[q], os, prod, build)
        BY DEF ThemeInv, WindowsInv
      <3> QED
        BY <1>4, <3>1, <3>2
    <2>2. os' = os /\ prod' = prod /\ build' = build /\ build \in Nat \ {0}
      BY <1>1 DEF ThemeInv, WindowsInv
    <2> QED
      BY <1>4, <1>6, <2>1, <2>2, WindowsFrame
  <1>8. FlagInv'
    BY <1>1, <1>6 DEF ThemeInv, FlagInv
  <1>9. ChoiceInv'
    <2> SUFFICES ASSUME prod, alone'
                 PROVE  /\ \A q, r \in Browser : Active(q)' /\ Active(r)' => q = r
                        /\ (\A q \in Browser : ~Opened(q)') => stg'.themeSettings.scheme = choice'
                        /\ \A q \in Browser : Opened(q)' => theme'[q].s.scheme = choice'
                        /\ \A q \in Browser : theme'[q].at = "loading"
                                             => stg'.overrideThemeFlag <= theme'[q].build
      BY <1>1 DEF ChoiceInv
    <2>1. \A q \in Browser \ {p} : ~Active(q)
      <3>1. CASE ~OthersActive(p)
        BY <3>1 DEF OthersActive
      <3>2. CASE alone
        BY <1>1, <3>2 DEF ThemeInv, ChoiceInv, Active, Opened
      <3> QED
        BY <1>1, <3>1, <3>2
    <2>2. \A q \in Browser \ {p} : ~Active(q)' /\ theme'[q].at # "loading" /\ ~Opened(q)'
      BY <1>4, <2>1 DEF Active, Opened
    <2>3. Opened(p)' /\ theme'[p].s.scheme = choice' /\ theme'[p].at # "loading"
      BY <1>1, <1>3, <1>4 DEF Opened
    <2> QED
      BY <2>2, <2>3
  <1> QED
    BY <1>7, <1>8, <1>9 DEF ThemeInv

LEMMA ChoiceFrame ==
    ASSUME prod' = prod,
           prod /\ alone' =>
               /\ \A q, r \in Browser : Active(q)' /\ Active(r)' => q = r
               /\ (\A q \in Browser : ~Opened(q)') => stg'.themeSettings.scheme = choice'
               /\ \A q \in Browser : Opened(q)' => theme'[q].s.scheme = choice'
               /\ \A q \in Browser : theme'[q].at = "loading"
                                    => stg'.overrideThemeFlag <= theme'[q].build
    PROVE  ChoiceInv'
  BY DEF ChoiceInv

LEMMA LoadingSetUp == ASSUME ThemeInv, NEW p \in Browser, SetupLoading(p) PROVE ThemeInv'
  <1> DEFINE new == [at |-> "loading", build |-> build, dark |-> stg.darkMode]
  <1>1. /\ ~Active(p) /\ theme' = [theme EXCEPT ![p] = new]
        /\ alone' = (alone /\ ~OthersActive(p))
        /\ UNCHANGED <<prod, os, build, stg, choice, seen>>
    BY DEF SetupLoading
  <1>2. new.at = "loading" /\ new.build = build
    OBVIOUS
  <1> HIDE DEF new
  <1>3. /\ theme'[p] = new /\ \A q \in Browser \ {p} : theme'[q] = theme[q]
        /\ theme' = [q \in Browser |-> theme'[q]]
    BY <1>1 DEF ThemeInv, WindowsInv
  <1>4. WindowsInv'
    <2>1. WindowOf(new, os, prod, build)
      BY <1>2 DEF WindowOf, ThemeInv, WindowsInv
    <2>2. \A q \in Browser : WindowOf(theme'[q], os', prod, build')
      BY <1>1, <1>3, <2>1 DEF ThemeInv, WindowsInv
    <2> QED
      BY <1>1, <1>3, <2>2, WindowsFrame DEF ThemeInv, WindowsInv
  <1>5. FlagInv'
    BY <1>1 DEF ThemeInv, FlagInv
  <1>6. ChoiceInv'
    <2> SUFFICES ASSUME prod, alone, ~OthersActive(p)
                 PROVE  /\ \A q, r \in Browser : Active(q)' /\ Active(r)' => q = r
                        /\ (\A q \in Browser : ~Opened(q)') => stg'.themeSettings.scheme = choice'
                        /\ \A q \in Browser : Opened(q)' => theme'[q].s.scheme = choice'
                        /\ \A q \in Browser : theme'[q].at = "loading"
                                             => stg'.overrideThemeFlag <= theme'[q].build
      BY <1>1, ChoiceFrame
    <2>1. \A q \in Browser \ {p} : ~Active(q) /\ ~Active(q)' /\ ~Opened(q)'
                                  /\ theme'[q].at # "loading"
      BY <1>3 DEF OthersActive, Active, Opened
    <2>2. \A q \in Browser : ~Opened(q)
      BY <1>1, <2>1 DEF Active, Opened
    <2>3. stg.themeSettings.scheme = choice
      BY <2>2 DEF ThemeInv, ChoiceInv
    <2>4. stg.overrideThemeFlag <= build
      BY DEF ThemeInv, FlagInv
    <2> QED
      BY <1>1, <1>2, <1>3, <2>1, <2>3, <2>4 DEF Opened
  <1> QED
    BY <1>4, <1>5, <1>6 DEF ThemeInv

LEMMA WindowClosed ==
    ASSUME ThemeInv, NEW p \in Browser, theme' = [theme EXCEPT ![p] = Gone],
           UNCHANGED <<prod, os, build, choice, seen>>, alone' => alone,
           stg' = stg \/ (Opened(p) /\ stg' = [stg EXCEPT !.themeSettings = theme[p].s]),
           prod /\ alone' /\ Opened(p) => stg'.themeSettings.scheme = choice
    PROVE  ThemeInv'
  <1>1. /\ theme'[p].at = "closed" /\ \A q \in Browser \ {p} : theme'[q] = theme[q]
        /\ theme' = [q \in Browser |-> theme'[q]]
    BY DEF ThemeInv, WindowsInv, Gone
  <1>2. StoredShaped(stg') /\ stg'.overrideThemeFlag = stg.overrideThemeFlag
    <2>1. Opened(p) => SettingsShaped(theme[p].s)
      BY DEF ThemeInv, WindowsInv, WindowOf, Opened, Agrees
    <2>2. StoredShaped(stg)
      BY DEF ThemeInv, WindowsInv
    <2>3. CASE Opened(p) /\ stg' = [stg EXCEPT !.themeSettings = theme[p].s]
      <3>1. /\ stg' \in [themeSettings : {theme[p].s}, overrideThemeFlag : Nat,
                          darkMode : {stg.darkMode}]
            /\ stg'.overrideThemeFlag = stg.overrideThemeFlag
        BY <2>2, <2>3 DEF StoredShaped
      <3> QED
        BY <2>1, <2>3, <3>1 DEF StoredShaped
    <2> QED
      BY <2>2, <2>3
  <1>3. WindowsInv'
    <2>1. \A q \in Browser : WindowOf(theme'[q], os', prod, build')
      BY <1>1 DEF ThemeInv, WindowsInv, WindowOf
    <2> QED
      BY <1>1, <1>2, <2>1, WindowsFrame DEF ThemeInv, WindowsInv
  <1>4. FlagInv'
    BY <1>2 DEF ThemeInv, FlagInv
  <1>5. ChoiceInv'
    <2> SUFFICES ASSUME prod, alone'
                 PROVE  /\ \A q, r \in Browser : Active(q)' /\ Active(r)' => q = r
                        /\ (\A q \in Browser : ~Opened(q)') => stg'.themeSettings.scheme = choice'
                        /\ \A q \in Browser : Opened(q)' => theme'[q].s.scheme = choice'
                        /\ \A q \in Browser : theme'[q].at = "loading"
                                             => stg'.overrideThemeFlag <= theme'[q].build
      BY ChoiceFrame
    <2>1. /\ \A q, r \in Browser : Active(q) /\ Active(r) => q = r
          /\ (\A q \in Browser : ~Opened(q)) => stg.themeSettings.scheme = choice
          /\ \A q \in Browser : Opened(q) => theme[q].s.scheme = choice
          /\ \A q \in Browser : theme[q].at = "loading"
                               => stg.overrideThemeFlag <= theme[q].build
      BY DEF ThemeInv, ChoiceInv
    <2>2. \A q \in Browser : Active(q)' => q # p /\ Active(q)
      BY <1>1 DEF Active
    <2>3. \A q \in Browser : Opened(q)' => q # p /\ Opened(q)
      BY <1>1 DEF Opened
    <2>4. (\A q \in Browser : ~Opened(q)') => stg'.themeSettings.scheme = choice'
      <3>1. CASE Opened(p)
        BY <3>1
      <3>2. CASE ~Opened(p)
        <4>1. \A q \in Browser \ {p} : Opened(q) => Opened(q)'
          BY <1>1 DEF Opened
        <4> QED
          BY <2>1, <3>2, <4>1
      <3> QED
        BY <3>1, <3>2
    <2> QED
      BY <1>1, <1>2, <2>1, <2>2, <2>3, <2>4
  <1> QED
    BY <1>3, <1>4, <1>5 DEF ThemeInv

LEMMA ThemeCached == ASSUME ThemeInv, NEW p \in Browser, CacheThemeSettings(p) PROVE ThemeInv'
  <1>1. /\ theme' = [theme EXCEPT ![p] = Gone]
        /\ UNCHANGED <<prod, os, build, choice, seen, alone>>
        /\ stg' = IF prod /\ Opened(p) THEN [stg EXCEPT !.themeSettings = theme[p].s] ELSE stg
    BY DEF CacheThemeSettings, themeHistory
  <1>2. prod /\ alone' /\ Opened(p) => stg'.themeSettings.scheme = choice
    BY <1>1 DEF ThemeInv, ChoiceInv, WindowsInv, StoredShaped
  <1>3. stg' = stg \/ (Opened(p) /\ stg' = [stg EXCEPT !.themeSettings = theme[p].s])
    BY <1>1
  <1>4. UNCHANGED <<prod, os, build, choice, seen>> /\ (alone' => alone)
    BY <1>1
  <1> QED
    BY <1>1, <1>2, <1>3, <1>4, WindowClosed

LEMMA WindowKilled == ASSUME ThemeInv, NEW p \in Browser, Kill(p) PROVE ThemeInv'
  <1>1. theme' = [theme EXCEPT ![p] = Gone] /\ UNCHANGED <<prod, os, build, choice, seen>>
    BY DEF Kill
  <1>2. /\ alone' => alone /\ stg.themeSettings.scheme = choice
        /\ stg' = stg
    BY DEF Kill
  <1>3. stg' = stg \/ (Opened(p) /\ stg' = [stg EXCEPT !.themeSettings = theme[p].s])
    BY <1>2
  <1>4. prod /\ alone' /\ Opened(p) => stg'.themeSettings.scheme = choice
    BY <1>2
  <1> QED
    BY <1>1, <1>2, <1>3, <1>4, WindowClosed

LEMMA Preferred == ASSUME ThemeInv, Prefer PROVE ThemeInv'
  <1>1. /\ theme' = [q \in Browser |-> IF Opened(q) THEN Repaint(theme[q], theme[q].s, os')
                                       ELSE theme[q]]
        /\ UNCHANGED <<prod, build, choice, alone, seen>>
        /\ \E dark : stg' = [stg EXCEPT !.darkMode = dark] \/ stg' = stg
    BY DEF Prefer, themeHistory
  <1>2. /\ StoredShaped(stg') /\ stg'.overrideThemeFlag = stg.overrideThemeFlag
        /\ stg'.themeSettings = stg.themeSettings
    BY <1>1 DEF ThemeInv, WindowsInv, StoredShaped
  <1>3. ASSUME NEW q \in Browser
        PROVE  /\ WindowOf(theme'[q], os', prod, build)
               /\ theme'[q].at = theme[q].at /\ (Opened(q) => theme'[q].s = theme[q].s)
               /\ (theme[q].at = "loading" => theme'[q].build = theme[q].build)
    <2>1. WindowOf(theme[q], os, prod, build)
      BY DEF ThemeInv, WindowsInv
    <2>2. CASE Opened(q)
      <3>1. Agrees(theme[q], os, prod) /\ theme[q].build \in 1 .. build
        BY <2>1, <2>2 DEF WindowOf, Opened
      <3> DEFINE u == Repaint(theme[q], theme[q].s, os')
      <3>2. /\ Agrees(u, os', prod) /\ u.at = "open" /\ u.s = theme[q].s
            /\ u.build = theme[q].build
        <4>1. SettingsShaped(theme[q].s)
          BY <3>1 DEF Agrees
        <4> QED
          BY <3>1, <4>1, RepaintShows
      <3>3. theme'[q] = u
        BY <1>1, <2>2
      <3> HIDE DEF u
      <3> QED
        BY <2>2, <3>1, <3>2, <3>3 DEF WindowOf, Opened
    <2>3. CASE ~Opened(q)
      <3>1. theme'[q] = theme[q]
        BY <1>1, <2>3
      <3> QED
        BY <2>1, <2>3, <3>1 DEF WindowOf, Opened
    <2> QED
      BY <2>2, <2>3
  <1>4. WindowsInv'
    <2>1. theme' = [q \in Browser |-> theme'[q]]
      BY <1>1
    <2>2. \A q \in Browser : WindowOf(theme'[q], os', prod, build')
      BY <1>1, <1>3
    <2> QED
      BY <1>1, <1>2, <2>1, <2>2, WindowsFrame DEF ThemeInv, WindowsInv
  <1>5. FlagInv'
    BY <1>1, <1>2 DEF ThemeInv, FlagInv
  <1>6. ChoiceInv'
    <2>1. \A q \in Browser : (Active(q)' <=> Active(q)) /\ (Opened(q)' <=> Opened(q))
      BY <1>3 DEF Active, Opened
    <2>2. \A q \in Browser : theme'[q].at = theme[q].at
      BY <1>3
    <2> QED
      BY <1>1, <1>2, <1>3, <2>1, <2>2, ChoiceFrame DEF ThemeInv, ChoiceInv
  <1> QED
    BY <1>4, <1>5, <1>6 DEF ThemeInv

LEMMA Deployed == ASSUME ThemeInv, Deploy PROVE ThemeInv'
  <1>1. build' = build + 1 /\ UNCHANGED <<prod, os, theme, stg, choice, alone, seen>>
    BY DEF Deploy, themeHistory
  <1>2. build \in Nat \ {0} /\ StoredShaped(stg) /\ theme = [q \in Browser |-> theme[q]]
    BY DEF ThemeInv, WindowsInv
  <1>3. WindowsInv'
    <2>1. \A q \in Browser : WindowOf(theme'[q], os', prod, build')
      BY <1>1, <1>2 DEF ThemeInv, WindowsInv, WindowOf
    <2> QED
      BY <1>1, <1>2, <2>1, WindowsFrame
  <1>4. FlagInv'
    BY <1>1, <1>2 DEF ThemeInv, FlagInv, StoredShaped
  <1>5. ChoiceInv'
    BY <1>1, ChoiceFrame DEF ThemeInv, ChoiceInv, Active, Opened
  <1> QED
    BY <1>3, <1>4, <1>5 DEF ThemeInv

(* A window starts with the stored settings, or with those its build       *)
(* overrides; in production the flag says which build did so last.         *)
LEMMA StoreStarted == ASSUME ThemeInv, NEW p \in Browser, InitThemeStore(p) PROVE ThemeInv'
  <1> DEFINE s == initThemeSettings(p)
             new == [at |-> "open", build |-> theme[p].build, first |-> s, s |-> s,
                     dark |-> Dark(s, os), filter |-> Filter(s), css |-> ThemeTokens(s)]
             this == theme[p].build
             first == prod /\ this \notin seen /\ Override[this] # "none"
  <1>1. /\ theme[p].at = "loading" /\ theme' = [theme EXCEPT ![p] = new]
        /\ stg' = [stg EXCEPT !.darkMode = Dark(s, os),
                              !.overrideThemeFlag = IF prod THEN theme[p].build ELSE @]
        /\ UNCHANGED <<prod, os, build>>
    BY DEF InitThemeStore
  <1>2. /\ choice' = IF first THEN Override[this] ELSE choice
        /\ alone' = (~OthersActive(p) /\ (alone \/ first))
        /\ seen' = {o \in seen : o <= this} \cup {this}
    BY DEF InitThemeStore, Begin
  <1>3. /\ this \in 1 .. build /\ build \in Nat \ {0}
        /\ StoredShaped(stg) /\ theme = [q \in Browser |-> theme[q]]
    BY <1>1 DEF ThemeInv, WindowsInv, WindowOf
  <1>4. SettingsShaped(s)
    <2>1. SettingsShaped(themeSettings) /\ SettingsShaped(stg.themeSettings)
      BY <1>3 DEF SettingsShaped, themeSettings, StoredShaped
    <2>2. SettingsShaped([stg.themeSettings EXCEPT !.scheme = Override[this]])
      BY <2>1 DEF SettingsShaped
    <2> QED
      BY <2>1, <2>2 DEF initThemeSettings
  <1>5. prod => s.scheme = IF stg.overrideThemeFlag # this /\ Override[this] # "none"
                           THEN Override[this] ELSE stg.themeSettings.scheme
    BY <1>3 DEF initThemeSettings, Overrides, StoredShaped, SettingsShaped
  <1> HIDE DEF s
  <1>6. new.at = "open" /\ new.build = this /\ new.s = s /\ Agrees(new, os, prod)
    <2> DEFINE dark == Dark(s, os)
               filter == Filter(s)
               css == ThemeTokens(s)
    <2>1. /\ new.at = "open" /\ new.build = this /\ new.s = s /\ new.first = s
          /\ new.dark = dark /\ new.filter = filter /\ new.css = css
      <3> HIDE DEF dark, filter, css
      <3> QED
        BY DEF dark, filter, css
    <2>2. WindowShaped(new)
      BY DEF WindowShaped
    <2>3. css = Tokens(s.color, s.follow, s.recommendColor) /\ s.recommendColor \in BOOLEAN
      BY <1>4, TokensOf DEF SettingsShaped
    <2> HIDE DEF new, css
    <2> QED
      BY <1>4, <2>1, <2>2, <2>3 DEF Agrees
  <1> HIDE DEF new
  <1>7. /\ theme'[p] = new /\ \A q \in Browser \ {p} : theme'[q] = theme[q]
        /\ theme' = [q \in Browser |-> theme'[q]]
    BY <1>1, <1>3
  <1>8. /\ StoredShaped(stg') /\ stg'.themeSettings = stg.themeSettings
        /\ stg'.overrideThemeFlag = IF prod THEN this ELSE stg.overrideThemeFlag
    <2> DEFINE dark == Dark(s, os)
               flag == IF prod THEN this ELSE stg.overrideThemeFlag
    <2>1. stg' \in [themeSettings : {stg.themeSettings}, overrideThemeFlag : {flag}, darkMode : {dark}]
      <3>1. stg' = [stg EXCEPT !.darkMode = dark, !.overrideThemeFlag = flag]
        BY <1>1, <1>3 DEF StoredShaped
      <3> HIDE DEF dark, flag
      <3> QED
        BY <1>3, <3>1 DEF StoredShaped
    <2>2. flag \in Nat
      BY <1>3 DEF StoredShaped
    <2> HIDE DEF dark
    <2> QED
      BY <1>3, <2>1, <2>2 DEF StoredShaped
  <1>9. WindowsInv'
    <2>1. WindowOf(new, os, prod, build)
      BY <1>3, <1>6 DEF WindowOf
    <2>2. \A q \in Browser : WindowOf(theme'[q], os', prod, build')
      BY <1>1, <1>7, <2>1 DEF ThemeInv, WindowsInv
    <2> QED
      BY <1>1, <1>3, <1>7, <1>8, <2>2, WindowsFrame
  <1>10. FlagInv'
    BY <1>1, <1>2, <1>3, <1>8 DEF ThemeInv, FlagInv
  <1>11. ChoiceInv'
    <2> SUFFICES ASSUME prod, ~OthersActive(p), alone \/ first
                 PROVE  /\ \A q, r \in Browser : Active(q)' /\ Active(r)' => q = r
                        /\ (\A q \in Browser : ~Opened(q)') => stg'.themeSettings.scheme = choice'
                        /\ \A q \in Browser : Opened(q)' => theme'[q].s.scheme = choice'
                        /\ \A q \in Browser : theme'[q].at = "loading"
                                             => stg'.overrideThemeFlag <= theme'[q].build
      BY <1>1, <1>2, ChoiceFrame
    <2>1. \A q \in Browser \ {p} : ~Active(q)
      BY DEF OthersActive
    <2>2. \A q \in Browser \ {p} : ~Active(q)' /\ theme'[q].at # "loading" /\ ~Opened(q)'
      BY <1>7, <2>1 DEF Active, Opened
    <2>3. Opened(p)' /\ theme'[p].at # "loading" /\ theme'[p].s = s
      BY <1>6, <1>7 DEF Opened
    <2>4. /\ \A o \in seen : o \in Nat /\ o <= stg.overrideThemeFlag
          /\ stg.overrideThemeFlag # 0 => stg.overrideThemeFlag \in seen
          /\ stg.overrideThemeFlag \in Nat
      BY <1>3 DEF ThemeInv, FlagInv, StoredShaped
    <2>5. s.scheme = choice'
      <3>1. CASE first
        <4>1. stg.overrideThemeFlag # this
          BY <1>3, <2>4, <3>1
        <4> QED
          BY <1>2, <1>5, <3>1, <4>1
      <3>2. CASE ~first
        <4>1. stg.overrideThemeFlag <= this
          BY <1>1, <3>2 DEF ThemeInv, ChoiceInv
        <4>2. stg.themeSettings.scheme = choice
          <5>1. \A q \in Browser : ~Opened(q)
            BY <1>1, <2>1 DEF Opened, Active
          <5> QED
            BY <3>2, <5>1 DEF ThemeInv, ChoiceInv
        <4>3. this \in seen => stg.overrideThemeFlag = this
          BY <1>3, <2>4, <4>1
        <4>4. ~(stg.overrideThemeFlag # this /\ Override[this] # "none")
          BY <3>2, <4>3
        <4> QED
          BY <1>2, <1>5, <3>2, <4>2, <4>4
      <3> QED
        BY <3>1, <3>2
    <2> QED
      BY <2>2, <2>3, <2>5
  <1> QED
    BY <1>9, <1>10, <1>11 DEF ThemeInv

LEMMA WindowClicked ==
    ASSUME ThemeInv, NEW p \in Browser,
           \/ ToggleThemeScheme(p)
           \/ \E v \in {"light", "dark", "auto"} : SetThemeScheme(p, v)
           \/ SetGrayscale(p) \/ SetColourWeakness(p) \/ SwitchRecommendColor(p) \/ FollowPrimary(p)
           \/ \E k \in ColorKey, c \in Color : UpdateThemeColors(p, k, c)
           \/ ResetTheme(p)
    PROVE  ThemeInv'
  <1> DEFINE s == theme[p].s
  <1>1. Opened(p)
    BY DEF ToggleThemeScheme, SetThemeScheme, SetGrayscale, SetColourWeakness,
           SwitchRecommendColor, FollowPrimary, UpdateThemeColors, ResetTheme, Drawn
  <1>2. SettingsShaped(s) /\ SettingsShaped(theme[p].first)
    BY <1>1 DEF ThemeInv, WindowsInv, WindowOf, Opened, Agrees
  <1> HIDE DEF s
  <1>3. \A v : /\ SettingsShaped([s EXCEPT !.scheme = v])
               /\ [s EXCEPT !.scheme = v].color = s.color
               /\ [s EXCEPT !.scheme = v].follow = s.follow
               /\ [s EXCEPT !.scheme = v].recommendColor = s.recommendColor
    BY <1>2 DEF SettingsShaped
  <1>4. CASE \E v : Change(p, [s EXCEPT !.scheme = v])
    BY <1>3, <1>4, Changed DEF s
  <1>5. CASE \E q : ~prod /\ SettingsShaped(q) /\ Change(p, q)
    BY <1>5, Changed
  <1>6. CASE ToggleThemeScheme(p) \/ \E v \in {"light", "dark", "auto"} : SetThemeScheme(p, v)
    BY <1>4, <1>6 DEF ToggleThemeScheme, SetThemeScheme, s
  <1>7. CASE SetGrayscale(p)
    <2>1. SettingsShaped([s EXCEPT !.grayscale = ~@])
      BY <1>2 DEF SettingsShaped
    <2> QED
      BY <1>5, <1>7, <2>1 DEF SetGrayscale, Drawn, s
  <1>8. CASE SetColourWeakness(p)
    <2>1. SettingsShaped([s EXCEPT !.colourWeakness = ~@])
      BY <1>2 DEF SettingsShaped
    <2> QED
      BY <1>5, <1>8, <2>1 DEF SetColourWeakness, Drawn, s
  <1>9. CASE SwitchRecommendColor(p)
    <2>1. SettingsShaped([s EXCEPT !.recommendColor = ~@])
      BY <1>2 DEF SettingsShaped
    <2> QED
      BY <1>5, <1>9, <2>1 DEF SwitchRecommendColor, Drawn, s
  <1>10. CASE FollowPrimary(p)
    <2>1. SettingsShaped([s EXCEPT !.follow = ~@])
      BY <1>2 DEF SettingsShaped
    <2> QED
      BY <1>5, <1>10, <2>1 DEF FollowPrimary, Drawn, s
  <1>11. CASE \E k \in ColorKey, c \in Color : UpdateThemeColors(p, k, c)
    <2>0. PICK k \in ColorKey, c \in Color : UpdateThemeColors(p, k, c)
      BY <1>11
    <2>1. PICK value : ~prod /\ Change(p, [s EXCEPT !.color[k] = value])
      BY <2>0, Zenon DEF UpdateThemeColors, Drawn, s
    <2>2. SettingsShaped([s EXCEPT !.color[k] = value])
      BY <1>2 DEF SettingsShaped
    <2> QED
      BY <1>5, <2>1, <2>2
  <1>12. CASE ResetTheme(p)
    BY <1>2, <1>5, <1>12 DEF ResetTheme, Drawn
  <1> QED
    BY <1>6, <1>7, <1>8, <1>9, <1>10, <1>11, <1>12

LEMMA ThemeStep == ThemeInv /\ [ThemeNext]_themeVars => ThemeInv'
  <1> SUFFICES ASSUME ThemeInv, [ThemeNext]_themeVars
               PROVE  ThemeInv'
    OBVIOUS
  <1>1. CASE UNCHANGED themeVars
    <2>1. UNCHANGED <<prod, os, build, theme, stg, choice, alone, seen>>
      BY <1>1 DEF themeVars, themeHistory
    <2>2. \A q \in Browser : WindowOf(theme'[q], os', prod, build')
      BY <2>1 DEF ThemeInv, WindowsInv
    <2>3. WindowsInv'
      BY <2>1, <2>2, WindowsFrame DEF ThemeInv, WindowsInv
    <2>4. FlagInv' /\ ChoiceInv'
      BY <2>1, ChoiceFrame DEF ThemeInv, FlagInv, ChoiceInv, Active, Opened
    <2> QED
      BY <2>3, <2>4 DEF ThemeInv
  <1>2. ASSUME NEW p \in Browser,
               SetupLoading(p) \/ InitThemeStore(p) \/ CacheThemeSettings(p) \/ Kill(p)
        PROVE  ThemeInv'
    BY <1>2, LoadingSetUp, StoreStarted, ThemeCached, WindowKilled
  <1> QED
    BY <1>1, <1>2, Preferred, Deployed, WindowClicked DEF ThemeNext

(* Through reloads, system changes and new builds the document agrees with *)
(* the settings and the system, and in production the user sees the scheme *)
(* chosen last, as long as no other window or killed page interferes.      *)
THEOREM ThemesKept == ThemeSpec => []ThemeKept
  <1>1. ThemeInv => ThemeKept
    <2> SUFFICES ASSUME ThemeInv, NEW p \in Browser, Opened(p)
                 PROVE  Painted(p) /\ (prod /\ alone => theme[p].s.scheme = choice)
      BY DEF ThemeKept
    <2>1. Agrees(theme[p], os, prod)
      BY DEF ThemeInv, WindowsInv, WindowOf, Opened
    <2>2. prod /\ alone => theme[p].s.scheme = choice
      BY DEF ThemeInv, ChoiceInv
    <2> QED
      BY <2>1, <2>2, ShownPainted
  <1> QED
    BY <1>1, ThemeStarts, ThemeStep, PTL DEF ThemeSpec

-----------------------------------------------------------------------------
(* The tab store.  Tabs, those that a closing waits to write and those in  *)
(* local storage belong to the user of the latest session, and only he is  *)
(* recorded as the last one, as long as nothing went past checkTabClear.   *)
(* What an earlier session waits to write may be anyone's.                 *)
Owners == IF unchecked THEN TabUser \cup {Nobody} ELSE {account}

OpenedTab == [route : Routes, owner : Owners]
Sequel(T) == [kind : {"nothing", "update", "reset"}, rest : Seq(T)]
Move == [to : Routes \cup {HomeTab, "login"},
         then : Sequel([route : Routes, owner : TabUser \cup {Nobody}]),
         latest : BOOLEAN, stale : BOOLEAN]

MovesInv ==
    /\ moves \in Seq(Move)
    /\ \A k \in DOMAIN moves : /\ ~moves[k].stale => moves[k].then.rest \in Seq(OpenedTab)
                               /\ inside => moves[k].to # "login"

TabsInv ==
    /\ tabs \in Seq(OpenedTab) /\ globalTabs \in Seq(OpenedTab)
    /\ MovesInv
    /\ shown \in Routes \cup {HomeTab, "login"}
    /\ {account, userId, lastAccount} \subseteq TabUser \cup {Nobody} /\ infoDue \subseteq TabUser
    /\ {unchecked, inside} \subseteq BOOLEAN
    /\ inside => account # Nobody /\ shown # "login"
    /\ ~unchecked => lastAccount \in {account, Nobody}

LEMMA ShowingSome ==
    ASSUME NEW T, NEW s \in Seq(T), NEW rs PROVE Showing(s, rs) \in Seq(T)
  BY Filtering DEF Showing

LEMMA TabAdded ==
    ASSUME TabsInv, NEW s \in Seq(OpenedTab), NEW r \in Routes \cup {HomeTab}
    PROVE  WithTab(s, r) \in Seq(OpenedTab)
  <1>1. r # HomeTab => Tab(r) \in OpenedTab
    BY DEF TabsInv, Tab, OpenedTab, Owners
  <1> QED
    BY <1>1, AppendProperties DEF WithTab

(* No step but a login changes the owners, other than to all.              *)
Continues ==
    /\ account' = account /\ (unchecked => unchecked') /\ unchecked' \in BOOLEAN
    /\ inside' => inside

LEMMA OwnersStay ==
    ASSUME TabsInv, Continues
    PROVE  /\ OpenedTab \subseteq OpenedTab'
           /\ \A s \in Seq(OpenedTab) : s \in Seq(OpenedTab')
  <1>1. OpenedTab \subseteq OpenedTab'
    BY DEF TabsInv, Continues, OpenedTab, Owners
  <1> QED
    BY <1>1, SeqDef

LEMMA AnyOwner == TabsInv => OpenedTab \subseteq [route : Routes, owner : TabUser \cup {Nobody}]
  BY DEF TabsInv, OpenedTab, Owners

(* The moves are as before, up to what is said of the latest.              *)
LEMMA MovesStay ==
    ASSUME TabsInv, Continues, NEW k \in DOMAIN moves, NEW m \in Move,
           m.to = moves[k].to, m.then = moves[k].then, m.stale = moves[k].stale
    PROVE  /\ ~m.stale => m.then.rest \in Seq(OpenedTab')
           /\ inside' => m.to # "login"
  BY OwnersStay DEF TabsInv, MovesInv, Continues

LEMMA MovesUnmoved == ASSUME TabsInv, Continues, UNCHANGED moves PROVE MovesInv'
  <1>1. \A k \in DOMAIN moves : moves[k] \in Move
    BY ElementOfSeq DEF TabsInv, MovesInv
  <1>2. \A k \in DOMAIN moves' : /\ ~moves'[k].stale => moves'[k].then.rest \in Seq(OpenedTab')
                                 /\ inside' => moves'[k].to # "login"
    BY <1>1, MovesStay
  <1> QED
    BY <1>2 DEF TabsInv, MovesInv, Move

LEMMA MoveStarted ==
    ASSUME TabsInv, Continues, NEW r \in Routes \cup {HomeTab, "login"}, inside' => r # "login",
           NEW then \in Sequel(OpenedTab), MoveTo(r, then)
    PROVE  MovesInv'
  <1> DEFINE old == [i \in DOMAIN moves |-> [moves[i] EXCEPT !.latest = FALSE]]
             m == [to |-> r, then |-> then, latest |-> TRUE, stale |-> FALSE]
  <1>1. moves' = Append(old, m)
    BY DEF MoveTo
  <1>2. Len(moves) \in Nat /\ DOMAIN moves = 1 .. Len(moves) /\ \A k \in DOMAIN moves : moves[k] \in Move
    BY ElementOfSeq DEF TabsInv, MovesInv
  <1>3. m \in Move
    <2> DEFINE AnyTab == [route : Routes, owner : TabUser \cup {Nobody}]
    <2>1. OpenedTab \subseteq AnyTab /\ then.rest \in Seq(OpenedTab)
      BY AnyOwner DEF Sequel
    <2> HIDE DEF AnyTab
    <2>2. then.rest \in Seq(AnyTab)
      BY <2>1, SeqDef
    <2> QED
      BY <2>2 DEF Move, Sequel, AnyTab
  <1>4. /\ old \in Seq(Move) /\ DOMAIN old = DOMAIN moves /\ Len(old) = Len(moves)
        /\ \A k \in DOMAIN moves : /\ old[k] \in Move /\ old[k].to = moves[k].to
                                   /\ old[k].then = moves[k].then /\ old[k].stale = moves[k].stale
    <2>1. \A k \in DOMAIN moves : /\ old[k] \in Move /\ old[k].to = moves[k].to
                                  /\ old[k].then = moves[k].then /\ old[k].stale = moves[k].stale
      BY <1>2 DEF Move
    <2> QED
      BY <1>2, <2>1, SeqDef, LenProperties
  <1>5. then.rest \in Seq(OpenedTab')
    BY OwnersStay DEF Sequel
  <1>6. m.then.rest = then.rest /\ m.to = r
    OBVIOUS
  <1> HIDE DEF old, m
  <1>7. /\ moves' \in Seq(Move)
        /\ \A k \in DOMAIN moves' : (k \in DOMAIN moves /\ moves'[k] = old[k]) \/ moves'[k] = m
    BY <1>1, <1>2, <1>3, <1>4, AppendProperties
  <1>8. \A k \in DOMAIN moves' : /\ ~moves'[k].stale => moves'[k].then.rest \in Seq(OpenedTab')
                                 /\ inside' => moves'[k].to # "login"
    BY <1>4, <1>5, <1>6, <1>7, MovesStay
  <1> QED
    BY <1>7, <1>8 DEF MovesInv, Move

LEMMA MoveTaken ==
    ASSUME TabsInv, Continues, NEW k \in DOMAIN moves, moves' = RemoveAt(moves, k)
    PROVE  MovesInv'
  <1>1. k \in 1 .. Len(moves) /\ Len(moves) \in Nat /\ DOMAIN moves = 1 .. Len(moves)
        /\ \A l \in DOMAIN moves : moves[l] \in Move
    BY ElementOfSeq DEF TabsInv, MovesInv
  <1>2. /\ moves' \in Seq(Move) /\ DOMAIN moves' = 1 .. Len(moves) - 1
        /\ \A l \in 1 .. Len(moves) - 1 : moves'[l] = IF l < k THEN moves[l] ELSE moves[l + 1]
    <2>1. /\ moves' \in Seq(Move) /\ Len(moves') = Len(moves) - 1
          /\ \A l \in 1 .. Len(moves) - 1 : moves'[l] = IF l < k THEN moves[l] ELSE moves[l + 1]
      <3>1. moves \in Seq(Move) /\ k \in 1 .. Len(moves)
        BY <1>1 DEF TabsInv, MovesInv
      <3> QED
        BY <3>1, Removing
    <2> QED
      BY <2>1, LenProperties
  <1>3. \A l \in DOMAIN moves' : \E n \in DOMAIN moves : moves'[l] = moves[n]
    <2>1. \A l \in 1 .. Len(moves) - 1 : l \in DOMAIN moves /\ l + 1 \in DOMAIN moves
      BY <1>1
    <2> QED
      BY <1>2, <2>1
  <1>4. \A l \in DOMAIN moves' : /\ ~moves'[l].stale => moves'[l].then.rest \in Seq(OpenedTab')
                                 /\ inside' => moves'[l].to # "login"
    BY <1>1, <1>3, MovesStay
  <1> QED
    BY <1>2, <1>4 DEF MovesInv, Move

LEMMA OldTabs == ASSUME TabsInv, Continues, NEW s \in Seq(OpenedTab) PROVE s \in Seq(OpenedTab')
  BY OwnersStay

LEMMA Sequels ==
    ASSUME NEW s \in Seq(OpenedTab)
    PROVE  Nothing \in Sequel(OpenedTab) /\ Reset \in Sequel(OpenedTab) /\ Update(s) \in Sequel(OpenedTab)
  BY EmptySeq DEF Nothing, Reset, Update, Sequel

LEMMA Paged == ASSUME NEW r \in Routes \cup {HomeTab}
               PROVE  Destination(r) \in Routes \cup {HomeTab, "login"} /\ (inside => Destination(r) # "login")
  BY TabsAssumption DEF Destination

(* A step within a session, or after its end, that leaves its accounts.    *)
LEMMA WithinSession ==
    ASSUME TabsInv, MovesInv', tabs' \in Seq(OpenedTab), shown' = shown,
           UNCHANGED <<account, inside, userId, lastAccount, globalTabs, unchecked>>,
           infoDue' \subseteq TabUser
    PROVE  TabsInv'
  <1>1. Continues
    BY DEF Continues, TabsInv
  <1>2. tabs' \in Seq(OpenedTab') /\ globalTabs' \in Seq(OpenedTab')
    BY <1>1, OldTabs DEF TabsInv
  <1> QED
    BY <1>2 DEF TabsInv

LEMMA TabsClicked ==
    ASSUME TabsInv, NEW r \in Routes, OpenTab(r) \/ RemoveTab(r) PROVE TabsInv'
  <1>1. Continues
    BY DEF OpenTab, RemoveTab, sessionOfTabs, Continues, TabsInv
  <1>2. <<>> \in Seq(OpenedTab)
    BY EmptySeq
  <1>3. CASE OpenTab(r)
    <2>1. MovesInv'
      <3>1. Destination(r) \in Routes \cup {HomeTab, "login"} /\ (inside' => Destination(r) # "login")
        BY <1>3, Paged DEF OpenTab
      <3> QED
        BY <1>1, <1>2, <1>3, <3>1, MoveStarted, Sequels DEF OpenTab
    <2>2. infoDue' \subseteq TabUser
      BY <1>3 DEF OpenTab, TabsInv
    <2> QED
      BY <1>3, <2>1, <2>2, WithinSession DEF OpenTab, TabsInv
  <1>4. CASE RemoveTab(r)
    <2> DEFINE i == Position(tabs, r)
               next == IF i < Len(tabs) THEN tabs[i + 1].route ELSE HomeTab
    <2>1. i \in 1 .. Len(tabs) /\ Len(tabs) \in Nat
      <3>1. \E j \in DOMAIN tabs : tabs[j].route = r
        BY <1>4 DEF RemoveTab, TabIds
      <3>2. i \in DOMAIN tabs
        BY <3>1 DEF Position
      <3> QED
        BY <3>2, ElementOfSeq DEF TabsInv
    <2>2. next \in Routes \cup {HomeTab}
      <3>1. \A j \in 1 .. Len(tabs) : tabs[j] \in OpenedTab
        BY ElementOfSeq DEF TabsInv
      <3>2. i < Len(tabs) => i + 1 \in 1 .. Len(tabs)
        BY <2>1
      <3> QED
        BY <3>1, <3>2 DEF OpenedTab
    <2>3. tabs' = RemoveAt(tabs, i) /\ (MoveTo(Destination(next), Nothing) \/ UNCHANGED moves)
      BY <1>4 DEF RemoveTab
    <2>4. UNCHANGED <<shown, sessionOfTabs>>
      BY <1>4 DEF RemoveTab
    <2> HIDE DEF i, next
    <2>5. tabs' \in Seq(OpenedTab)
      BY <2>1, <2>3, Removing DEF TabsInv
    <2>6. MovesInv'
      <3>1. Destination(next) \in Routes \cup {HomeTab, "login"} /\ (inside' => Destination(next) # "login")
        BY <2>2, <2>4, Paged DEF sessionOfTabs
      <3> QED
        BY <1>1, <1>2, <2>3, <3>1, MoveStarted, MovesUnmoved, Sequels
    <2> QED
      BY <2>4, <2>5, <2>6, WithinSession DEF TabsInv, sessionOfTabs
  <1> QED
    BY <1>3, <1>4

LEMMA TabsCleared == ASSUME TabsInv, NEW keep, ClearTabs(keep) PROVE TabsInv'
  <1> DEFINE rest == Showing(tabs, keep)
             to == IF rest = <<>> THEN HomeTab ELSE Last(rest).route
  <1>1. /\ \/ MoveTo(Destination(to), Update(rest)) /\ UNCHANGED tabs
           \/ tabs' = rest /\ UNCHANGED moves
        /\ UNCHANGED <<shown, sessionOfTabs>>
    BY DEF ClearTabs
  <1>2. rest \in Seq(OpenedTab)
    BY ShowingSome DEF TabsInv
  <1>3. to \in Routes \cup {HomeTab}
    <2> HIDE DEF rest
    <2>1. rest # <<>> => Last(rest) \in OpenedTab
      BY <1>2, EmptySeq, ElementOfSeq DEF Last
    <2> QED
      BY <2>1 DEF OpenedTab
  <1>4. Continues
    BY <1>1 DEF sessionOfTabs, Continues, TabsInv
  <1> HIDE DEF rest, to
  <1>5. MovesInv'
    <2>1. Destination(to) \in Routes \cup {HomeTab, "login"} /\ (inside' => Destination(to) # "login")
      BY <1>1, <1>3, Paged DEF sessionOfTabs
    <2> QED
      BY <1>1, <1>2, <1>4, <2>1, MoveStarted, MovesUnmoved, Sequels
  <1>6. tabs' \in Seq(OpenedTab)
    BY <1>1, <1>2 DEF TabsInv
  <1> QED
    BY <1>1, <1>5, <1>6, WithinSession DEF TabsInv, sessionOfTabs

LEMMA MoveEnded == ASSUME TabsInv, NEW k, EndMove(k) PROVE TabsInv'
  <1>1. k \in DOMAIN moves /\ moves[k] \in Move /\ moves' = RemoveAt(moves, k)
    BY ElementOfSeq DEF EndMove, TabsInv, MovesInv
  <1>2. Continues
    BY <1>1 DEF EndMove, TabsInv, Continues, Move
  <1>3. MovesInv'
    BY <1>1, <1>2, MoveTaken
  <1>4. tabs' \in Seq(OpenedTab')
    <2>1. CASE moves[k].then.kind = "update"
      <3>1. tabs' = moves[k].then.rest /\ (moves[k].stale => unchecked')
        BY <2>1 DEF EndMove
      <3>2. CASE moves[k].stale
        <4>1. OpenedTab' = [route : Routes, owner : TabUser \cup {Nobody}]
          BY <3>1, <3>2 DEF OpenedTab, Owners
        <4> QED
          BY <1>1, <3>1, <4>1 DEF Move, Sequel
      <3>3. CASE ~moves[k].stale
        BY <1>1, <1>2, <3>1, <3>3, OldTabs DEF TabsInv, MovesInv
      <3> QED
        BY <3>2, <3>3
    <2>2. CASE moves[k].then.kind # "update"
      <3>1. tabs' = tabs \/ (moves[k].to # "login" /\ tabs' = WithTab(tabs, moves[k].to))
        BY <2>2 DEF EndMove
      <3>2. moves[k].to # "login" => moves[k].to \in Routes \cup {HomeTab}
        BY <1>1 DEF Move
      <3>3. tabs' \in Seq(OpenedTab)
        BY <3>1, <3>2, TabAdded DEF TabsInv
      <3> QED
        BY <1>2, <3>3, OldTabs
    <2> QED
      BY <2>1, <2>2
  <1>5. globalTabs' \in Seq(OpenedTab')
    BY <1>2, OldTabs DEF EndMove, TabsInv
  <1>6. shown' \in Routes \cup {HomeTab, "login"} /\ (inside => shown' # "login")
    BY <1>1 DEF EndMove, TabsInv, MovesInv, Move
  <1> QED
    BY <1>2, <1>3, <1>4, <1>5, <1>6 DEF TabsInv, EndMove, Continues

LEMMA MoveFailed == ASSUME TabsInv, NEW k, ViewFails(k) PROVE TabsInv'
  <1>1. Continues
    BY DEF ViewFails, sessionOfTabs, Continues, TabsInv
  <1>2. MovesInv'
    BY <1>1, MoveTaken DEF ViewFails
  <1> QED
    BY <1>2, WithinSession DEF ViewFails, sessionOfTabs, TabsInv

LEMMA LoggedOut == ASSUME TabsInv, TabsLogout PROVE TabsInv'
  <1>1. Continues /\ ~inside'
    BY DEF TabsLogout, Continues, TabsInv
  <1>2. MovesInv'
    <2>1. "login" \in Routes \cup {HomeTab, "login"} /\ <<>> \in Seq(OpenedTab)
      BY EmptySeq
    <2> QED
      BY <1>1, <2>1, MoveStarted, MovesUnmoved, Sequels DEF TabsLogout
  <1>3. tabs' \in Seq(OpenedTab') /\ globalTabs' \in Seq(OpenedTab')
    BY <1>1, OldTabs DEF TabsLogout, TabsInv
  <1>4. /\ {account', userId', lastAccount'} \subseteq TabUser \cup {Nobody}
        /\ ~unchecked' => lastAccount' \in {account', Nobody}
    BY DEF TabsLogout, TabsInv
  <1> QED
    BY <1>1, <1>2, <1>3, <1>4 DEF TabsLogout, TabsInv, Continues

LEMMA LoggedIn ==
    ASSUME TabsInv, NEW u \in TabUser, TabsLogin(u) \/ LateLogin(u) PROVE TabsInv'
  <1>1. /\ Entering(u) /\ u # Nobody /\ shown' = HomeTab /\ HomeTab # "login"
    BY TabsAssumption DEF TabsLogin, LateLogin, Mounted
  <1>2. MovesInv'
    <2>1. /\ DOMAIN moves = 1 .. Len(moves) /\ Len(moves) \in Nat
          /\ \A k \in DOMAIN moves : moves[k] \in Move /\ moves[k].to # "login"
      BY <1>1, ElementOfSeq DEF TabsInv, MovesInv, Entering
    <2>2. /\ DOMAIN moves' = DOMAIN moves
          /\ \A k \in DOMAIN moves : moves'[k] = [moves[k] EXCEPT !.stale = TRUE]
      BY <1>1 DEF Entering
    <2>3. ASSUME NEW k \in DOMAIN moves'
          PROVE  moves'[k] \in Move /\ moves'[k].stale /\ moves'[k].to # "login"
      <3>1. moves'[k] = [moves[k] EXCEPT !.stale = TRUE] /\ moves[k] \in Move /\ moves[k].to # "login"
        BY <2>1, <2>2
      <3> QED
        BY <3>1 DEF Move
    <2>4. moves' \in Seq(Move)
      <3>1. moves' = [k \in 1 .. Len(moves) |-> [moves[k] EXCEPT !.stale = TRUE]]
        BY <1>1, <2>1 DEF Entering
      <3> QED
        BY <2>1, <2>2, <2>3, <3>1, SeqDef
    <2> QED
      BY <2>3, <2>4 DEF MovesInv, Move
  <1>3. /\ {account', userId', lastAccount'} \subseteq TabUser \cup {Nobody}
        /\ {unchecked', inside'} \subseteq BOOLEAN /\ infoDue' \subseteq TabUser
        /\ ~unchecked' => lastAccount' \in {account', Nobody}
    BY <1>1 DEF TabsInv, TabsLogin, LateLogin, Entering
  <1>4. tabs' \in Seq(OpenedTab') /\ globalTabs' \in Seq(OpenedTab')
    <2>1. CASE tabs' = <<>> /\ globalTabs' = <<>>
      BY <2>1, EmptySeq
    <2>2. CASE /\ Mounted(globalTabs, u) /\ UNCHANGED globalTabs
               /\ unchecked' = (unchecked \/ lastAccount # u)
      <3>1. OpenedTab \subseteq OpenedTab'
        BY <1>1, <2>2 DEF TabsInv, OpenedTab, Owners, Entering
      <3>2. \A s \in Seq(OpenedTab) : s \in Seq(OpenedTab')
        BY <3>1, SeqDef
      <3>3. tabs' \in Seq(OpenedTab)
        BY <2>2, ShowingSome DEF TabsInv, Mounted
      <3> QED
        BY <2>2, <3>2, <3>3 DEF TabsInv
    <2> QED
      BY <2>1, <2>2 DEF TabsInv, TabsLogin, LateLogin
  <1> QED
    BY <1>1, <1>2, <1>3, <1>4 DEF TabsInv, Entering

LEMMA PageReloaded == ASSUME TabsInv, TabsReload PROVE TabsInv'
  <1>1. Continues /\ shown \in Routes \cup {HomeTab}
    BY DEF TabsReload, TabClick, Continues, TabsInv
  <1>2. MovesInv'
    BY EmptySeq DEF TabsReload, MovesInv, Move
  <1>3. tabs' \in Seq(OpenedTab)
    <2>1. Showing(tabs, TabRoutes[account]) \in Seq(OpenedTab)
      BY ShowingSome DEF TabsInv
    <2> QED
      BY <1>1, <2>1, TabAdded, EmptySeq DEF TabsReload
  <1>4. tabs' \in Seq(OpenedTab') /\ globalTabs' \in Seq(OpenedTab')
    <2>1. globalTabs' \in Seq(OpenedTab)
      BY EmptySeq DEF TabsReload, TabsInv
    <2> QED
      BY <1>1, <1>3, <2>1, OldTabs
  <1> QED
    BY <1>1, <1>2, <1>4, TabsAssumption DEF TabsReload, TabsInv

LEMMA TabsStep == TabsInv /\ [TabsNext]_tabsVars => TabsInv'
  <1> SUFFICES ASSUME TabsInv, [TabsNext]_tabsVars PROVE TabsInv'
    OBVIOUS
  <1>1. CASE CloseMany
    BY <1>1, TabsCleared DEF CloseMany
  <1>2. CASE UNCHANGED tabsVars
    <2>1. Continues
      BY <1>2 DEF tabsVars, Continues, TabsInv
    <2> QED
      BY <1>2, <2>1, MovesUnmoved, WithinSession DEF tabsVars, TabsInv
  <1>3. ASSUME NEW u \in TabUser, LateInfo(u) PROVE TabsInv'
    <2>1. Continues
      BY <1>3 DEF LateInfo, Continues, TabsInv
    <2>2. MovesInv' /\ tabs' \in Seq(OpenedTab') /\ globalTabs' \in Seq(OpenedTab')
      BY <1>3, <2>1, MovesUnmoved, OldTabs DEF LateInfo, TabsInv
    <2> QED
      BY <1>3, <2>2 DEF LateInfo, TabsInv
  <1> QED
    BY <1>1, <1>2, <1>3, LoggedIn, LoggedOut, PageReloaded, TabsClicked, MoveEnded, MoveFailed
       DEF TabsNext

LEMMA TabsStart == TabsInit => TabsInv
  <1> SUFFICES ASSUME TabsInit PROVE TabsInv
    OBVIOUS
  <1>1. tabs \in Seq(OpenedTab) /\ globalTabs \in Seq(OpenedTab)
    BY EmptySeq DEF TabsInit
  <1>2. MovesInv
    BY EmptySeq DEF TabsInit, MovesInv
  <1> QED
    BY <1>1, <1>2 DEF TabsInit, TabsInv

(* Nobody is shown the tabs of another account, through logouts that wait  *)
(* for the login page, reloads, tabs in local storage, views that do not   *)
(* load and closings that wait for one, except past checkTabClear: after a *)
(* login whose user information came late, after an end of session that    *)
(* recorded another account, and when a closing of an earlier session      *)
(* resumes.                                                                *)
THEOREM TabsStayWithAccount == TabsSpec => []TabsOfAccount
  <1>1. TabsInit => TabsInv
    BY TabsStart
  <1>2. TabsInv => TabsOfAccount
    <2> SUFFICES ASSUME TabsInv, ~unchecked, NEW i \in DOMAIN tabs
                 PROVE  tabs[i].owner = account
      BY DEF TabsOfAccount
    <2>1. tabs[i] \in OpenedTab
      BY ElementOfSeq DEF TabsInv
    <2> QED
      BY <2>1 DEF OpenedTab, Owners
  <1> QED
    BY <1>1, <1>2, TabsStep, PTL DEF TabsSpec

-----------------------------------------------------------------------------
(* The chat page.  A question is on its way to the server once, or         *)
(* answered once in one history; no number is used before it is typed.     *)
Query == [kind : {"ask", "stop"}, question : Nat, conversation : Nat, open : BOOLEAN]

AskedTwice(qs) ==
    \E i, j \in DOMAIN qs : i # j /\ qs[i].question # 0 /\ qs[i].question = qs[j].question

AnsweredTwice(h) ==
    \E c, d \in Conversation : \E i \in DOMAIN h[c], j \in DOMAIN h[d] :
        h[c][i] # 0 /\ h[c][i] = h[d][j] /\ ~(c = d /\ i = j)

AskedAndAnswered(qs, h) ==
    \E i \in DOMAIN qs, c \in Conversation :
        qs[i].question # 0 /\ \E j \in DOMAIN h[c] : h[c][j] = qs[i].question

Placed(qs, h, n) ==
    /\ qs \in Seq(Query) /\ h \in [Conversation -> Seq(Nat)] /\ n \in Nat
    /\ \A i \in DOMAIN qs : qs[i].question <= n
    /\ \A c \in Conversation : \A i \in DOMAIN h[c] : h[c][i] <= n
    /\ ~AskedTwice(qs) /\ ~AnsweredTwice(h) /\ ~AskedAndAnswered(qs, h)

ChatClientInv ==
    /\ conversationId \in Conversation \cup {New}
    /\ conversations \in Seq(Conversation) /\ order \in Seq(Conversation)
    /\ Placed(queries, history, questions)

(* Some of the queries rs, those at the positions K, each once.            *)
Some(qs, rs, K) ==
    \E f \in [DOMAIN qs -> K] :
        /\ \A k, l \in DOMAIN qs : f[k] = f[l] => k = l
        /\ \A k \in DOMAIN qs : qs[k].question = rs[f[k]].question

LEMMA OneRemoved ==
    ASSUME NEW rs \in Seq(Query), NEW i \in DOMAIN rs
    PROVE  RemoveAt(rs, i) \in Seq(Query) /\ Some(RemoveAt(rs, i), rs, DOMAIN rs \ {i})
  <1> DEFINE qs == RemoveAt(rs, i)
             f == [k \in DOMAIN qs |-> IF k < i THEN k ELSE k + 1]
  <1>1. Len(rs) \in Nat /\ DOMAIN rs = 1 .. Len(rs)
    BY ElementOfSeq
  <1>2. /\ qs \in Seq(Query) /\ DOMAIN qs = 1 .. Len(rs) - 1
        /\ \A k \in DOMAIN qs : qs[k] = IF k < i THEN rs[k] ELSE rs[k + 1]
    <2>1. /\ qs \in Seq(Query) /\ Len(qs) = Len(rs) - 1
          /\ \A k \in 1 .. Len(rs) - 1 : qs[k] = IF k < i THEN rs[k] ELSE rs[k + 1]
      BY <1>1, Removing
    <2> HIDE DEF qs
    <2> QED
      BY <2>1, ElementOfSeq
  <1> HIDE DEF qs
  <1>3. f \in [DOMAIN qs -> DOMAIN rs \ {i}]
    BY <1>1, <1>2
  <1>4. \A k, l \in DOMAIN qs : f[k] = f[l] => k = l
    BY <1>1, <1>2
  <1>5. \A k \in DOMAIN qs : qs[k].question = rs[f[k]].question
    BY <1>2
  <1> HIDE DEF f
  <1> QED
    BY <1>2, <1>3, <1>4, <1>5 DEF Some, qs

LEMMA SomeFiltered ==
    ASSUME NEW rs, NEW K, NEW qs \in Seq(Query), Some(qs, rs, K), NEW P \in SUBSET DOMAIN qs
    PROVE  Filtered(qs, P) \in Seq(Query) /\ Some(Filtered(qs, P), rs, K)
  <1>1. PICK f \in [DOMAIN qs -> K] :
            /\ \A k, l \in DOMAIN qs : f[k] = f[l] => k = l
            /\ \A k \in DOMAIN qs : qs[k].question = rs[f[k]].question
    BY DEF Some
  <1> DEFINE ps == Filtered(qs, P)
             g == [k \in DOMAIN ps |-> f[Nth(P, k)]]
  <1>2. /\ ps \in Seq(Query)
        /\ \A k \in DOMAIN ps : Nth(P, k) \in DOMAIN qs /\ ps[k] = qs[Nth(P, k)]
        /\ \A k, l \in DOMAIN ps : Nth(P, k) = Nth(P, l) => k = l
    BY Filtering
  <1> HIDE DEF ps
  <1>3. g \in [DOMAIN ps -> K]
    BY <1>1, <1>2
  <1>4. /\ \A k, l \in DOMAIN ps : g[k] = g[l] => k = l
        /\ \A k \in DOMAIN ps : ps[k].question = rs[g[k]].question
    BY <1>1, <1>2
  <1> HIDE DEF g
  <1> QED
    BY <1>2, <1>3, <1>4 DEF Some, ps

LEMMA SomeAsked ==
    ASSUME NEW rs, NEW h, NEW n, Placed(rs, h, n), NEW K \in SUBSET DOMAIN rs,
           NEW qs \in Seq(Query), Some(qs, rs, K)
    PROVE  Placed(qs, h, n)
  <1>1. PICK f \in [DOMAIN qs -> K] :
            /\ \A k, l \in DOMAIN qs : f[k] = f[l] => k = l
            /\ \A k \in DOMAIN qs : qs[k].question = rs[f[k]].question
    BY DEF Some
  <1>2. \A k \in DOMAIN qs : f[k] \in DOMAIN rs
    BY <1>1
  <1>3. ~AskedTwice(qs)
    BY <1>1, <1>2 DEF Placed, AskedTwice
  <1>4. ~AskedAndAnswered(qs, h)
    <2> SUFFICES ASSUME NEW i \in DOMAIN qs, NEW c \in Conversation, qs[i].question # 0,
                        NEW j \in DOMAIN h[c], h[c][j] = qs[i].question
                 PROVE  FALSE
      BY DEF AskedAndAnswered
    <2>1. rs[f[i]].question = qs[i].question
      BY <1>1
    <2> QED
      BY <1>2, <2>1 DEF Placed, AskedAndAnswered
  <1>5. \A i \in DOMAIN qs : qs[i].question <= n
    <2>1. \A i \in DOMAIN rs : rs[i].question <= n
      BY DEF Placed
    <2> QED
      BY <1>1, <1>2, <2>1
  <1> QED
    BY <1>3, <1>4, <1>5 DEF Placed

LEMMA QueryAdded ==
    ASSUME NEW rs, NEW h, NEW n, Placed(rs, h, n), NEW m \in Nat, n <= m, NEW q \in Query,
           q.question = 0 \/ (n < m /\ q.question = m)
    PROVE  Placed(Append(rs, q), h, m)
  <1> DEFINE qs == Append(rs, q)
  <1>1. /\ rs \in Seq(Query) /\ Len(rs) \in Nat /\ DOMAIN rs = 1 .. Len(rs)
        /\ \A i \in DOMAIN rs : rs[i] \in Query /\ rs[i].question <= n
        /\ n \in Nat /\ h \in [Conversation -> Seq(Nat)]
    BY ElementOfSeq DEF Placed
  <1>2. /\ qs \in Seq(Query) /\ DOMAIN qs = 1 .. Len(rs) + 1
        /\ \A i \in 1 .. Len(rs) : qs[i] = rs[i]
        /\ qs[Len(rs) + 1] = q
    BY <1>1, AppendProperties
  <1> HIDE DEF qs
  <1>3. \A i \in DOMAIN qs : (i \in DOMAIN rs /\ qs[i] = rs[i]) \/ (i = Len(rs) + 1 /\ qs[i] = q)
    BY <1>1, <1>2
  <1>4. \A i \in DOMAIN rs : rs[i].question \in Nat /\ (rs[i].question = q.question => q.question = 0)
    BY <1>1 DEF Query
  <1>5. ~AskedTwice(qs)
    BY <1>3, <1>4 DEF Placed, AskedTwice
  <1>6. \A c \in Conversation : \A i \in DOMAIN h[c] :
            h[c][i] \in Nat /\ h[c][i] <= n /\ h[c][i] <= m
            /\ (h[c][i] = q.question => q.question = 0)
    <2> SUFFICES ASSUME NEW c \in Conversation, NEW i \in DOMAIN h[c]
                 PROVE  h[c][i] \in Nat /\ h[c][i] <= n /\ h[c][i] <= m
                        /\ (h[c][i] = q.question => q.question = 0)
      OBVIOUS
    <2>1. h[c][i] \in Nat /\ h[c][i] <= n
      BY <1>1, ElementOfSeq DEF Placed
    <2> QED
      BY <1>1, <2>1
  <1>7. ~AskedAndAnswered(qs, h)
    BY <1>3, <1>6 DEF Placed, AskedAndAnswered
  <1>8. \A i \in DOMAIN qs : qs[i].question <= m
    BY <1>1, <1>3, <1>4
  <1> QED
    BY <1>1, <1>2, <1>5, <1>6, <1>7, <1>8 DEF Placed, qs

(* The server takes a query away, with those a closed socket loses; what   *)
(* it answers goes from the query to one history.                          *)
LEMMA QueryTaken ==
    ASSUME ChatClientInv, NEW i \in DOMAIN queries, NEW failing, NEW a, Received(i, failing, a)
    PROVE  queries' \in Seq(Query) /\ Some(queries', queries, DOMAIN queries \ {i})
  <1> DEFINE rest == RemoveAt(queries, i)
  <1>1. rest \in Seq(Query) /\ Some(rest, queries, DOMAIN queries \ {i})
    BY OneRemoved DEF ChatClientInv, Placed
  <1>2. \/ queries' = rest
        \/ queries' = Filtered(rest, {j \in DOMAIN rest : ~rest[j].open})
    BY DEF Received
  <1> HIDE DEF rest
  <1>3. {j \in DOMAIN rest : ~rest[j].open} \in SUBSET DOMAIN rest
    OBVIOUS
  <1> QED
    BY <1>1, <1>2, <1>3, SomeFiltered

LEMMA QuestionAnswered ==
    ASSUME NEW rs, NEW h, NEW n, Placed(rs, h, n), NEW i \in DOMAIN rs,
           NEW qs \in Seq(Query), Some(qs, rs, DOMAIN rs \ {i}), NEW c \in Conversation
    PROVE  Placed(qs, [h EXCEPT ![c] = Append(@, rs[i].question)], n)
  <1> DEFINE q == rs[i].question
             g == [h EXCEPT ![c] = Append(@, q)]
  <1>1. rs[i] \in Query /\ q \in Nat /\ q <= n
    <2>1. rs[i] \in Query /\ rs[i].question <= n
      BY ElementOfSeq DEF Placed
    <2> QED
      BY <2>1 DEF Query
  <1>2. h \in [Conversation -> Seq(Nat)] /\ Len(h[c]) \in Nat /\ DOMAIN h[c] = 1 .. Len(h[c])
    BY ElementOfSeq DEF Placed
  <1>3. /\ g \in [Conversation -> Seq(Nat)] /\ DOMAIN g[c] = 1 .. Len(h[c]) + 1
        /\ g[c][Len(h[c]) + 1] = q /\ \A j \in 1 .. Len(h[c]) : g[c][j] = h[c][j]
        /\ \A d \in Conversation \ {c} : g[d] = h[d]
    <2>1. h[c] \in Seq(Nat)
      BY <1>2
    <2>2. /\ Append(h[c], q) \in Seq(Nat) /\ Len(Append(h[c], q)) = Len(h[c]) + 1
          /\ \A j \in 1 .. Len(h[c]) : Append(h[c], q)[j] = h[c][j]
          /\ Append(h[c], q)[Len(h[c]) + 1] = q
      BY <1>1, <2>1, AppendProperties
    <2>3. DOMAIN Append(h[c], q) = 1 .. Len(h[c]) + 1
      BY <2>2, ElementOfSeq
    <2>4. g[c] = Append(h[c], q) /\ \A d \in Conversation \ {c} : g[d] = h[d]
      BY <1>2
    <2>5. g \in [Conversation -> Seq(Nat)]
      BY <1>2, <2>2
    <2> HIDE DEF g, q
    <2> QED
      BY <2>2, <2>3, <2>4, <2>5
  <1>4. Placed(qs, h, n)
    BY SomeAsked
  <1>5. \A k \in DOMAIN qs : q # 0 => qs[k].question # q
    BY DEF Some, Placed, AskedTwice
  <1>6. \A d \in Conversation : \A j \in DOMAIN h[d] : q # 0 => h[d][j] # q
    BY DEF Placed, AskedAndAnswered
  <1> HIDE DEF g, q
  <1>7. \A d \in Conversation : \A j \in DOMAIN g[d] :
            \/ j \in DOMAIN h[d] /\ g[d][j] = h[d][j]
            \/ d = c /\ j = Len(h[c]) + 1 /\ g[d][j] = q
    <2> SUFFICES ASSUME NEW d \in Conversation, NEW j \in DOMAIN g[d]
                 PROVE  \/ j \in DOMAIN h[d] /\ g[d][j] = h[d][j]
                        \/ d = c /\ j = Len(h[c]) + 1 /\ g[d][j] = q
      OBVIOUS
    <2>1. CASE d # c
      BY <1>3, <2>1
    <2>2. CASE d = c
      <3>1. j \in 1 .. Len(h[c]) \/ j = Len(h[c]) + 1
        BY <1>2, <1>3, <2>2
      <3> QED
        BY <1>2, <1>3, <2>2, <3>1
    <2> QED
      BY <2>1, <2>2
  <1>8. ~AnsweredTwice(g)
    <2> SUFFICES ASSUME NEW d \in Conversation, NEW e \in Conversation,
                        NEW j \in DOMAIN g[d], NEW k \in DOMAIN g[e],
                        g[d][j] # 0, g[d][j] = g[e][k]
                 PROVE  d = e /\ j = k
      BY DEF AnsweredTwice
    <2>1. CASE j \in DOMAIN h[d] /\ g[d][j] = h[d][j]
      <3>1. k \in DOMAIN h[e] /\ g[e][k] = h[e][k]
        BY <1>6, <1>7, <2>1
      <3>2. h[d][j] # 0 /\ h[d][j] = h[e][k]
        BY <2>1, <3>1
      <3>3. ~AnsweredTwice(h)
        BY DEF Placed
      <3> QED
        BY <2>1, <3>1, <3>2, <3>3 DEF AnsweredTwice
    <2>2. CASE d = c /\ j = Len(h[c]) + 1 /\ g[d][j] = q
      BY <1>6, <1>7, <2>2
    <2> QED
      BY <1>7, <2>1, <2>2
  <1>9. ~AskedAndAnswered(qs, g)
    BY <1>4, <1>5, <1>7 DEF Placed, AskedAndAnswered
  <1>10. \A d \in Conversation : \A j \in DOMAIN g[d] : g[d][j] <= n
    BY <1>1, <1>4, <1>7 DEF Placed
  <1>11. Placed(qs, g, n)
    BY <1>3, <1>4, <1>8, <1>9, <1>10 DEF Placed
  <1> QED
    BY <1>11 DEF g, q

LEMMA ChatFrame ==
    ASSUME ChatClientInv, UNCHANGED <<queries, history, questions>>,
           conversationId' \in Conversation \cup {New},
           conversations' \in Seq(Conversation), order' \in Seq(Conversation)
    PROVE  ChatClientInv'
  BY DEF ChatClientInv

LEMMA Reopened == ASSUME ChatClientInv, Reopen PROVE Placed(queries', history, questions)
  <1>1. /\ queries \in Seq(Query) /\ Len(queries) \in Nat /\ DOMAIN queries = 1 .. Len(queries)
        /\ \A i \in DOMAIN queries : queries[i] \in Query
    BY ElementOfSeq DEF ChatClientInv, Placed
  <1>2. /\ queries' \in [1 .. Len(queries) -> Query]
        /\ \A i \in DOMAIN queries : queries'[i].question = queries[i].question
    BY <1>1 DEF Reopen, Query
  <1>3. queries' \in Seq(Query)
    BY <1>1, <1>2, SeqDef
  <1> DEFINE f == [i \in DOMAIN queries |-> i]
  <1>4. f \in [DOMAIN queries' -> DOMAIN queries]
    BY <1>1, <1>2
  <1>5. Some(queries', queries, DOMAIN queries)
    BY <1>1, <1>2, <1>4 DEF Some
  <1> QED
    BY <1>3, <1>5, SomeAsked DEF ChatClientInv

LEMMA MessageSent == ASSUME ChatClientInv, Stop \/ Send PROVE ChatClientInv'
  <1>0. conversationId \in Nat /\ questions \in Nat
    BY ChatClientAssumption DEF ChatClientInv, Placed, Conversation, New
  <1>1. CASE Stop
    <2>1. Sending("stop", 0) \in Query /\ Sending("stop", 0).question = 0
      BY <1>0 DEF Sending, Query
    <2>2. Placed(queries', history, questions)
      BY <1>0, <1>1, <2>1, QueryAdded DEF Stop, ChatClientInv
    <2> QED
      BY <1>1, <2>2 DEF ChatClientInv, Stop, chatServer
  <1>2. CASE Send
    <2>1. CASE typed
      <3> DEFINE q == Sending("ask", questions + 1)
      <3>1. q \in Query /\ q.question = questions + 1
        BY <1>0 DEF Sending, Query
      <3>2. queries' = Append(queries, q) /\ questions' = questions + 1
        BY <1>2, <2>1 DEF Send
      <3> HIDE DEF q
      <3>3. Placed(queries', history, questions')
        BY <1>0, <3>1, <3>2, QueryAdded DEF ChatClientInv
      <3> QED
        BY <1>2, <3>3 DEF ChatClientInv, Send, chatServer
    <2>2. CASE ~typed
      <3>1. Sending("ask", 0) \in Query /\ Sending("ask", 0).question = 0
        BY <1>0 DEF Sending, Query
      <3>2. queries' = Append(queries, Sending("ask", 0)) /\ questions' = questions
        BY <1>2, <2>2 DEF Send
      <3>3. Placed(queries', history, questions')
        BY <1>0, <3>1, <3>2, QueryAdded DEF ChatClientInv
      <3> QED
        BY <1>2, <3>3 DEF ChatClientInv, Send, chatServer
    <2> QED
      BY <2>1, <2>2
  <1> QED
    BY <1>1, <1>2

LEMMA QueryServed ==
    ASSUME ChatClientInv, NEW i \in DOMAIN queries, Serve(i) \/ ServeStop(i) \/ Lost(i)
    PROVE  ChatClientInv'
  <1>1. CASE Serve(i)
    <2>1. PICK failing \in BOOLEAN, n \in 0 .. MaxFrames, c \in Conversation :
              /\ \E a \in AnswerTo(failing, n) : Received(i, failing, a)
              /\ \/ UNCHANGED history
                 \/ history' = [history EXCEPT ![c] = Append(@, queries[i].question)]
              /\ order' = <<c>> \o Without(c) \/ UNCHANGED order
      BY <1>1 DEF Serve
    <2>2. queries' \in Seq(Query) /\ Some(queries', queries, DOMAIN queries \ {i})
      BY <2>1, QueryTaken
    <2>3. Placed(queries', history', questions)
      <3>1. Placed(queries, history, questions)
        BY DEF ChatClientInv
      <3>2. Placed(queries', history, questions)
        BY <2>2, <3>1, SomeAsked
      <3>3. Placed(queries', [history EXCEPT ![c] = Append(@, queries[i].question)], questions)
        BY <2>2, <3>1, QuestionAnswered
      <3> QED
        BY <2>1, <2>2, <3>1, <3>2, <3>3
    <2>4. order' \in Seq(Conversation)
      <3>1. Without(c) \in Seq(Conversation) /\ <<c>> \in Seq(Conversation)
        BY Filtering DEF Without, ChatClientInv
      <3> QED
        BY <2>1, <3>1, ConcatProperties DEF ChatClientInv
    <2> QED
      BY <1>1, <2>3, <2>4 DEF Serve, chatPage, ChatClientInv
  <1>2. CASE ServeStop(i)
    <2>1. queries' \in Seq(Query) /\ Some(queries', queries, DOMAIN queries \ {i})
      BY <1>2, QueryTaken DEF ServeStop
    <2>2. Placed(queries', history, questions)
      BY <2>1, SomeAsked DEF ChatClientInv
    <2> QED
      BY <1>2, <2>2 DEF ServeStop, chatPage, chatServer, ChatClientInv
  <1>3. CASE Lost(i)
    <2>1. queries' \in Seq(Query) /\ Some(queries', queries, DOMAIN queries \ {i})
      BY <1>3, OneRemoved DEF Lost, ChatClientInv, Placed
    <2>2. Placed(queries', history, questions)
      BY <2>1, SomeAsked DEF ChatClientInv
    <2> QED
      BY <1>3, <2>2 DEF Lost, chatPage, chatServer, ChatClientInv
  <1> QED
    BY <1>1, <1>2, <1>3

LEMMA ChatStep == ChatClientInv /\ [ChatNext]_chatVars => ChatClientInv'
  <1> SUFFICES ASSUME ChatClientInv, [ChatNext]_chatVars PROVE ChatClientInv'
    OBVIOUS
  <1>1. CASE Enter \/ MountPage
    <2>1. Placed(queries', history, questions)
      BY <1>1, Reopened DEF Enter, MountPage
    <2> QED
      BY <1>1, <2>1 DEF ChatClientInv, Enter, MountPage, chatPage, chatServer
  <1>2. CASE ReceiveFrame
    <2>1. conversationId' \in Conversation \cup {New}
      <3>1. \/ conversationId' = conversationId
            \/ conversations # <<>> /\ conversationId' = conversations[1]
        BY <1>2 DEF ReceiveFrame
      <3>2. conversations # <<>> => conversations[1] \in Conversation
        BY EmptySeq, ElementOfSeq DEF ChatClientInv
      <3> QED
        BY <3>1, <3>2 DEF ChatClientInv
    <2> QED
      BY <1>2, <2>1, ChatFrame DEF ReceiveFrame, chatServer, ChatClientInv
  <1>3. ASSUME NEW c \in Conversation, SelectConversation(c) \/ RemoveConversation(c)
        PROVE  ChatClientInv'
    BY <1>3, ChatFrame DEF SelectConversation, RemoveConversation, chatPage, chatServer, ChatClientInv
  <1>4. ASSUME NEW c \in selections, SelectReply(c) PROVE ChatClientInv'
    BY <1>4, ChatFrame DEF SelectReply, chatServer, ChatClientInv
  <1>5. ASSUME NEW c \in removals, RemoveReply(c) PROVE ChatClientInv'
    <2>1. Without(c) \in Seq(Conversation)
      BY Filtering DEF Without, ChatClientInv
    <2> QED
      BY <1>5, <2>1, ChatFrame DEF RemoveReply, ChatClientInv
  <1>6. CASE Type \/ LoadConversations \/ NewConversation \/ UNCHANGED chatVars
    BY <1>6, ChatFrame DEF Type, LoadConversations, NewConversation, chatVars, chatPage, chatServer,
                           ChatClientInv
  <1> QED
    BY <1>1, <1>2, <1>3, <1>4, <1>5, <1>6, MessageSent, QueryServed DEF ChatNext

LEMMA ChatStarts == ChatInit => ChatClientInv
  <1> SUFFICES ASSUME ChatInit PROVE ChatClientInv
    OBVIOUS
  <1>1. 1 \in Conversation
    BY ChatClientAssumption DEF Conversation
  <1>2. /\ order \in Seq(Conversation) /\ conversations = order /\ conversationId = New
        /\ queries = <<>> /\ questions = 0
    <2>1. <<>> \in Seq(Conversation) /\ <<1>> \in Seq(Conversation)
      BY <1>1
    <2> QED
      BY <2>1 DEF ChatInit
  <1>3. queries \in Seq(Query) /\ DOMAIN queries = {}
    BY <1>2, EmptySeq
  <1>4. /\ history \in [Conversation -> Seq(Nat)]
        /\ \A c \in Conversation : history[c] = <<0>> \/ history[c] = <<>>
    <2>1. <<0>> \in Seq(Nat) /\ <<>> \in Seq(Nat)
      OBVIOUS
    <2> QED
      BY <2>1 DEF ChatInit
  <1>5. \A c \in Conversation : \A i \in DOMAIN history[c] : history[c][i] = 0
    BY <1>4
  <1>6. ~AskedTwice(queries) /\ ~AskedAndAnswered(queries, history)
    BY <1>3 DEF AskedTwice, AskedAndAnswered
  <1>7. ~AnsweredTwice(history)
    BY <1>5 DEF AnsweredTwice
  <1> QED
    BY <1>2, <1>3, <1>4, <1>5, <1>6, <1>7 DEF ChatClientInv, Placed

(* A question is sent in one message and answered in one history at most,  *)
(* whenever Enter is pressed again while the socket is opened, and however *)
(* messages are lost with their socket.                                    *)
THEOREM QuestionsSentOnce == ChatSpec => []QuestionSentOnce
  <1>1. ChatClientInv => QuestionSentOnce
    <2> SUFFICES ASSUME ChatClientInv, NEW q \in Question
                 PROVE  Cardinality({i \in DOMAIN queries : queries[i].question = q})
                        + Cardinality({p \in Conversation \X (1 .. MaxQuestion + MaxSends) :
                               p[2] \in DOMAIN history[p[1]] /\ history[p[1]][p[2]] = q}) <= 1
      BY DEF QuestionSentOnce
    <2> DEFINE A == {i \in DOMAIN queries : queries[i].question = q}
               B == {p \in Conversation \X (1 .. MaxQuestion + MaxSends) :
                         p[2] \in DOMAIN history[p[1]] /\ history[p[1]][p[2]] = q}
    <2>1. q # 0
      BY DEF Question
    <2>2. \A i, j \in A : i = j
      BY <2>1 DEF ChatClientInv, Placed, AskedTwice
    <2>3. \A p, r \in B : p = r
      <3> SUFFICES ASSUME NEW p \in B, NEW r \in B PROVE p = r
        OBVIOUS
      <3>1. /\ p = <<p[1], p[2]>> /\ p[1] \in Conversation /\ p[2] \in DOMAIN history[p[1]]
            /\ history[p[1]][p[2]] = q
        OBVIOUS
      <3>2. /\ r = <<r[1], r[2]>> /\ r[1] \in Conversation /\ r[2] \in DOMAIN history[r[1]]
            /\ history[r[1]][r[2]] = q
        OBVIOUS
      <3> HIDE DEF B
      <3>3. p[1] = r[1] /\ p[2] = r[2]
        BY <2>1, <3>1, <3>2 DEF ChatClientInv, Placed, AnsweredTwice
      <3> QED
        BY <3>1, <3>2, <3>3
    <2>4. A = {} \/ B = {}
      BY <2>1 DEF ChatClientInv, Placed, AskedAndAnswered
    <2> HIDE DEF A, B
    <2>5. ASSUME NEW S, \A x, y \in S : x = y PROVE Cardinality(S) \in {0, 1}
      <3>1. CASE S = {}
        BY <3>1, FS_EmptySet
      <3>2. CASE S # {}
        <4>1. PICK x : S = {x}
          BY <2>5, <3>2
        <4> QED
          BY <4>1, FS_Singleton
      <3> QED
        BY <3>1, <3>2
    <2>6. Cardinality(A) \in {0, 1} /\ Cardinality(B) \in {0, 1}
      BY <2>2, <2>3, <2>5
    <2>7. Cardinality(A) = 0 \/ Cardinality(B) = 0
      BY <2>4, FS_EmptySet
    <2>8. Cardinality(A) + Cardinality(B) <= 1
      BY <2>6, <2>7
    <2> QED
      BY <2>8 DEF A, B
  <1> QED
    BY <1>1, ChatStarts, ChatStep, PTL DEF ChatSpec
=============================================================================
