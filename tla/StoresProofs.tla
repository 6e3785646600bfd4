---------------------------- MODULE StoresProofs ----------------------------
(***************************************************************************)
(* What the operators of Stores do to the stores, for the proofs about the *)
(* components that call them: each keeps the type of its store, changes    *)
(* the rows it names and leaves the others.                                *)
(***************************************************************************)
EXTENDS Stores, FiniteSetTheorems, TLAPS

LEMMA NoRowTyped == NoRow \in Row /\ ~Present(NoRow)
  BY NonemptyAssumption DEF NoRow, Row, VStatus, Present

-----------------------------------------------------------------------------
(* The two updates of the status shown for a document.                     *)
LEMMA VectorizedStatusUpdate ==
    ASSUME fileUpload \in [Key -> Row], NEW u \in User, NEW f \in File,
           NEW vst \in VStatus, UpdateVectorizedStatus(u, f, vst)
    PROVE  /\ fileUpload' \in [Key -> Row]
           /\ \A k \in Key : /\ fileUpload'[k].id = fileUpload[k].id
                             /\ fileUpload'[k].vis = fileUpload[k].vis
                             /\ fileUpload'[k].status = fileUpload[k].status
           /\ \A k \in Key \ {<<u, f>>} : fileUpload'[k] = fileUpload[k]
           /\ Present(fileUpload[<<u, f>>]) => fileUpload'[<<u, f>>].vstatus = vst
           /\ ~Present(fileUpload[<<u, f>>]) => fileUpload' = fileUpload
  <1>1. <<u, f>> \in Key
    BY DEF Key
  <1>2. CASE Present(fileUpload[<<u, f>>])
    <2> DEFINE new == [fileUpload[<<u, f>>] EXCEPT !.vstatus = vst]
    <2>1. fileUpload[<<u, f>>] \in Row
      BY <1>1
    <2>2. /\ new \in Row /\ new.vstatus = vst
          /\ new.id = fileUpload[<<u, f>>].id
          /\ new.vis = fileUpload[<<u, f>>].vis
          /\ new.status = fileUpload[<<u, f>>].status
      BY <2>1 DEF Row
    <2>3. fileUpload' = [fileUpload EXCEPT ![<<u, f>>] = new]
      BY <1>2 DEF UpdateVectorizedStatus
    <2> QED
      BY <1>1, <1>2, <2>2, <2>3 DEF new
  <1>3. CASE ~Present(fileUpload[<<u, f>>])
    BY <1>3 DEF UpdateVectorizedStatus
  <1> QED
    BY <1>2, <1>3

LEMMA VectorizedUpdate ==
    ASSUME fileUpload \in [Key -> Row], NEW u \in User, NEW f \in File,
           NEW vst \in VStatus, NEW n \in Nat, UpdateVectorized(u, f, vst, n)
    PROVE  /\ fileUpload' \in [Key -> Row]
           /\ \A k \in Key : /\ fileUpload'[k].id = fileUpload[k].id
                             /\ fileUpload'[k].vis = fileUpload[k].vis
                             /\ fileUpload'[k].status = fileUpload[k].status
           /\ \A k \in Key \ {<<u, f>>} : fileUpload'[k] = fileUpload[k]
           /\ Present(fileUpload[<<u, f>>]) =>
                  /\ fileUpload'[<<u, f>>].vstatus = vst
                  /\ fileUpload'[<<u, f>>].actual = n
           /\ ~Present(fileUpload[<<u, f>>]) => fileUpload' = fileUpload
  <1>1. <<u, f>> \in Key
    BY DEF Key
  <1>2. CASE Present(fileUpload[<<u, f>>])
    <2> DEFINE new == [fileUpload[<<u, f>>] EXCEPT !.vstatus = vst, !.actual = n]
    <2>1. fileUpload[<<u, f>>] \in Row
      BY <1>1
    <2>2. /\ new \in Row /\ new.vstatus = vst /\ new.actual = n
          /\ new.id = fileUpload[<<u, f>>].id
          /\ new.vis = fileUpload[<<u, f>>].vis
          /\ new.status = fileUpload[<<u, f>>].status
      BY <2>1 DEF Row
    <2>3. fileUpload' = [fileUpload EXCEPT ![<<u, f>>] = new]
      BY <1>1, <1>2, <2>1 DEF UpdateVectorized, Row
    <2> QED
      BY <1>1, <1>2, <2>2, <2>3 DEF new
  <1>3. CASE ~Present(fileUpload[<<u, f>>])
    BY <1>3 DEF UpdateVectorized
  <1> QED
    BY <1>2, <1>3

-----------------------------------------------------------------------------
(* What a function makes of the elements of a finite set is finite.        *)
LEMMA FiniteImage ==
    ASSUME NEW S, IsFiniteSet(S), NEW T, NEW g \in [S -> T],
           \A t \in T : \E x \in S : g[x] = t
    PROVE  IsFiniteSet(T)
  BY FS_Surjection DEF Surjection

-----------------------------------------------------------------------------
(* document_vectors: a table of row contents and their number.             *)
Table ==
    /\ DOMAIN vectors \subseteq VectorRow /\ vectors \in [DOMAIN vectors -> Nat]
    /\ IsFiniteSet(DOMAIN vectors)

LEMMA RowsCreated ==
    ASSUME Table, NEW rows \in SUBSET VectorRow, IsFiniteSet(rows), BatchCreate(rows)
    PROVE  /\ Table'
           /\ DOMAIN vectors' = DOMAIN vectors \cup rows
           /\ \A r \in rows \ DOMAIN vectors : vectors'[r] = 1
           /\ \A r \in DOMAIN vectors \ rows : vectors'[r] = vectors[r]
  <1>1. /\ DOMAIN vectors' = DOMAIN vectors \cup rows
        /\ vectors' \in [DOMAIN vectors' -> Nat]
        /\ \A r \in rows \ DOMAIN vectors : vectors'[r] = 1
        /\ \A r \in DOMAIN vectors \ rows : vectors'[r] = vectors[r]
    BY DEF Table, BatchCreate
  <1>2. IsFiniteSet(DOMAIN vectors \cup rows)
    BY FS_Union DEF Table
  <1> QED
    BY <1>1, <1>2 DEF Table

LEMMA UserRowsDeleted ==
    ASSUME Table, NEW u, NEW f, DeleteByFileMD5AndUser(u, f)
    PROVE  /\ Table'
           /\ DOMAIN vectors' = DOMAIN vectors \ RowsOf(u, f)
           /\ \A r \in DOMAIN vectors' : vectors'[r] = vectors[r]
  <1>1. /\ DOMAIN vectors' \subseteq DOMAIN vectors
        /\ DOMAIN vectors' = DOMAIN vectors \ RowsOf(u, f)
        /\ vectors' \in [DOMAIN vectors' -> Nat]
        /\ \A r \in DOMAIN vectors' : vectors'[r] = vectors[r]
    BY DEF Table, DeleteByFileMD5AndUser
  <1>2. IsFiniteSet(DOMAIN vectors')
    BY <1>1, FS_Subset DEF Table
  <1> QED
    BY <1>1, <1>2 DEF Table

LEMMA FileRowsDeleted ==
    ASSUME Table, NEW f, DeleteByFileMD5(f)
    PROVE  /\ Table'
           /\ DOMAIN vectors' = {r \in DOMAIN vectors : r.file # f}
           /\ \A r \in DOMAIN vectors' : vectors'[r] = vectors[r]
  <1>1. /\ DOMAIN vectors' \subseteq DOMAIN vectors
        /\ DOMAIN vectors' = {r \in DOMAIN vectors : r.file # f}
        /\ vectors' \in [DOMAIN vectors' -> Nat]
        /\ \A r \in DOMAIN vectors' : vectors'[r] = vectors[r]
    BY DEF Table, DeleteByFileMD5
  <1>2. IsFiniteSet(DOMAIN vectors')
    BY <1>1, FS_Subset DEF Table
  <1> QED
    BY <1>1, <1>2 DEF Table

(* Kafka: the task is appended to one partition.                           *)
LEMMA TaskProduced ==
    ASSUME topic \in [Partition -> Seq(Task)], NEW task \in Task, ProduceFileTask(task)
    PROVE  \E p \in Partition :
              /\ topic' = [topic EXCEPT ![p] = Append(@, task)]
              /\ topic' \in [Partition -> Seq(Task)]
              /\ Len(topic'[p]) = Len(topic[p]) + 1 /\ topic'[p][Len(topic[p]) + 1] = task
              /\ \A o \in 1 .. Len(topic[p]) : topic'[p][o] = topic[p][o]
              /\ \A q \in Partition \ {p} : topic'[q] = topic[q]
  <1>1. PICK p \in Partition : topic' = [topic EXCEPT ![p] = Append(@, task)]
    BY DEF ProduceFileTask
  <1>2. topic[p] \in Seq(Task)
    OBVIOUS
  <1>3. /\ Append(topic[p], task) \in Seq(Task)
        /\ Len(Append(topic[p], task)) = Len(topic[p]) + 1
        /\ Append(topic[p], task)[Len(topic[p]) + 1] = task
        /\ \A o \in 1 .. Len(topic[p]) : Append(topic[p], task)[o] = topic[p][o]
    BY <1>2
  <1> QED
    BY <1>1, <1>3
=============================================================================
