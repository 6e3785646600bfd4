---------------------------- MODULE DocumentProofs ----------------------------
(***************************************************************************)
(* Theorems about Document for any number of users, files and concurrent   *)
(* deletions: reference counting never removes what a user still has a     *)
(* record of, and leaves nothing behind when the last record is gone.      *)
(* Both need the count and the removals to succeed: an error of the count  *)
(* is taken for "no reference left", one of a removal is only logged.      *)
(***************************************************************************)
EXTENDS Document, StoresProofs

(* The initial library gives every record an id of its own.                *)
EnoughIds == \E g \in [Key -> 1 .. MaxId] : \A k, l \in Key : g[k] = g[l] => k = l

StoresAnswer == "CountReferences" \notin Faulty /\ "Removal" \notin Faulty

-----------------------------------------------------------------------------
(* A deletion past the count has seen that no record of its file is left,  *)
(* and nobody creates one; what a file without a record leaves in a store  *)
(* is still ahead of some deletion.                                        *)
RemovalPc == {"object", "vectors", "index"}
Unreferenced(f) == FindBatchByMD5s(f) = {}
Ahead(f, pcs) == \E d \in Deleter : deletion[d].file = f /\ deletion[d].pc \in pcs

RowsPresent ==
    \A k \in Key : ~Present(fileUpload[k]) =>
        fileUpload[k].status # 1 /\ fileUpload[k].vstatus # "success"

CountedUnreferenced ==
    \A d \in Deleter : deletion[d].pc \in RemovalPc => Unreferenced(deletion[d].file)

LeftoversAhead ==
    \A f \in File : Unreferenced(f) =>
        /\ f \in mergedObject => Ahead(f, {"references", "object"})
        /\ \A r \in DOMAIN vectors : r.file = f =>
              Ahead(f, {"references", "object", "vectors"})
        /\ \A x \in es : x.file = f =>
              Ahead(f, {"references", "object", "vectors", "index"})

DeletionTyped ==
    /\ fileUpload \in [Key -> Row]
    /\ DOMAIN vectors \subseteq VectorRow
    /\ deletion \in [Deleter -> [pc : {"none", "record", "references"} \cup RemovalPc,
                                 user : User, file : File]]

DeletionInv ==
    /\ DeletionTyped
    /\ RowsPresent
    /\ ReferencedKept
    /\ CountedUnreferenced
    /\ LeftoversAhead

-----------------------------------------------------------------------------
LEMMA NoDeletionTyped ==
    /\ NoDeletion \in [pc : {"none", "record", "references"} \cup RemovalPc,
                       user : User, file : File]
    /\ NoDeletion.pc = "none"
  BY NonemptyAssumption DEF NoDeletion

LEMMA LibraryInv ==
    ASSUME EnoughIds, DeletionInit, NEW K \in SUBSET Key, Library(K)
    PROVE  DeletionInv
  <1> DEFINE Full(k) == [id |-> Ids[k], status |-> 1, vstatus |-> "success",
                         vis |-> NoRow.vis, actual |-> 1]
  <1>0. Ids \in [Key -> 1 .. MaxId]
    BY DEF EnoughIds, Ids
  <1>1. \A k \in Key : Full(k) \in Row /\ Present(Full(k))
    BY <1>0, NoRowTyped, BoundAssumption DEF Row, VStatus, Present
  <1>2. /\ fileUpload \in [Key -> Row]
        /\ \A k \in Key : fileUpload[k] = IF k \in K THEN Full(k) ELSE NoRow
    <2>1. fileUpload = [k \in Key |-> IF k \in K THEN Full(k) ELSE NoRow]
      BY DEF Library
    <2> HIDE DEF Full
    <2> QED
      BY <1>1, <2>1, NoRowTyped
  <1>3. NoRow.status = 0 /\ NoRow.vstatus = "pending"
    BY DEF NoRow
  <1> HIDE DEF Full
  <1>4. /\ DOMAIN vectors = Processed(K) /\ es = Processed(K)
        /\ mergedObject = {f \in File : \E u \in User : <<u, f>> \in K}
    BY DEF Library
  <1>5. Processed(K) \subseteq VectorRow
    BY NoRowTyped DEF Processed, VectorRow, Key, Row
  <1>6. DeletionTyped
    BY <1>2, <1>4, <1>5, NoDeletionTyped DEF DeletionTyped, DeletionInit
  <1>7. RowsPresent
    BY <1>1, <1>2, <1>3 DEF RowsPresent
  <1>8. ReferencedKept
    <2>1. ASSUME NEW u \in User, NEW f \in File, Present(fileUpload[<<u, f>>])
          PROVE  f \in mergedObject /\ RowsOf(u, f) # {} /\ RowsOf(u, f) \subseteq es
      <3>1. <<u, f>> \in K
        BY <1>2, <2>1, NoRowTyped DEF Key
      <3>2. [user |-> <<u, f>>[1], file |-> <<u, f>>[2], chunk |-> 0, vis |-> NoRow.vis]
                \in Processed(K)
        BY <3>1 DEF Processed
      <3>3. \E r \in Processed(K) : r.user = u /\ r.file = f
        BY <3>2
      <3> QED
        BY <1>4, <3>1, <3>3 DEF RowsOf
    <2>2. ASSUME NEW u \in User, NEW f \in File,
                 \/ fileUpload[<<u, f>>].status = 1
                 \/ fileUpload[<<u, f>>].vstatus = "success"
          PROVE  Present(fileUpload[<<u, f>>])
      <3>1. <<u, f>> \in Key
        BY DEF Key
      <3> QED
        BY <1>7, <2>2, <3>1 DEF RowsPresent
    <2> QED
      BY <2>1, <2>2 DEF ReferencedKept
  <1>9. CountedUnreferenced
    BY NoDeletionTyped DEF DeletionInit, CountedUnreferenced, RemovalPc
  <1>10. LeftoversAhead
    <2>1. ASSUME NEW f \in File, NEW k \in K, k[2] = f PROVE ~Unreferenced(f)
      <3>1. k \in Key /\ k = <<k[1], f>> /\ k[1] \in User
        BY <2>1 DEF Key
      <3>2. Present(fileUpload[<<k[1], f>>])
        BY <1>1, <1>2, <3>1
      <3> QED
        BY <3>1, <3>2 DEF Unreferenced, FindBatchByMD5s
    <2>2. \A r \in Processed(K) : \E k \in K : k[2] = r.file
      BY DEF Processed
    <2>3. ASSUME NEW f \in mergedObject PROVE \E k \in K : k[2] = f
      <3>1. PICK u \in User : <<u, f>> \in K
        BY <1>4
      <3>2. <<u, f>>[2] = f
        OBVIOUS
      <3> QED
        BY <3>1, <3>2
    <2> QED
      BY <1>4, <2>1, <2>2, <2>3 DEF LeftoversAhead
  <1> QED
    BY <1>6, <1>7, <1>8, <1>9, <1>10 DEF DeletionInv

-----------------------------------------------------------------------------
(* A deletion that moves on, or returns, touches no other deletion.        *)
LEMMA DeletionMoves ==
    ASSUME DeletionTyped, NEW d \in Deleter,
           NEW pc \in {"references"} \cup RemovalPc, DeletesNext(d, pc)
    PROVE  /\ deletion' \in [Deleter -> [pc : {"none", "record", "references"}
                                  \cup RemovalPc, user : User, file : File]]
           /\ deletion'[d].pc = pc /\ deletion'[d].file = deletion[d].file
           /\ \A x \in Deleter \ {d} : deletion'[x] = deletion[x]
  BY DEF DeletionTyped, DeletesNext

LEMMA DeletionEnds ==
    ASSUME DeletionTyped, NEW d \in Deleter, DeleteReturns(d)
    PROVE  /\ deletion' \in [Deleter -> [pc : {"none", "record", "references"}
                                  \cup RemovalPc, user : User, file : File]]
           /\ deletion'[d].pc = "none"
           /\ \A x \in Deleter \ {d} : deletion'[x] = deletion[x]
  BY NoDeletionTyped DEF DeletionTyped, DeleteReturns

(* What is ahead of a deletion stays ahead when it does not pass it.       *)
LEMMA AheadKept ==
    ASSUME NEW f, NEW pcs, NEW d \in Deleter, Ahead(f, pcs),
           \A x \in Deleter \ {d} : deletion'[x] = deletion[x],
           deletion[d].file = f /\ deletion[d].pc \in pcs =>
               deletion'[d].file = f /\ deletion'[d].pc \in pcs
    PROVE  Ahead(f, pcs)'
  BY DEF Ahead

LEMMA DeleteDocumentInv ==
    ASSUME DeletionInv, NEW d \in Deleter, NEW u \in User, NEW f \in File,
           DeleteDocument(d, u, f)
    PROVE  DeletionInv'
  <1>1. /\ UNCHANGED <<fileUpload, mergedObject, vectors, es>>
        /\ deletion[d].pc = "none"
        /\ deletion' = [deletion EXCEPT ![d] = [pc |-> "record", user |-> u, file |-> f]]
    BY DEF DeleteDocument, Deletes, storeVars, uploadStores
  <1>2. DeletionTyped' /\ deletion'[d].pc = "record"
        /\ \A x \in Deleter \ {d} : deletion'[x] = deletion[x]
    BY <1>1 DEF DeletionInv, DeletionTyped
  <1>3. RowsPresent' /\ ReferencedKept'
    BY <1>1 DEF DeletionInv, RowsPresent, ReferencedKept, RowsOf
  <1>4. CountedUnreferenced'
    BY <1>1, <1>2 DEF DeletionInv, CountedUnreferenced, Unreferenced, FindBatchByMD5s,
                      RemovalPc
  <1>5. LeftoversAhead'
    <2>1. ASSUME NEW g \in File, NEW pcs, Ahead(g, pcs), "none" \notin pcs
          PROVE  Ahead(g, pcs)'
      BY <1>1, <1>2, <2>1, AheadKept
    <2>2. \A g \in File : Unreferenced(g)' <=> Unreferenced(g)
      BY <1>1 DEF Unreferenced, FindBatchByMD5s
    <2> QED
      BY <1>1, <2>1, <2>2 DEF DeletionInv, LeftoversAhead
  <1> QED
    BY <1>2, <1>3, <1>4, <1>5 DEF DeletionInv

(* Only the record of the deletion's own user goes; its file may lose its  *)
(* last record here, and then everything of it is ahead of this deletion.  *)
LEMMA DeleteRecordInv ==
    ASSUME DeletionInv, NEW d \in Deleter, DeleteRecord(d)
    PROVE  DeletionInv'
  <1> DEFINE k0 == <<deletion[d].user, deletion[d].file>>
  <1>1. /\ UNCHANGED <<mergedObject, vectors, es>> /\ deletion[d].pc = "record"
        /\ deletion[d].file \in File /\ k0 \in Key
    BY DEF DeleteRecord, Deletes, DeletionInv, DeletionTyped, Key
  <1>2. CASE DeleteReturns(d) /\ UNCHANGED fileUpload
    <2>1. /\ DeletionTyped' /\ deletion'[d].pc = "none"
          /\ \A x \in Deleter \ {d} : deletion'[x] = deletion[x]
      BY <1>1, <1>2, DeletionEnds DEF DeletionInv, DeletionTyped
    <2>2. RowsPresent' /\ ReferencedKept'
      BY <1>1, <1>2 DEF DeletionInv, RowsPresent, ReferencedKept, RowsOf
    <2>3. CountedUnreferenced'
      BY <1>2, <2>1 DEF DeletionInv, CountedUnreferenced, Unreferenced, FindBatchByMD5s,
                        RemovalPc
    <2>4. LeftoversAhead'
      <3>1. ASSUME NEW g \in File, NEW pcs, Ahead(g, pcs), "record" \notin pcs
            PROVE  Ahead(g, pcs)'
        BY <1>1, <2>1, <3>1, AheadKept
      <3>2. \A g \in File : Unreferenced(g)' <=> Unreferenced(g)
        BY <1>2 DEF Unreferenced, FindBatchByMD5s
      <3> QED
        BY <1>1, <3>1, <3>2 DEF DeletionInv, LeftoversAhead
    <2> QED
      BY <2>1, <2>2, <2>3, <2>4 DEF DeletionInv
  <1>3. CASE /\ DeleteFileUploadRecord(deletion[d].user, deletion[d].file)
             /\ DeletesNext(d, "references")
    <2>1. /\ fileUpload' \in [Key -> Row]
          /\ \A k \in Key : fileUpload'[k] = IF k = k0 THEN NoRow ELSE fileUpload[k]
      <3>1. fileUpload' = [fileUpload EXCEPT ![k0] = NoRow]
        BY <1>3 DEF DeleteFileUploadRecord
      <3> QED
        BY <3>1, NoRowTyped DEF DeletionInv, DeletionTyped
    <2>2. NoRow.status = 0 /\ NoRow.vstatus = "pending"
      BY DEF NoRow
    <2>3. /\ DeletionTyped' /\ deletion'[d].pc = "references"
          /\ deletion'[d].file = deletion[d].file
          /\ \A x \in Deleter \ {d} : deletion'[x] = deletion[x]
      BY <1>1, <1>3, <2>1, DeletionMoves DEF DeletionInv, DeletionTyped
    <2> HIDE DEF k0
    <2>4. RowsPresent'
      BY <2>1, <2>2 DEF DeletionInv, RowsPresent
    <2>5. ReferencedKept'
      <3>1. ASSUME NEW u \in User, NEW f \in File, <<u, f>> # k0
            PROVE  fileUpload'[<<u, f>>] = fileUpload[<<u, f>>]
        <4>1. <<u, f>> \in Key
          BY DEF Key
        <4> QED
          BY <2>1, <3>1, <4>1
      <3>2. fileUpload'[k0] = NoRow
        BY <1>1, <2>1
      <3>3. ASSUME NEW u \in User, NEW f \in File
            PROVE  /\ fileUpload'[<<u, f>>].status = 1 => f \in mergedObject
                   /\ fileUpload'[<<u, f>>].vstatus = "success" =>
                         RowsOf(u, f) # {} /\ RowsOf(u, f) \subseteq es
        <4>1. CASE <<u, f>> = k0
          BY <2>2, <3>2, <4>1
        <4>2. CASE <<u, f>> # k0
          BY <3>1, <4>2 DEF DeletionInv, ReferencedKept
        <4> QED
          BY <4>1, <4>2
      <3> QED
        BY <1>1, <3>3 DEF ReferencedKept, RowsOf
    <2>6. ASSUME NEW f \in File, Unreferenced(f)
          PROVE  Unreferenced(f)'
      <3>1. \A u \in User : <<u, f>> \in Key
        BY DEF Key
      <3> QED
        BY <2>1, <2>6, <3>1, NoRowTyped DEF Unreferenced, FindBatchByMD5s
    <2>7. ASSUME NEW f \in File, Unreferenced(f)', f # deletion[d].file
          PROVE  Unreferenced(f)
      <3>1. \A u \in User : <<u, f>> \in Key /\ <<u, f>> # k0
        BY <2>7 DEF Key, k0
      <3> QED
        BY <2>1, <2>7, <3>1 DEF Unreferenced, FindBatchByMD5s
    <2>8. CountedUnreferenced'
      <3>1. ASSUME NEW x \in Deleter, deletion'[x].pc \in RemovalPc
            PROVE  Unreferenced(deletion[x].file)'
        <4>1. x # d
          BY <2>3, <3>1 DEF RemovalPc
        <4>2. deletion'[x] = deletion[x] /\ deletion[x].file \in File
          BY <2>3, <4>1 DEF DeletionInv, DeletionTyped
        <4>3. PICK f \in File : f = deletion[x].file
          BY <4>2
        <4>4. Unreferenced(f)
          BY <3>1, <4>2, <4>3 DEF DeletionInv, CountedUnreferenced
        <4>5. Unreferenced(f)'
          BY <2>6, <4>4
        <4> QED
          BY <4>2, <4>3, <4>5 DEF Unreferenced, FindBatchByMD5s
      <3> QED
        BY <3>1 DEF CountedUnreferenced
    <2>9. LeftoversAhead'
      <3>1. ASSUME NEW pcs, "references" \in pcs PROVE Ahead(deletion[d].file, pcs)'
        BY <2>3, <3>1 DEF Ahead
      <3>2. ASSUME NEW g \in File, NEW pcs, Ahead(g, pcs), "record" \notin pcs
            PROVE  Ahead(g, pcs)'
        BY <1>1, <2>3, <3>2, AheadKept
      <3>3. SUFFICES ASSUME NEW f \in File, Unreferenced(f)'
                     PROVE  /\ f \in mergedObject => Ahead(f, {"references", "object"})'
                            /\ \A r \in DOMAIN vectors : r.file = f =>
                                  Ahead(f, {"references", "object", "vectors"})'
                            /\ \A x \in es : x.file = f =>
                                  Ahead(f, {"references", "object", "vectors", "index"})'
        BY <1>1 DEF LeftoversAhead
      <3>4. CASE f = deletion[d].file
        <4>1. PICK g \in File : g = deletion[d].file
          BY <1>1
        <4>2. /\ Ahead(g, {"references", "object"})'
              /\ Ahead(g, {"references", "object", "vectors"})'
              /\ Ahead(g, {"references", "object", "vectors", "index"})'
          BY <2>3, <4>1 DEF Ahead
        <4>3. f = g
          BY <3>4, <4>1
        <4> QED
          BY <4>2, <4>3
      <3>5. CASE f # deletion[d].file
        BY <2>7, <3>2, <3>3, <3>5 DEF DeletionInv, LeftoversAhead
      <3> QED
        BY <3>4, <3>5
    <2> QED
      BY <2>3, <2>4, <2>5, <2>8, <2>9 DEF DeletionInv
  <1> QED
    BY <1>2, <1>3 DEF DeleteRecord

-----------------------------------------------------------------------------
(* Steps that delete no record.  Only those that remove what a file left   *)
(* behind have to say that the file has no record.                         *)
LEMMA RemovalFrame ==
    ASSUME DeletionInv, NEW d \in Deleter, DeletionTyped', UNCHANGED fileUpload,
           \A x \in Deleter \ {d} : deletion'[x] = deletion[x],
           CountedUnreferenced', LeftoversAhead',
           \A f \in File : ~Unreferenced(f) =>
               /\ f \in mergedObject => f \in mergedObject'
               /\ \A u \in User : RowsOf(u, f)' = RowsOf(u, f)
               /\ \A r \in es : r.file = f => r \in es'
    PROVE  DeletionInv'
  <1>1. RowsPresent'
    BY DEF DeletionInv, RowsPresent
  <1>2. ReferencedKept'
    <2>1. ASSUME NEW u \in User, NEW f \in File,
                 \/ fileUpload[<<u, f>>].status = 1
                 \/ fileUpload[<<u, f>>].vstatus = "success"
          PROVE  ~Unreferenced(f)
      <3>1. <<u, f>> \in Key
        BY DEF Key
      <3>2. Present(fileUpload[<<u, f>>])
        BY <2>1, <3>1 DEF DeletionInv, RowsPresent
      <3> QED
        BY <3>2 DEF Unreferenced, FindBatchByMD5s
    <2>2. ASSUME NEW u \in User, NEW f \in File
          PROVE  /\ fileUpload'[<<u, f>>].status = 1 => f \in mergedObject'
                 /\ fileUpload'[<<u, f>>].vstatus = "success" =>
                       RowsOf(u, f)' # {} /\ RowsOf(u, f)' \subseteq es'
      <3>1. CASE Unreferenced(f)
        BY <2>1, <3>1
      <3>2. CASE ~Unreferenced(f)
        <4>1. \A r \in RowsOf(u, f) : r.file = f
          BY DEF RowsOf
        <4> QED
          BY <3>2, <4>1 DEF DeletionInv, ReferencedKept
      <3> QED
        BY <3>1, <3>2
    <2> QED
      BY <2>2 DEF ReferencedKept
  <1> QED
    BY <1>1, <1>2 DEF DeletionInv

LEMMA CountReferencesInv ==
    ASSUME StoresAnswer, DeletionInv, NEW d \in Deleter, CountReferences(d)
    PROVE  DeletionInv'
  <1>1. /\ UNCHANGED <<fileUpload, mergedObject, vectors, es>>
        /\ deletion[d].pc = "references" /\ deletion[d].file \in File
    BY DEF CountReferences, Deletes, storeVars, uploadStores, DeletionInv, DeletionTyped
  <1>2. \/ ~Unreferenced(deletion[d].file) /\ DeleteReturns(d)
        \/ Unreferenced(deletion[d].file) /\ DeletesNext(d, "object")
    BY DEF CountReferences, StoresAnswer, MayFail, Unreferenced
  <1>3. /\ DeletionTyped'
        /\ \A x \in Deleter \ {d} : deletion'[x] = deletion[x]
        /\ \/ ~Unreferenced(deletion[d].file) /\ deletion'[d].pc = "none"
           \/ /\ Unreferenced(deletion[d].file) /\ deletion'[d].pc = "object"
              /\ deletion'[d].file = deletion[d].file
    BY <1>1, <1>2, DeletionMoves, DeletionEnds DEF DeletionInv, DeletionTyped, RemovalPc
  <1>4. \A f : Unreferenced(f)' <=> Unreferenced(f)
    BY <1>1 DEF Unreferenced, FindBatchByMD5s
  <1>5. CountedUnreferenced'
    BY <1>1, <1>3
       DEF DeletionInv, CountedUnreferenced, RemovalPc, Unreferenced, FindBatchByMD5s
  <1>6. LeftoversAhead'
    <2>1. ASSUME NEW f \in File, NEW pcs, Unreferenced(f), Ahead(f, pcs),
                 "object" \in pcs
          PROVE  Ahead(f, pcs)'
      <3>1. deletion[d].file = f =>
                deletion'[d].file = f /\ deletion'[d].pc = "object"
        BY <1>3, <2>1
      <3> QED
        BY <1>3, <2>1, <3>1, AheadKept
    <2> QED
      BY <1>1, <1>4, <2>1 DEF DeletionInv, LeftoversAhead
  <1> QED
    BY <1>1, <1>3, <1>5, <1>6, RemovalFrame DEF RowsOf

(* The three removals.  The file of a deletion that got here has no record,*)
(* so what goes is needed by nobody.                                       *)
LEMMA Removing ==
    ASSUME DeletionInv, NEW d \in Deleter, deletion[d].pc \in RemovalPc,
           UNCHANGED fileUpload,
           \/ DeleteReturns(d)
           \/ \E pc \in RemovalPc : DeletesNext(d, pc)
    PROVE  /\ deletion[d].file \in File /\ Unreferenced(deletion[d].file)
           /\ deletion' \in [Deleter -> [pc : {"none", "record", "references"}
                                  \cup RemovalPc, user : User, file : File]]
           /\ \A x \in Deleter \ {d} : deletion'[x] = deletion[x]
           /\ \A f : Unreferenced(f)' <=> Unreferenced(f)
           /\ CountedUnreferenced'
  <1>1. deletion[d].file \in File /\ Unreferenced(deletion[d].file) /\ DeletionTyped
    BY DEF DeletionInv, DeletionTyped, CountedUnreferenced
  <1>2. /\ deletion' \in [Deleter -> [pc : {"none", "record", "references"}
                                  \cup RemovalPc, user : User, file : File]]
        /\ \A x \in Deleter \ {d} : deletion'[x] = deletion[x]
        /\ deletion'[d].pc = "none" \/ deletion'[d].file = deletion[d].file
    BY <1>1, DeletionMoves, DeletionEnds
  <1>3. \A f : Unreferenced(f)' <=> Unreferenced(f)
    BY DEF Unreferenced, FindBatchByMD5s
  <1>4. CountedUnreferenced'
    BY <1>1, <1>2
       DEF DeletionInv, CountedUnreferenced, RemovalPc, Unreferenced, FindBatchByMD5s
  <1> QED
    BY <1>1, <1>2, <1>3, <1>4

LEMMA RemoveMergedObjectInv ==
    ASSUME StoresAnswer, DeletionInv, NEW d \in Deleter, RemoveMergedObject(d)
    PROVE  DeletionInv'
  <1> DEFINE f0 == deletion[d].file
  <1>1. /\ UNCHANGED <<fileUpload, vectors, es>> /\ deletion[d].pc = "object"
        /\ mergedObject' = mergedObject \ {f0} /\ DeletesNext(d, "vectors")
    BY DEF RemoveMergedObject, Deletes, uploadStores, StoresAnswer, MayFail
  <1>2. /\ f0 \in File /\ Unreferenced(f0) /\ DeletionTyped'
        /\ \A x \in Deleter \ {d} : deletion'[x] = deletion[x]
        /\ \A f : Unreferenced(f)' <=> Unreferenced(f)
        /\ CountedUnreferenced'
    BY <1>1, Removing DEF RemovalPc, DeletionInv, DeletionTyped
  <1>3. deletion'[d].pc = "vectors" /\ deletion'[d].file = f0
    BY <1>1, DeletionMoves DEF RemovalPc, DeletionInv
  <1> HIDE DEF f0
  <1>4. LeftoversAhead'
    <2>1. ASSUME NEW f \in File, NEW pcs, Ahead(f, pcs), f # f0 \/ "vectors" \in pcs
          PROVE  Ahead(f, pcs)'
      BY <1>2, <1>3, <2>1, AheadKept DEF f0
    <2> QED
      BY <1>1, <1>2, <2>1 DEF DeletionInv, LeftoversAhead
  <1> QED
    BY <1>1, <1>2, <1>4, RemovalFrame DEF RowsOf

LEMMA RemoveVectorsInv ==
    ASSUME StoresAnswer, DeletionInv, NEW d \in Deleter, RemoveVectors(d)
    PROVE  DeletionInv'
  <1> DEFINE f0 == deletion[d].file
  <1>1. /\ UNCHANGED <<fileUpload, mergedObject, es>> /\ deletion[d].pc = "vectors"
        /\ DeleteByFileMD5(f0) /\ DeletesNext(d, "index")
    BY DEF RemoveVectors, Deletes, uploadStores, StoresAnswer, MayFail
  <1>2. DOMAIN vectors' = {r \in DOMAIN vectors : r.file # f0}
    BY <1>1 DEF DeleteByFileMD5
  <1>3. /\ f0 \in File /\ Unreferenced(f0) /\ DeletionTyped'
        /\ \A x \in Deleter \ {d} : deletion'[x] = deletion[x]
        /\ \A f : Unreferenced(f)' <=> Unreferenced(f)
        /\ CountedUnreferenced'
    BY <1>1, <1>2, Removing DEF RemovalPc, DeletionInv, DeletionTyped
  <1>4. deletion'[d].pc = "index" /\ deletion'[d].file = f0
    BY <1>1, DeletionMoves DEF RemovalPc, DeletionInv
  <1> HIDE DEF f0
  <1>5. LeftoversAhead'
    <2>1. ASSUME NEW f \in File, NEW pcs, Ahead(f, pcs),
                 f # f0 \/ "vectors" \notin pcs \/ "index" \in pcs
          PROVE  Ahead(f, pcs)'
      BY <1>1, <1>3, <1>4, <2>1, AheadKept DEF f0
    <2> QED
      BY <1>1, <1>2, <1>3, <2>1 DEF DeletionInv, LeftoversAhead
  <1>6. \A f \in File : ~Unreferenced(f) => \A u \in User : RowsOf(u, f)' = RowsOf(u, f)
    <2>1. ASSUME NEW f \in File, f # f0, NEW u \in User PROVE RowsOf(u, f)' = RowsOf(u, f)
      BY <1>2, <2>1 DEF RowsOf
    <2> QED
      BY <1>3, <2>1
  <1> QED
    BY <1>1, <1>3, <1>5, <1>6, RemovalFrame

LEMMA RemoveIndexInv ==
    ASSUME StoresAnswer, DeletionInv, NEW d \in Deleter, RemoveIndex(d)
    PROVE  DeletionInv'
  <1> DEFINE f0 == deletion[d].file
  <1>1. /\ UNCHANGED <<fileUpload, mergedObject, vectors>> /\ deletion[d].pc = "index"
        /\ es' = {x \in es : x.file # f0} /\ DeleteReturns(d)
    BY DEF RemoveIndex, EsDeleteByFileMD5, Deletes, uploadStores, StoresAnswer, MayFail
  <1>2. /\ f0 \in File /\ Unreferenced(f0) /\ DeletionTyped'
        /\ \A x \in Deleter \ {d} : deletion'[x] = deletion[x]
        /\ \A f : Unreferenced(f)' <=> Unreferenced(f)
        /\ CountedUnreferenced'
    BY <1>1, Removing DEF RemovalPc, DeletionInv, DeletionTyped
  <1> HIDE DEF f0
  <1>3. LeftoversAhead'
    <2>1. ASSUME NEW f \in File, NEW pcs, Ahead(f, pcs), f # f0 \/ "index" \notin pcs
          PROVE  Ahead(f, pcs)'
      BY <1>1, <1>2, <2>1, AheadKept DEF f0
    <2> QED
      BY <1>1, <1>2, <2>1 DEF DeletionInv, LeftoversAhead
  <1> QED
    BY <1>1, <1>2, <1>3, RemovalFrame DEF RowsOf

LEMMA DeletionStepInv ==
    StoresAnswer /\ DeletionInv /\ [DocumentNext]_documentVars => DeletionInv'
  <1> SUFFICES ASSUME StoresAnswer, DeletionInv, [DocumentNext]_documentVars
               PROVE  DeletionInv'
    OBVIOUS
  <1>1. CASE UNCHANGED documentVars
    BY <1>1 DEF documentVars, storeVars, uploadStores, DeletionInv, DeletionTyped,
                RowsPresent, ReferencedKept, RowsOf, CountedUnreferenced, LeftoversAhead,
                Ahead, Unreferenced, FindBatchByMD5s
  <1>2. ASSUME NEW d \in Deleter, DeletionStep(d) PROVE DeletionInv'
    BY <1>2, DeleteRecordInv, CountReferencesInv, RemoveMergedObjectInv, RemoveVectorsInv,
       RemoveIndexInv DEF DeletionStep
  <1> QED
    BY <1>1, <1>2, DeleteDocumentInv DEF DocumentNext

-----------------------------------------------------------------------------
(* Whoever deletes what, and in whatever order, a deletion that removes    *)
(* something has seen the last record go, and whatever a file without a    *)
(* record left behind is still to be removed by a deletion under way.      *)
THEOREM DeletionsCounted ==
    ASSUME EnoughIds, StoresAnswer PROVE DocumentSpec => []DeletionInv
  <1>1. DocumentInit => DeletionInv
    BY LibraryInv DEF DocumentInit
  <1>2. DeletionInv /\ [DocumentNext]_documentVars => DeletionInv'
    BY DeletionStepInv
  <1> QED
    BY <1>1, <1>2, PTL DEF DocumentSpec

(* DeleteDocument of one user never takes the object, the rows or the      *)
(* index documents of a file away from another user who still has a record *)
(* of it.                                                                  *)
THEOREM ReferencesProtect ==
    ASSUME EnoughIds, StoresAnswer PROVE DocumentSpec => []ReferencedKept
  <1>1. DeletionInv => ReferencedKept
    BY DEF DeletionInv
  <1> QED
    BY <1>1, DeletionsCounted, PTL

(* Of several concurrent deletions of a file at least one finds no record  *)
(* left: when they are over, no store holds anything of the file.          *)
THEOREM NothingLeaks ==
    ASSUME EnoughIds, StoresAnswer PROVE DocumentSpec => []UnreferencedRemoved
  <1>1. DeletionInv => UnreferencedRemoved
    <2> SUFFICES ASSUME DeletionInv, NEW f \in File, FindBatchByMD5s(f) = {}, ~Deleting(f)
                 PROVE  /\ f \notin mergedObject
                        /\ \A u \in User : RowsOf(u, f) = {}
                        /\ \A d \in es : d.file # f
      BY DEF UnreferencedRemoved
    <2>1. ASSUME NEW pcs, "none" \notin pcs PROVE ~Ahead(f, pcs)
      BY <2>1 DEF Ahead, Deleting, Deletes
    <2>2. Unreferenced(f)
      BY DEF Unreferenced
    <2>3. f \notin mergedObject /\ \A r \in DOMAIN vectors : r.file # f
      BY <2>1, <2>2 DEF DeletionInv, LeftoversAhead
    <2>4. \A d \in es : d.file # f
      BY <2>1, <2>2 DEF DeletionInv, LeftoversAhead
    <2> QED
      BY <2>3, <2>4 DEF RowsOf
  <1> QED
    BY <1>1, DeletionsCounted, PTL
=============================================================================
