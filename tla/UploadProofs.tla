---------------------------- MODULE UploadProofs ----------------------------
(***************************************************************************)
(* Theorems about Upload for any number of users, files, chunks, request   *)
(* goroutines and partitions, any set of failing calls, with or without    *)
(* crashes: its type invariant; that neither the bitmap nor the completed  *)
(* status ever runs ahead of chunk_info; and what a merge promises to the  *)
(* pipeline: a completed record and a queued task have the merged object,  *)
(* a queued task belongs to a completed record of the same visibility,     *)
(* and, when Kafka accepts messages, nothing the merge needs is thrown     *)
(* away before the task is queued.                                         *)
(***************************************************************************)
EXTENDS Upload, StoresProofs

-----------------------------------------------------------------------------
(* Types.  The default row and request have the types of their tables.     *)
LEMMA DefaultsTyped == NoRow \in Row /\ Idle \in Request
  BY NonemptyAssumption DEF NoRow, Row, VStatus, Idle, Request

LEMMA ChunkIdsTyped == ASSUME NEW f \in File PROVE ChunkIds(f) \subseteq Nat
  BY ChunksAssumption DEF ChunkIds

LEMMA TypeInit == UploadInit => UploadTypeOK
  <1> SUFFICES ASSUME UploadInit PROVE UploadTypeOK
    OBVIOUS
  <1>1. fileUpload \in [Key -> Row] /\ req \in [Worker -> Request]
    BY DefaultsTyped DEF UploadInit, RequestsInit, StoresInit
  <1>2. topic \in [Partition -> Seq(Task)]
    BY DEF UploadInit, RequestsInit, StoresInit
  <1>3. vectors \in [DOMAIN vectors -> Nat] /\ DOMAIN vectors \subseteq VectorRow
    BY DEF UploadInit, RequestsInit, StoresInit
  <1> QED
    BY <1>1, <1>2, <1>3 DEF UploadInit, RequestsInit, StoresInit, UploadTypeOK, StoresTypeOK

(* A request that moves on or ends keeps its type.                         *)
LEMMA ReturnTyped ==
    ASSUME req \in [Worker -> Request], NEW w \in Worker, Return(w)
    PROVE  req' \in [Worker -> Request]
  BY DefaultsTyped DEF Return

LEMMA GotoTyped ==
    ASSUME req \in [Worker -> Request], NEW w \in Worker,
           NEW pc \in {"idle"} \cup ChunkPc \cup MergePc \cup CleanupPc, Goto(w, pc)
    PROVE  req' \in [Worker -> Request]
  BY DEF Goto, Request

LEMMA ChunkStepTyped ==
    ASSUME UploadTypeOK, NEW w \in Worker,
           \/ FindRecord(w) \/ CreateRecord(w) \/ CheckMark(w)
           \/ PutChunk(w) \/ CreateChunkInfo(w) \/ MarkChunk(w)
    PROVE  UploadTypeOK'
  <1> USE DEF UploadTypeOK, StoresTypeOK
  <1>0. req[w] \in Request
    OBVIOUS
  <1>1. CASE FindRecord(w)
    BY <1>1, GotoTyped DEF FindRecord, ChunkPc, storeVars, uploadStores
  <1>2. CASE CreateRecord(w)
    <2>1. req' \in [Worker -> Request]
      BY <1>2, ReturnTyped, GotoTyped DEF CreateRecord, ChunkPc
    <2>2. nextId' \in Nat \ {0} /\ fileUpload' \in [Key -> Row]
      <3> DEFINE new == [id |-> nextId, status |-> 0, vstatus |-> "pending",
                         vis |-> req[w].vis, actual |-> 0]
      <3>1. new \in Row
        BY <1>0 DEF Request, Row, VStatus
      <3>2. CASE CreateFileUploadRecord(req[w].user, req[w].file, req[w].vis)
        <4>1. fileUpload' = [fileUpload EXCEPT ![<<req[w].user, req[w].file>>] = new]
          BY <3>2 DEF CreateFileUploadRecord
        <4>2. nextId' = nextId + 1
          BY <3>2 DEF CreateFileUploadRecord
        <4> HIDE DEF new
        <4>3. nextId' \in Nat \ {0}
          BY <4>2
        <4>4. fileUpload' \in [Key -> Row]
          BY <3>1, <4>1
        <4> QED
          BY <4>3, <4>4
      <3> QED
        BY <1>2, <3>2 DEF CreateRecord
    <2> QED
      BY <1>2, <2>1, <2>2 DEF CreateRecord
  <1>3. CASE CheckMark(w)
    BY <1>3, ReturnTyped, GotoTyped DEF CheckMark, ChunkPc, storeVars, uploadStores
  <1>4. CASE PutChunk(w)
    <2>1. req' \in [Worker -> Request]
      BY <1>4, GotoTyped DEF PutChunk, ChunkPc
    <2>2. chunkObject' \subseteq File \X Nat
      BY <1>0, <1>4 DEF PutChunk, Request
    <2> QED
      BY <1>4, <2>1, <2>2 DEF PutChunk
  <1>5. CASE CreateChunkInfo(w)
    <2>1. req' \in [Worker -> Request]
      BY <1>5, GotoTyped DEF CreateChunkInfo, ChunkPc
    <2>2. chunkInfo' \subseteq File \X Nat
      BY <1>0, <1>5 DEF CreateChunkInfo, Request
    <2> QED
      BY <1>5, <2>1, <2>2 DEF CreateChunkInfo
  <1>6. CASE MarkChunk(w)
    <2>1. marks' \in [Key -> SUBSET Nat]
      BY <1>0, <1>6 DEF MarkChunk, MarkChunkUploaded, Key, Request
    <2> QED
      BY <1>6, <2>1, ReturnTyped DEF MarkChunk
  <1> QED
    BY <1>1, <1>2, <1>3, <1>4, <1>5, <1>6

LEMMA MergeStepTyped ==
    ASSUME UploadTypeOK, NEW w \in Worker,
           \/ MergeLookup(w) \/ MergeCheck(w) \/ Compose(w)
           \/ SetCompleted(w) \/ Produce(w)
    PROVE  UploadTypeOK'
  <1> USE DEF UploadTypeOK, StoresTypeOK
  <1>0. req[w] \in Request
    OBVIOUS
  <1>1. CASE MergeLookup(w)
    <2>1. fileUpload[<<req[w].user, req[w].file>>] \in Row
      BY <1>0 DEF Request, Key
    <2>2. CASE Return(w)
      BY <1>1, <2>2, ReturnTyped DEF MergeLookup, storeVars, uploadStores
    <2>3. CASE Present(fileUpload[<<req[w].user, req[w].file>>])
      <3> DEFINE row == fileUpload[<<req[w].user, req[w].file>>]
                 next == [req[w] EXCEPT !.pc = "mergeCheck", !.id = row.id, !.vis = row.vis]
      <3>1. next \in Request
        BY <1>0, <2>1 DEF Request, MergePc, Row
      <3>2. req' = [req EXCEPT ![w] = next]
        BY <1>1, <2>3 DEF MergeLookup, GetFileUploadRecord
      <3> HIDE DEF next
      <3>3. req' \in [Worker -> Request]
        BY <3>1, <3>2
      <3> QED
        BY <1>1, <3>3 DEF MergeLookup, storeVars, uploadStores
    <2> QED
      BY <1>1, <2>2, <2>3 DEF MergeLookup, GetFileUploadRecord
  <1>2. CASE MergeCheck(w)
    BY <1>2, ReturnTyped, GotoTyped DEF MergeCheck, MergePc, storeVars, uploadStores
  <1>3. CASE Compose(w)
    <2>1. req' \in [Worker -> Request]
      BY <1>3, ReturnTyped, GotoTyped DEF Compose, MergePc
    <2>2. mergedObject' \subseteq File
      BY <1>0, <1>3 DEF Compose, Request
    <2> QED
      BY <1>3, <2>1, <2>2 DEF Compose, uploadStores
  <1>4. CASE SetCompleted(w)
    <2>1. req' \in [Worker -> Request]
      BY <1>4, GotoTyped DEF SetCompleted, MergePc
    <2>2. fileUpload' \in [Key -> Row]
      BY <1>4 DEF SetCompleted, UpdateFileUploadStatus, Row
    <2> QED
      BY <1>4, <2>1, <2>2 DEF SetCompleted
  <1>5. CASE Produce(w)
    <2>1. req' \in [Worker -> Request]
      BY <1>0, <1>5, ChunkIdsTyped DEF Produce, Request, CleanupPc
    <2>2. topic' \in [Partition -> Seq(Task)]
      <3> DEFINE t == [user |-> req[w].user, file |-> req[w].file, vis |-> req[w].vis]
      <3>1. t \in Task
        BY <1>0 DEF Request, Task
      <3>2. CASE ProduceFileTask(t)
        BY <3>1, <3>2 DEF ProduceFileTask
      <3> QED
        BY <1>5, <3>2 DEF Produce
    <2> QED
      BY <1>5, <2>1, <2>2 DEF Produce, uploadStores
  <1> QED
    BY <1>1, <1>2, <1>3, <1>4, <1>5

LEMMA CleanupStepTyped ==
    ASSUME UploadTypeOK, NEW w \in Worker,
           Unmark(w) \/ \E i \in req[w].left : RemoveChunkObject(w, i)
    PROVE  UploadTypeOK'
  <1> USE DEF UploadTypeOK, StoresTypeOK
  <1>0. req[w] \in Request
    OBVIOUS
  <1>1. CASE Unmark(w)
    <2>1. req' \in [Worker -> Request]
      BY <1>1, GotoTyped DEF Unmark, CleanupPc
    <2>2. marks' \in [Key -> SUBSET Nat]
      BY <1>1 DEF Unmark, DeleteUploadMark
    <2> QED
      BY <1>1, <2>1, <2>2 DEF Unmark
  <1>2. ASSUME NEW i \in req[w].left, RemoveChunkObject(w, i)
        PROVE  UploadTypeOK'
    <2>1. req' \in [Worker -> Request]
      <3>1. CASE Return(w)
        BY <3>1, ReturnTyped
      <3>2. CASE req' = [req EXCEPT ![w].left = @ \ {i}]
        BY <1>0, <3>2 DEF Request
      <3> QED
        BY <1>2, <3>1, <3>2 DEF RemoveChunkObject
    <2>2. chunkObject' \subseteq File \X Nat
      BY <1>2 DEF RemoveChunkObject
    <2> QED
      BY <1>2, <2>1, <2>2 DEF RemoveChunkObject
  <1> QED
    BY <1>1, <1>2

LEMMA ArriveTyped ==
    ASSUME UploadTypeOK, NEW w \in Worker, Arrive(w)
    PROVE  UploadTypeOK'
  <1> USE DEF UploadTypeOK, StoresTypeOK
  <1>1. ASSUME NEW u \in User, NEW f \in File, NEW i \in ChunkIds(f) \cup {0},
               NEW v \in Visibility, NEW n \in Name, UploadChunk(w, u, f, i, v, n)
        PROVE  UploadTypeOK'
    <2>1. i \in Nat
      BY ChunkIdsTyped
    <2>2. req' \in [Worker -> Request]
      BY <1>1, <2>1, DefaultsTyped DEF UploadChunk, Request, ChunkPc
    <2> QED
      BY <1>1, <2>2 DEF UploadChunk, storeVars, uploadStores, Key
  <1>2. ASSUME NEW u \in User, NEW f \in File, MergeChunks(w, u, f)
        PROVE  UploadTypeOK'
    <2>1. req' \in [Worker -> Request]
      BY <1>2, DefaultsTyped DEF MergeChunks, Request, MergePc
    <2> QED
      BY <1>2, <2>1 DEF MergeChunks, storeVars, uploadStores
  <1> QED
    BY <1>1, <1>2 DEF Arrive

LEMMA TypeStep == UploadTypeOK /\ [UploadNext]_uploadVars => UploadTypeOK'
  <1> SUFFICES ASSUME UploadTypeOK, [UploadNext]_uploadVars PROVE UploadTypeOK'
    OBVIOUS
  <1>1. ASSUME NEW w \in Worker, Arrive(w) \/ Step(w) PROVE UploadTypeOK'
    BY <1>1, ArriveTyped, ChunkStepTyped, MergeStepTyped, CleanupStepTyped DEF Step
  <1>2. ASSUME NEW w \in Worker, CallError(w) PROVE UploadTypeOK'
    BY <1>2, ReturnTyped
       DEF CallError, UploadTypeOK, StoresTypeOK, storeVars, uploadStores
  <1>3. CASE Crash
    BY <1>3, DefaultsTyped DEF Crash, UploadTypeOK, StoresTypeOK, storeVars, uploadStores
  <1>4. CASE UNCHANGED uploadVars
    BY <1>4 DEF uploadVars, storeVars, uploadStores, UploadTypeOK, StoresTypeOK
  <1> QED
    BY <1>1, <1>2, <1>3, <1>4 DEF UploadNext

(* Every store and every request keeps its type in every behaviour of the  *)
(* upload service.                                                         *)
THEOREM UploadTypeCorrect == UploadSpec => []UploadTypeOK
  BY TypeInit, TypeStep, PTL DEF UploadSpec

-----------------------------------------------------------------------------
(* The safety invariants.  StoreInv is the part of UploadInv that speaks   *)
(* of the stores, RequestsOK the part that speaks of requests in flight.   *)
StoreInv ==
    /\ IdsUnique
    /\ MarkedRecorded
    /\ MarkedChecked
    /\ CompletedRecorded
    /\ CompletedChecked

(* Rows keep their id, or vanish, or get an id that was never used.        *)
IdsKept ==
    /\ nextId \in Nat /\ nextId' \in Nat /\ nextId <= nextId'
    /\ \A k \in Key : \/ fileUpload'[k].id = fileUpload[k].id
                      \/ fileUpload'[k].id = 0
                      \/ fileUpload'[k].id \in Nat /\ fileUpload'[k].id >= nextId

(* A step of request w disturbs no other request as long as chunk_info     *)
(* only grows and ids are not reused.                                      *)
LEMMA RequestsFrame ==
    ASSUME RequestsOK, NEW w \in Worker,
           \A x \in Worker \ {w} : req'[x] = req[x],
           ChunkRequestOK(req[w])', MergeRequestOK(req[w])',
           chunkInfo \subseteq chunkInfo' /\ checked \subseteq checked', IdsKept
    PROVE  RequestsOK'
  <1> SUFFICES ASSUME NEW x \in Worker \ {w}
               PROVE  (ChunkRequestOK(req[x]) /\ MergeRequestOK(req[x]))'
    BY DEF RequestsOK
  <1>1. req'[x] = req[x] /\ ChunkRequestOK(req[x]) /\ MergeRequestOK(req[x])
    BY DEF RequestsOK
  <1>2. ChunkRequestOK(req[x])'
    BY <1>1 DEF ChunkRequestOK
  <1>3. MergeRequestOK(req[x])'
    BY <1>1 DEF MergeRequestOK, Recorded, IdsKept
  <1> QED
    BY <1>2, <1>3

LEMMA StoreFrame ==
    ASSUME StoreInv, UNCHANGED <<fileUpload, nextId, marks>>,
           chunkInfo \subseteq chunkInfo' /\ checked \subseteq checked'
    PROVE  StoreInv'
  BY DEF StoreInv, IdsUnique, MarkedRecorded, MarkedChecked, CompletedRecorded,
         CompletedChecked, Recorded

(* Steps that write neither file_upload nor the bitmaps.                   *)
LEMMA QuietStores ==
    ASSUME UploadTypeOK, UploadInv, UNCHANGED <<fileUpload, nextId, marks>>,
           chunkInfo \subseteq chunkInfo' /\ checked \subseteq checked'
    PROVE  StoreInv' /\ IdsKept
  <1>1. StoreInv
    BY DEF UploadInv, StoreInv
  <1>2. StoreInv'
    BY <1>1, StoreFrame
  <1>3. IdsKept
    BY DEF IdsKept, UploadTypeOK, StoresTypeOK
  <1> QED
    BY <1>2, <1>3

(* A request that ended has nothing left to keep.                          *)
LEMMA ReturnedOK ==
    ASSUME req \in [Worker -> Request], NEW w \in Worker, Return(w)
    PROVE  /\ ChunkRequestOK(req[w])' /\ MergeRequestOK(req[w])'
           /\ \A x \in Worker \ {w} : req'[x] = req[x]
  BY DEF Return, Idle, ChunkRequestOK, MergeRequestOK, ChunkPc

LEMMA GotoKeeps ==
    ASSUME req \in [Worker -> Request], NEW w \in Worker, NEW pc, Goto(w, pc)
    PROVE  /\ req'[w] = [req[w] EXCEPT !.pc = pc]
           /\ \A x \in Worker \ {w} : req'[x] = req[x]
  BY DEF Goto

(* "As many bits as chunks" means every bit.                               *)
LEMMA AllBits ==
    ASSUME NEW f \in File, NEW S, S \subseteq ChunkIds(f),
           ~(Cardinality(S) < Chunks[f])
    PROVE  S = ChunkIds(f)
  <1>1. Chunks[f] \in Nat
    BY ChunksAssumption
  <1>2. IsFiniteSet(ChunkIds(f)) /\ Cardinality(ChunkIds(f)) = Chunks[f]
    <2> DEFINE last == Chunks[f] - 1
    <2>1. last \in Int /\ 0 \in Int
      BY <1>1
    <2> HIDE DEF last
    <2>2. /\ IsFiniteSet(0 .. last)
          /\ Cardinality(0 .. last) = IF 0 > last THEN 0 ELSE last - 0 + 1
      BY <2>1, FS_Interval
    <2>3. (IF 0 > last THEN 0 ELSE last - 0 + 1) = Chunks[f]
      BY <1>1 DEF last
    <2> QED
      BY <2>2, <2>3 DEF ChunkIds, last
  <1>3. IsFiniteSet(S) /\ Cardinality(S) \in Nat
    BY <1>2, FS_Subset, FS_CardinalityType
  <1>4. Cardinality(S) <= Cardinality(ChunkIds(f)) /\
        (Cardinality(S) = Cardinality(ChunkIds(f)) => S = ChunkIds(f))
    BY <1>2, FS_Subset, FS_CardinalityType
  <1> QED
    BY <1>1, <1>2, <1>3, <1>4

-----------------------------------------------------------------------------
LEMMA InvInit == UploadInit => UploadInv
  <1> SUFFICES ASSUME UploadInit PROVE UploadInv
    OBVIOUS
  <1>1. \A k \in Key : fileUpload[k] = NoRow
    BY DEF UploadInit, RequestsInit, StoresInit
  <1>2. IdsUnique
    BY <1>1 DEF UploadInit, RequestsInit, StoresInit, IdsUnique, Present, NoRow
  <1>3. MarkedRecorded /\ MarkedChecked
    BY DEF UploadInit, RequestsInit, StoresInit, MarkedRecorded, MarkedChecked, Key
  <1>4. CompletedRecorded /\ CompletedChecked
    <2>0. NoRow.status = 0
      BY DEF NoRow
    <2>1. \A u \in User, f \in File : fileUpload[<<u, f>>].status = 0
      BY <1>1, <2>0 DEF Key
    <2> QED
      BY <2>1 DEF CompletedRecorded, CompletedChecked
  <1>5. RequestsOK
    BY DEF UploadInit, RequestsInit, RequestsOK, ChunkRequestOK, MergeRequestOK, Idle, ChunkPc
  <1> QED
    BY <1>2, <1>3, <1>4, <1>5 DEF UploadInv

LEMMA UploadChunkInv ==
    ASSUME UploadTypeOK, UploadInv, NEW w \in Worker, NEW u \in User, NEW f \in File,
           NEW i \in ChunkIds(f) \cup {0}, NEW v \in Visibility, NEW n \in Name,
           UploadChunk(w, u, f, i, v, n)
    PROVE  UploadInv'
  <1> USE DEF UploadTypeOK, StoresTypeOK
  <1>1. StoreInv' /\ IdsKept /\ chunkInfo \subseteq chunkInfo' /\ checked \subseteq checked'
    BY QuietStores DEF UploadChunk, storeVars, uploadStores
  <1>2. /\ ChunkRequestOK(req[w])' /\ MergeRequestOK(req[w])'
        /\ \A x \in Worker \ {w} : req'[x] = req[x]
    BY DEF UploadChunk, ChunkRequestOK, MergeRequestOK, Idle
  <1> QED
    BY <1>1, <1>2, RequestsFrame DEF UploadInv, StoreInv

LEMMA MergeChunksInv ==
    ASSUME UploadTypeOK, UploadInv, NEW w \in Worker, NEW u \in User, NEW f \in File,
           MergeChunks(w, u, f)
    PROVE  UploadInv'
  <1> USE DEF UploadTypeOK, StoresTypeOK
  <1>1. StoreInv' /\ IdsKept /\ chunkInfo \subseteq chunkInfo' /\ checked \subseteq checked'
    BY QuietStores DEF MergeChunks, storeVars, uploadStores
  <1>2. /\ ChunkRequestOK(req[w])' /\ MergeRequestOK(req[w])'
        /\ \A x \in Worker \ {w} : req'[x] = req[x]
    BY DEF MergeChunks, ChunkRequestOK, MergeRequestOK, Idle, ChunkPc
  <1> QED
    BY <1>1, <1>2, RequestsFrame DEF UploadInv, StoreInv

LEMMA FindRecordInv ==
    ASSUME UploadTypeOK, UploadInv, NEW w \in Worker, FindRecord(w)
    PROVE  UploadInv'
  <1> USE DEF UploadTypeOK, StoresTypeOK
  <1>1. StoreInv' /\ IdsKept /\ chunkInfo \subseteq chunkInfo' /\ checked \subseteq checked'
    BY QuietStores DEF FindRecord, storeVars, uploadStores
  <1>2. /\ ChunkRequestOK(req[w])' /\ MergeRequestOK(req[w])'
        /\ \A x \in Worker \ {w} : req'[x] = req[x]
    BY DEF FindRecord, Goto, At, UploadInv, RequestsOK, ChunkRequestOK, MergeRequestOK,
           ChunkPc, Request
  <1> QED
    BY <1>1, <1>2, RequestsFrame DEF UploadInv, StoreInv

LEMMA CreateRecordInv ==
    ASSUME UploadTypeOK, UploadInv, NEW w \in Worker, CreateRecord(w)
    PROVE  UploadInv'
  <1> USE DEF UploadTypeOK, StoresTypeOK
  <1> DEFINE k0 == <<req[w].user, req[w].file>>
             new == [id |-> nextId, status |-> 0, vstatus |-> "pending",
                     vis |-> req[w].vis, actual |-> 0]
  <1>0. k0 \in Key /\ UNCHANGED <<marks, chunkInfo, checked>>
    BY DEF CreateRecord, Request, Key
  <1>1. CASE Return(w) /\ UNCHANGED <<fileUpload, nextId>>
    <2>1. StoreInv' /\ IdsKept /\ chunkInfo \subseteq chunkInfo' /\ checked \subseteq checked'
      BY <1>0, <1>1, QuietStores
    <2> QED
      BY <1>1, <2>1, ReturnedOK, RequestsFrame DEF UploadInv, StoreInv
  <1>2. CASE CreateFileUploadRecord(req[w].user, req[w].file, req[w].vis)
             /\ Goto(w, "isUploaded")
    <2>1. fileUpload' = [fileUpload EXCEPT ![k0] = new] /\ nextId' = nextId + 1
      BY <1>2 DEF CreateFileUploadRecord
    <2>2. \A k \in Key : fileUpload'[k] = IF k = k0 THEN new ELSE fileUpload[k]
      BY <2>1
    <2>3. new.id = nextId /\ new.status = 0
      OBVIOUS
    <2> HIDE DEF new, k0
    <2>4. IdsKept
      BY <2>1, <2>2, <2>3 DEF IdsKept
    <2>5. IdsUnique'
      <3>1. \A k \in Key : fileUpload[k].id \in Nat /\ fileUpload[k].id < nextId
        BY DEF UploadInv, IdsUnique, Row
      <3>2. \A k \in Key : fileUpload'[k].id < nextId'
        BY <2>1, <2>2, <2>3, <3>1
      <3>3. ASSUME NEW k \in Key, NEW l \in Key, Present(fileUpload'[k]),
                   fileUpload'[k].id = fileUpload'[l].id
            PROVE  k = l
        BY <2>2, <2>3, <3>1, <3>3 DEF UploadInv, IdsUnique, Present
      <3> QED
        BY <3>2, <3>3 DEF IdsUnique
    <2>6. MarkedRecorded' /\ MarkedChecked'
      BY <1>0 DEF UploadInv, MarkedRecorded, MarkedChecked
    <2>7. CompletedRecorded' /\ CompletedChecked'
      <3>1. ASSUME NEW u \in User, NEW f \in File, fileUpload'[<<u, f>>].status = 1
            PROVE  fileUpload[<<u, f>>].status = 1
        <4>1. <<u, f>> \in Key
          BY DEF Key
        <4> QED
          BY <2>2, <2>3, <3>1, <4>1
      <3> QED
        BY <1>0, <3>1
           DEF UploadInv, CompletedRecorded, CompletedChecked, Recorded
    <2>8. /\ ChunkRequestOK(req[w])' /\ MergeRequestOK(req[w])'
          /\ \A x \in Worker \ {w} : req'[x] = req[x]
      BY <1>2 DEF CreateRecord, Goto, At, UploadInv, RequestsOK, ChunkRequestOK,
                  MergeRequestOK, ChunkPc, Request
    <2> QED
      BY <1>0, <2>4, <2>5, <2>6, <2>7, <2>8, RequestsFrame DEF UploadInv
  <1> QED
    BY <1>1, <1>2 DEF CreateRecord

LEMMA CheckMarkInv ==
    ASSUME UploadTypeOK, UploadInv, NEW w \in Worker, CheckMark(w)
    PROVE  UploadInv'
  <1> USE DEF UploadTypeOK, StoresTypeOK
  <1>1. StoreInv' /\ IdsKept /\ chunkInfo \subseteq chunkInfo' /\ checked \subseteq checked'
    BY QuietStores DEF CheckMark, storeVars, uploadStores
  <1>2. /\ ChunkRequestOK(req[w])' /\ MergeRequestOK(req[w])'
        /\ \A x \in Worker \ {w} : req'[x] = req[x]
    <2>1. CASE Return(w)
      BY <2>1, ReturnedOK
    <2>2. CASE Goto(w, "put")
      BY <2>2 DEF CheckMark, Goto, At, UploadInv, RequestsOK, ChunkRequestOK,
                  MergeRequestOK, ChunkPc, Request
    <2> QED
      BY <2>1, <2>2 DEF CheckMark
  <1> QED
    BY <1>1, <1>2, RequestsFrame DEF UploadInv, StoreInv

LEMMA PutChunkInv ==
    ASSUME UploadTypeOK, UploadInv, NEW w \in Worker, PutChunk(w)
    PROVE  UploadInv'
  <1> USE DEF UploadTypeOK, StoresTypeOK
  <1>1. StoreInv' /\ IdsKept /\ chunkInfo \subseteq chunkInfo' /\ checked \subseteq checked'
    BY QuietStores DEF PutChunk
  <1>2. /\ ChunkRequestOK(req[w])' /\ MergeRequestOK(req[w])'
        /\ \A x \in Worker \ {w} : req'[x] = req[x]
    BY DEF PutChunk, Goto, At, UploadInv, RequestsOK, ChunkRequestOK, MergeRequestOK,
           ChunkPc, Request
  <1> QED
    BY <1>1, <1>2, RequestsFrame DEF UploadInv, StoreInv

LEMMA CreateChunkInfoInv ==
    ASSUME UploadTypeOK, UploadInv, NEW w \in Worker, CreateChunkInfo(w)
    PROVE  UploadInv'
  <1> USE DEF UploadTypeOK, StoresTypeOK
  <1>1. StoreInv' /\ IdsKept /\ chunkInfo \subseteq chunkInfo' /\ checked \subseteq checked'
    BY QuietStores DEF CreateChunkInfo
  <1>2. /\ ChunkRequestOK(req[w])' /\ MergeRequestOK(req[w])'
        /\ \A x \in Worker \ {w} : req'[x] = req[x]
    BY DEF CreateChunkInfo, Goto, At, UploadInv, RequestsOK, ChunkRequestOK,
           MergeRequestOK, ChunkPc, Request
  <1> QED
    BY <1>1, <1>2, RequestsFrame DEF UploadInv, StoreInv

LEMMA MarkChunkInv ==
    ASSUME UploadTypeOK, UploadInv, NEW w \in Worker, MarkChunk(w)
    PROVE  UploadInv'
  <1> USE DEF UploadTypeOK, StoresTypeOK
  <1>1. /\ req[w] \in Request
        /\ <<req[w].file, req[w].chunk>> \in chunkInfo
        /\ req[w].chunk = 0 => <<req[w].user, req[w].file>> \in checked
    BY DEF MarkChunk, At, UploadInv, RequestsOK, ChunkRequestOK, ChunkPc
  <1>2. UNCHANGED <<fileUpload, nextId, chunkInfo, checked>> /\ Return(w)
    BY DEF MarkChunk
  <1>3. \A u \in User, f \in File : \A i \in marks'[<<u, f>>] :
            i \in marks[<<u, f>>] \/ (u = req[w].user /\ f = req[w].file /\ i = req[w].chunk)
    BY <1>1 DEF MarkChunk, MarkChunkUploaded, Key, Request
  <1>4. MarkedRecorded'
    BY <1>1, <1>2, <1>3 DEF UploadInv, MarkedRecorded
  <1>5. MarkedChecked'
    BY <1>1, <1>2, <1>3 DEF UploadInv, MarkedChecked
  <1>6. /\ IdsUnique' /\ CompletedRecorded' /\ CompletedChecked' /\ IdsKept
    <2>1. IdsUnique' /\ IdsKept
      BY <1>2 DEF UploadInv, IdsUnique, IdsKept
    <2>2. CompletedRecorded' /\ CompletedChecked'
      BY <1>2 DEF UploadInv, CompletedRecorded, CompletedChecked, Recorded
    <2> QED
      BY <2>1, <2>2
  <1> QED
    BY <1>2, <1>4, <1>5, <1>6, ReturnedOK, RequestsFrame DEF UploadInv

LEMMA MergeLookupInv ==
    ASSUME UploadTypeOK, UploadInv, NEW w \in Worker, MergeLookup(w)
    PROVE  UploadInv'
  <1> USE DEF UploadTypeOK, StoresTypeOK
  <1> DEFINE k0 == <<req[w].user, req[w].file>>
  <1>1. StoreInv' /\ IdsKept /\ chunkInfo \subseteq chunkInfo' /\ checked \subseteq checked'
    BY QuietStores DEF MergeLookup, storeVars, uploadStores
  <1>2. CASE Return(w)
    BY <1>1, <1>2, ReturnedOK, RequestsFrame DEF UploadInv, StoreInv
  <1>3. CASE Present(fileUpload[k0]) /\
             req' = [req EXCEPT ![w] = [@ EXCEPT !.pc = "mergeCheck",
                         !.id = fileUpload[k0].id, !.vis = fileUpload[k0].vis]]
    <2>1. k0 \in Key /\ fileUpload[k0] \in Row
      BY DEF Request, Key
    <2>2. /\ req'[w].pc = "mergeCheck" /\ req'[w].id = fileUpload[k0].id
          /\ <<req'[w].user, req'[w].file>> = k0
          /\ \A x \in Worker \ {w} : req'[x] = req[x]
      BY <1>3 DEF Request
    <2>3. UNCHANGED <<fileUpload, nextId>>
      BY DEF MergeLookup, storeVars, uploadStores
    <2> HIDE DEF k0
    <2>4. fileUpload[k0].id \in 1 .. nextId - 1
      BY <1>3, <2>1 DEF UploadInv, IdsUnique, Present, Row
    <2>5. \A k \in Key : fileUpload[k].id = fileUpload[k0].id => k = k0
      BY <1>3, <2>1 DEF UploadInv, IdsUnique
    <2>6. ChunkRequestOK(req[w])' /\ MergeRequestOK(req[w])'
      BY <2>2, <2>3, <2>4, <2>5 DEF ChunkRequestOK, MergeRequestOK, ChunkPc
    <2> QED
      BY <1>1, <2>2, <2>6, RequestsFrame DEF UploadInv, StoreInv
  <1> QED
    BY <1>2, <1>3 DEF MergeLookup, GetFileUploadRecord

LEMMA MergeCheckInv ==
    ASSUME UploadTypeOK, UploadInv, NEW w \in Worker, MergeCheck(w)
    PROVE  UploadInv'
  <1> USE DEF UploadTypeOK, StoresTypeOK
  <1> DEFINE u == req[w].user
             f == req[w].file
  <1>1. StoreInv' /\ IdsKept /\ chunkInfo \subseteq chunkInfo' /\ checked \subseteq checked'
    BY QuietStores DEF MergeCheck, storeVars, uploadStores
  <1>2. CASE Return(w)
    BY <1>1, <1>2, ReturnedOK, RequestsFrame DEF UploadInv, StoreInv
  <1>3. CASE ~(Cardinality(GetUploadedChunksFromRedis(u, f)) < Chunks[f])
             /\ Goto(w, "compose")
    <2>1. u \in User /\ f \in File
      BY DEF Request
    <2>2. GetUploadedChunksFromRedis(u, f) \subseteq ChunkIds(f)
      BY DEF GetUploadedChunksFromRedis
    <2>3. GetUploadedChunksFromRedis(u, f) = ChunkIds(f)
      BY <1>3, <2>1, <2>2, AllBits
    <2>4. ChunkIds(f) \subseteq marks[<<u, f>>]
      BY <2>3 DEF GetUploadedChunksFromRedis
    <2>5. Recorded(f)
      BY <2>1, <2>4 DEF UploadInv, MarkedRecorded, Recorded
    <2>6. Chunks[f] > 0 => <<u, f>> \in checked
      <3>1. Chunks[f] > 0 => 0 \in ChunkIds(f)
        BY <2>1, ChunksAssumption DEF ChunkIds
      <3> QED
        BY <2>1, <2>4, <3>1 DEF UploadInv, MarkedChecked
    <2>7. /\ req'[w] = [req[w] EXCEPT !.pc = "compose"]
          /\ \A x \in Worker \ {w} : req'[x] = req[x]
      BY <1>3, GotoKeeps
    <2>8. req'[w].pc = "compose" /\ req'[w].user = u /\ req'[w].file = f
          /\ req'[w].id = req[w].id
      BY <2>7 DEF Request
    <2>9. UNCHANGED <<fileUpload, nextId, chunkInfo, checked>>
      BY DEF MergeCheck, storeVars, uploadStores
    <2>10. MergeRequestOK(req[w]) /\ req[w].pc = "mergeCheck"
      BY DEF MergeCheck, At, UploadInv, RequestsOK
    <2> HIDE DEF u, f
    <2>11. ChunkRequestOK(req[w])'
      BY <2>8 DEF ChunkRequestOK, ChunkPc
    <2>12. MergeRequestOK(req[w])'
      BY <2>5, <2>6, <2>8, <2>9, <2>10 DEF MergeRequestOK, Recorded, u, f
    <2> QED
      BY <1>1, <2>7, <2>11, <2>12, RequestsFrame DEF UploadInv, StoreInv
  <1> QED
    BY <1>2, <1>3 DEF MergeCheck

LEMMA ComposeInv ==
    ASSUME UploadTypeOK, UploadInv, NEW w \in Worker, Compose(w)
    PROVE  UploadInv'
  <1> USE DEF UploadTypeOK, StoresTypeOK
  <1>1. StoreInv' /\ IdsKept /\ chunkInfo \subseteq chunkInfo' /\ checked \subseteq checked'
    BY QuietStores DEF Compose, uploadStores
  <1>2. CASE Return(w)
    BY <1>1, <1>2, ReturnedOK, RequestsFrame DEF UploadInv, StoreInv
  <1>3. CASE Chunks[req[w].file] > 0 /\ Goto(w, "status")
    <2>1. /\ req'[w].pc = "status" /\ req'[w].user = req[w].user
          /\ req'[w].file = req[w].file /\ req'[w].id = req[w].id
          /\ \A x \in Worker \ {w} : req'[x] = req[x]
      BY <1>3 DEF Goto, Request
    <2>2. UNCHANGED <<fileUpload, nextId, chunkInfo, checked>>
      BY DEF Compose, uploadStores
    <2>3. MergeRequestOK(req[w]) /\ req[w].pc = "compose"
      BY DEF Compose, At, UploadInv, RequestsOK
    <2>4. ChunkRequestOK(req[w])'
      BY <2>1 DEF ChunkRequestOK, ChunkPc
    <2>5. MergeRequestOK(req[w])'
      BY <1>3, <2>1, <2>2, <2>3 DEF MergeRequestOK, Recorded
    <2> QED
      BY <1>1, <2>1, <2>4, <2>5, RequestsFrame DEF UploadInv, StoreInv
  <1> QED
    BY <1>2, <1>3 DEF Compose

LEMMA SetCompletedInv ==
    ASSUME UploadTypeOK, UploadInv, NEW w \in Worker, SetCompleted(w)
    PROVE  UploadInv'
  <1> USE DEF UploadTypeOK, StoresTypeOK
  <1> DEFINE k0 == <<req[w].user, req[w].file>>
  <1>1. /\ req[w] \in Request /\ MergeRequestOK(req[w]) /\ req[w].pc = "status"
        /\ UNCHANGED <<nextId, marks, chunkInfo, checked>> /\ Goto(w, "produce")
    BY DEF SetCompleted, At, UploadInv, RequestsOK
  <1>2. \A k \in Key : fileUpload[k] \in Row
    OBVIOUS
  <1>3. \A k \in Key :
          /\ fileUpload'[k].id = fileUpload[k].id
          /\ fileUpload'[k].status = 1 => fileUpload[k].status = 1 \/ k = k0
    <2>1. ASSUME NEW k \in Key
          PROVE  \/ fileUpload'[k] = fileUpload[k]
                 \/ /\ fileUpload'[k] = [fileUpload[k] EXCEPT !.status = 1]
                    /\ fileUpload[k].id = req[w].id
      BY DEF SetCompleted, UpdateFileUploadStatus
    <2>2. \A k \in Key : fileUpload[k].id = req[w].id => k = k0
      BY <1>1 DEF MergeRequestOK
    <2> HIDE DEF k0
    <2> QED
      BY <1>2, <2>1, <2>2 DEF Row
  <1>4. /\ Recorded(req[w].file) /\ Chunks[req[w].file] > 0
        /\ k0 \in checked
    BY <1>1 DEF MergeRequestOK
  <1>5. IdsKept /\ (IdsUnique => IdsUnique')
    <2>0. nextId \in Nat
      OBVIOUS
    <2> HIDE DEF k0, UploadTypeOK, StoresTypeOK
    <2>1. UNCHANGED nextId /\ \A k \in Key : fileUpload'[k].id = fileUpload[k].id
      BY <1>1, <1>3
    <2>2. IdsKept
      BY <2>0, <2>1 DEF IdsKept
    <2>3. IdsUnique => IdsUnique'
      BY <2>1 DEF IdsUnique, Present
    <2> QED
      BY <2>2, <2>3
  <1>6. MarkedRecorded' /\ MarkedChecked'
    BY <1>1 DEF UploadInv, MarkedRecorded, MarkedChecked
  <1>7. CompletedRecorded' /\ CompletedChecked'
    <2>1. ASSUME NEW u \in User, NEW f \in File, fileUpload'[<<u, f>>].status = 1
          PROVE  Recorded(f) /\ <<u, f>> \in checked /\ Chunks[f] > 0
      <3>1. <<u, f>> \in Key
        BY DEF Key
      <3>2. CASE fileUpload[<<u, f>>].status = 1
        BY <3>2 DEF UploadInv, CompletedRecorded, CompletedChecked
      <3>3. CASE <<u, f>> = k0
        BY <1>4, <3>3
      <3> QED
        BY <1>3, <2>1, <3>1, <3>2, <3>3
    <2> QED
      BY <1>1, <2>1 DEF CompletedRecorded, CompletedChecked, Recorded
  <1>8. /\ ChunkRequestOK(req[w])' /\ MergeRequestOK(req[w])'
        /\ \A x \in Worker \ {w} : req'[x] = req[x]
    BY <1>1 DEF Goto, Request, ChunkRequestOK, MergeRequestOK, ChunkPc
  <1> QED
    BY <1>1, <1>5, <1>6, <1>7, <1>8, RequestsFrame DEF UploadInv

LEMMA ProduceInv ==
    ASSUME UploadTypeOK, UploadInv, NEW w \in Worker, Produce(w)
    PROVE  UploadInv'
  <1> USE DEF UploadTypeOK, StoresTypeOK
  <1>1. StoreInv' /\ IdsKept /\ chunkInfo \subseteq chunkInfo' /\ checked \subseteq checked'
    BY QuietStores DEF Produce, uploadStores
  <1>2. req'[w].pc = "unmark" /\ \A x \in Worker \ {w} : req'[x] = req[x]
    BY DEF Produce, Request
  <1>3. ChunkRequestOK(req[w])' /\ MergeRequestOK(req[w])'
    BY <1>2 DEF ChunkRequestOK, MergeRequestOK, ChunkPc
  <1> QED
    BY <1>1, <1>2, <1>3, RequestsFrame DEF UploadInv, StoreInv

-----------------------------------------------------------------------------
(* Clearing bits and removing chunk objects can break nothing that is      *)
(* stated of the bits that are set and of chunk_info.                      *)
LEMMA UnmarkInv ==
    ASSUME UploadTypeOK, UploadInv, NEW w \in Worker, Unmark(w)
    PROVE  UploadInv'
  <1> USE DEF UploadTypeOK, StoresTypeOK
  <1>1. UNCHANGED <<fileUpload, nextId, chunkInfo, checked>> /\ Goto(w, "remove")
    BY DEF Unmark
  <1>2. \A k \in Key : marks'[k] \subseteq marks[k]
    BY DEF Unmark, DeleteUploadMark
  <1>3. \A u \in User, f \in File : marks'[<<u, f>>] \subseteq marks[<<u, f>>]
    BY <1>2 DEF Key
  <1>4. MarkedRecorded'
    BY <1>1, <1>3 DEF UploadInv, MarkedRecorded
  <1>5. MarkedChecked'
    BY <1>1, <1>3 DEF UploadInv, MarkedChecked
  <1>6. IdsUnique' /\ IdsKept
    BY <1>1 DEF UploadInv, IdsUnique, IdsKept
  <1>7. CompletedRecorded' /\ CompletedChecked'
    BY <1>1 DEF UploadInv, CompletedRecorded, CompletedChecked, Recorded
  <1>8. req'[w].pc = "remove" /\ \A x \in Worker \ {w} : req'[x] = req[x]
    BY <1>1 DEF Goto, Request
  <1>9. ChunkRequestOK(req[w])' /\ MergeRequestOK(req[w])'
    BY <1>8 DEF ChunkRequestOK, MergeRequestOK, ChunkPc
  <1> QED
    BY <1>1, <1>4, <1>5, <1>6, <1>7, <1>8, <1>9, RequestsFrame DEF UploadInv

LEMMA RemoveChunkObjectInv ==
    ASSUME UploadTypeOK, UploadInv, NEW w \in Worker, NEW i \in req[w].left,
           RemoveChunkObject(w, i)
    PROVE  UploadInv'
  <1> USE DEF UploadTypeOK, StoresTypeOK
  <1>1. StoreInv' /\ IdsKept /\ chunkInfo \subseteq chunkInfo' /\ checked \subseteq checked'
    BY QuietStores DEF RemoveChunkObject
  <1>2. CASE Return(w)
    BY <1>1, <1>2, ReturnedOK, RequestsFrame DEF UploadInv, StoreInv
  <1>3. CASE req' = [req EXCEPT ![w].left = @ \ {i}]
    <2>1. req'[w].pc = "remove" /\ \A x \in Worker \ {w} : req'[x] = req[x]
      BY <1>3 DEF RemoveChunkObject, At, Request
    <2>2. ChunkRequestOK(req[w])' /\ MergeRequestOK(req[w])'
      BY <2>1 DEF ChunkRequestOK, MergeRequestOK, ChunkPc
    <2> QED
      BY <1>1, <2>1, <2>2, RequestsFrame DEF UploadInv, StoreInv
  <1> QED
    BY <1>2, <1>3 DEF RemoveChunkObject

LEMMA CallErrorInv ==
    ASSUME UploadTypeOK, UploadInv, NEW w \in Worker, CallError(w)
    PROVE  UploadInv'
  <1>1. StoreInv' /\ IdsKept /\ chunkInfo \subseteq chunkInfo' /\ checked \subseteq checked'
    BY QuietStores DEF CallError, storeVars, uploadStores
  <1>2. req \in [Worker -> Request] /\ Return(w)
    BY DEF CallError, UploadTypeOK
  <1> QED
    BY <1>1, <1>2, ReturnedOK, RequestsFrame DEF UploadInv, StoreInv

LEMMA CrashInv ==
    ASSUME UploadTypeOK, UploadInv, Crash
    PROVE  UploadInv'
  <1>1. StoreInv'
    BY QuietStores DEF Crash, storeVars, uploadStores
  <1>2. RequestsOK'
    BY DEF Crash, RequestsOK, Idle, ChunkRequestOK, MergeRequestOK, ChunkPc
  <1> QED
    BY <1>1, <1>2 DEF UploadInv, StoreInv

LEMMA StutterInv ==
    ASSUME UploadTypeOK, UploadInv, UNCHANGED uploadVars
    PROVE  UploadInv'
  <1>1. StoreInv' /\ IdsKept /\ chunkInfo \subseteq chunkInfo' /\ checked \subseteq checked'
    BY QuietStores DEF uploadVars, storeVars, uploadStores
  <1>2. RequestsOK'
    BY DEF uploadVars, storeVars, uploadStores, UploadInv, RequestsOK,
           ChunkRequestOK, MergeRequestOK, Recorded
  <1> QED
    BY <1>1, <1>2 DEF UploadInv, StoreInv

-----------------------------------------------------------------------------
LEMMA InvStep == UploadTypeOK /\ UploadInv /\ [UploadNext]_uploadVars => UploadInv'
  <1> SUFFICES ASSUME UploadTypeOK, UploadInv, [UploadNext]_uploadVars
               PROVE  UploadInv'
    OBVIOUS
  <1>1. ASSUME NEW w \in Worker, Arrive(w) PROVE UploadInv'
    <2>1. ASSUME NEW u \in User, NEW f \in File, NEW v \in Visibility,
                 NEW n \in Name, NEW i \in ChunkIds(f) \cup {0}, UploadChunk(w, u, f, i, v, n)
          PROVE  UploadInv'
      BY <2>1, ChunkIdsTyped, UploadChunkInv
    <2>2. ASSUME NEW u \in User, NEW f \in File, MergeChunks(w, u, f)
          PROVE  UploadInv'
      BY <2>2, MergeChunksInv
    <2> QED
      BY <1>1, <2>1, <2>2 DEF Arrive
  <1>2. ASSUME NEW w \in Worker, Step(w) PROVE UploadInv'
    BY <1>2, FindRecordInv, CreateRecordInv, CheckMarkInv, PutChunkInv,
       CreateChunkInfoInv, MarkChunkInv, MergeLookupInv, MergeCheckInv, ComposeInv,
       SetCompletedInv, ProduceInv, UnmarkInv, RemoveChunkObjectInv DEF Step
  <1>3. ASSUME NEW w \in Worker, CallError(w) PROVE UploadInv'
    BY <1>3, CallErrorInv
  <1> QED
    BY <1>1, <1>2, <1>3, CrashInv, StutterInv DEF UploadNext

(* The inductive invariant holds in every behaviour of the upload service, *)
(* whatever calls fail, requests interleave and crashes occur.             *)
THEOREM UploadInvariant == UploadSpec => []UploadInv
  BY TypeInit, TypeStep, InvInit, InvStep, PTL DEF UploadSpec

(* A set bit always has its row in chunk_info: IsChunkUploaded never makes *)
(* UploadChunk skip a chunk whose row was not written.                     *)
THEOREM MarkedAreRecorded == UploadSpec => []MarkedRecorded
  <1>1. UploadInv => MarkedRecorded
    BY DEF UploadInv
  <1> QED
    BY <1>1, UploadInvariant, PTL

(* A completed record has the row of every chunk of its file, although the *)
(* merge only compared the number of set bits with the number of chunks.   *)
THEOREM CompletedAreRecorded == UploadSpec => []CompletedRecorded
  <1>1. UploadInv => CompletedRecorded
    BY DEF UploadInv
  <1> QED
    BY <1>1, UploadInvariant, PTL

(* The type check on chunk 0 cannot be skipped: no upload is completed     *)
(* whose chunk 0 was never let through, whatever crashed or failed, was    *)
(* deleted or was uploaded by another user; and no empty file is.          *)
THEOREM CompletedAreChecked == UploadSpec => []CompletedChecked
  <1>1. UploadInv => CompletedChecked
    BY DEF UploadInv
  <1> QED
    BY <1>1, UploadInvariant, PTL

-----------------------------------------------------------------------------
(* What a merge knows: from its lookup on, the record of its user and file *)
(* is the one it read; past the composition the object is there; when it   *)
(* sends the task the record is completed.                                 *)
Own(r) == fileUpload[<<r.user, r.file>>]

MergeProgress(r) ==
    /\ r.pc \in {"mergeCheck", "compose", "status", "produce"} =>
          Present(Own(r)) /\ Own(r).vis = r.vis
    /\ r.pc \in {"mergeCheck", "compose", "status"} => Own(r).id = r.id
    /\ r.pc \in {"status", "produce"} => r.file \in mergedObject
    /\ r.pc = "produce" => Own(r).status = 1

CompletedPresent == \A k \in Key : fileUpload[k].status = 1 => Present(fileUpload[k])

TaskInv ==
    /\ CompletedStored
    /\ TaskAfterMerge
    /\ CompletedPresent
    /\ \A w \in Worker : MergeProgress(req[w])

(* The upload service deletes no row, changes no visibility and takes no   *)
(* completed status back; it deletes no merged object.                     *)
RecordsKept ==
    /\ \A k \in Key : Present(fileUpload[k]) =>
          /\ Present(fileUpload'[k])
          /\ fileUpload'[k].id = fileUpload[k].id
          /\ fileUpload'[k].vis = fileUpload[k].vis
          /\ fileUpload[k].status = 1 => fileUpload'[k].status = 1
    /\ mergedObject \subseteq mergedObject'

LEMMA QueueGrows ==
    ASSUME topic \in [Partition -> Seq(Task)], NEW task \in Task, ProduceFileTask(task)
    PROVE  /\ task \in QueuedTasks'
           /\ QueuedTasks \subseteq QueuedTasks'
           /\ QueuedTasks' \subseteq QueuedTasks \cup {task}
  <1>1. PICK p \in Partition :
              /\ topic' = [topic EXCEPT ![p] = Append(@, task)]
              /\ topic' \in [Partition -> Seq(Task)]
              /\ Len(topic'[p]) = Len(topic[p]) + 1 /\ topic'[p][Len(topic[p]) + 1] = task
              /\ \A o \in 1 .. Len(topic[p]) : topic'[p][o] = topic[p][o]
    BY TaskProduced
  <1>2. \A q \in Partition \ {p} : topic'[q] = topic[q]
    BY <1>1
  <1>3. /\ Len(topic[p]) \in Nat
        /\ DOMAIN topic[p] = 1 .. Len(topic[p])
        /\ DOMAIN topic'[p] = 1 .. Len(topic[p]) + 1
    BY <1>1
  <1>4. task \in QueuedTasks'
    BY <1>1, <1>3 DEF QueuedTasks
  <1>5. ASSUME NEW t \in QueuedTasks PROVE t \in QueuedTasks'
    <2>1. PICK q \in Partition : \E i \in DOMAIN topic[q] : t = topic[q][i]
      BY <1>5 DEF QueuedTasks
    <2>2. CASE q = p
      BY <1>1, <1>3, <2>1, <2>2 DEF QueuedTasks
    <2>3. CASE q # p
      BY <1>2, <2>1, <2>3 DEF QueuedTasks
    <2> QED
      BY <2>2, <2>3
  <1>6. ASSUME NEW t \in QueuedTasks' PROVE t \in QueuedTasks \/ t = task
    <2>1. PICK q \in Partition : \E i \in DOMAIN topic'[q] : t = topic'[q][i]
      BY <1>6 DEF QueuedTasks
    <2>2. CASE q = p
      <3>1. PICK i \in 1 .. Len(topic[p]) + 1 : t = topic'[p][i]
        BY <1>3, <2>1, <2>2
      <3>2. CASE i \in 1 .. Len(topic[p])
        BY <1>1, <1>3, <3>1, <3>2 DEF QueuedTasks
      <3>3. CASE i = Len(topic[p]) + 1
        BY <1>1, <3>1, <3>3
      <3> QED
        BY <1>3, <3>2, <3>3
    <2>3. CASE q # p
      BY <1>2, <2>1, <2>3 DEF QueuedTasks
    <2> QED
      BY <2>2, <2>3
  <1> QED
    BY <1>4, <1>5, <1>6

LEMMA QueueTyped ==
    ASSUME UploadTypeOK
    PROVE  \A t \in QueuedTasks : t \in Task /\ <<t.user, t.file>> \in Key
  <1>1. \A p \in Partition : topic[p] \in Seq(Task)
    BY DEF UploadTypeOK, StoresTypeOK
  <1>2. ASSUME NEW t \in QueuedTasks PROVE t \in Task
    <2>1. PICK p \in Partition : \E i \in DOMAIN topic[p] : t = topic[p][i]
      BY DEF QueuedTasks
    <2> QED
      BY <1>1, <2>1
  <1> QED
    BY <1>2 DEF Task, Key

-----------------------------------------------------------------------------
(* What a request knows is not disturbed by the steps of others.           *)
LEMMA ProgressKept ==
    ASSUME UploadTypeOK, RecordsKept, NEW r \in Request, MergeProgress(r)
    PROVE  MergeProgress(r)'
  <1>1. <<r.user, r.file>> \in Key
    BY DEF Request, Key
  <1> QED
    BY <1>1 DEF MergeProgress, Own, RecordsKept

(* A step of request w that completes no record and queues no task.        *)
LEMMA TaskFrame ==
    ASSUME UploadTypeOK, TaskInv, NEW w \in Worker,
           \A x \in Worker \ {w} : req'[x] = req[x],
           MergeProgress(req[w])', RecordsKept, UNCHANGED topic,
           \A k \in Key : fileUpload'[k].status = 1 => fileUpload[k].status = 1
    PROVE  TaskInv'
  <1>1. CompletedStored' /\ CompletedPresent'
    BY DEF TaskInv, CompletedStored, CompletedPresent, RecordsKept, Key
  <1>2. TaskAfterMerge'
    <2>1. QueuedTasks' = QueuedTasks
      BY DEF QueuedTasks
    <2>2. ASSUME NEW t \in QueuedTasks
          PROVE  /\ t.file \in mergedObject'
                 /\ fileUpload'[<<t.user, t.file>>].status = 1
                 /\ fileUpload'[<<t.user, t.file>>].vis = t.vis
      <3>1. <<t.user, t.file>> \in Key
        BY QueueTyped
      <3> QED
        BY <3>1 DEF TaskInv, TaskAfterMerge, CompletedPresent, RecordsKept
    <2> QED
      BY <2>1, <2>2 DEF TaskAfterMerge
  <1>3. ASSUME NEW x \in Worker PROVE MergeProgress(req[x])'
    <2>1. CASE x = w
      BY <2>1
    <2>2. CASE x # w
      <3>1. req[x] \in Request /\ MergeProgress(req[x]) /\ req'[x] = req[x]
        BY <2>2 DEF UploadTypeOK, TaskInv
      <3>2. PICK r \in Request : r = req[x]
        BY <3>1
      <3>3. MergeProgress(r)'
        BY <3>1, <3>2, ProgressKept
      <3> QED
        BY <3>1, <3>2, <3>3
    <2> QED
      BY <2>1, <2>2
  <1> QED
    BY <1>1, <1>2, <1>3 DEF TaskInv

(* Steps that write none of the stores the invariant speaks of.            *)
LEMMA QuietTasks ==
    ASSUME UploadTypeOK, TaskInv, NEW w \in Worker,
           \A x \in Worker \ {w} : req'[x] = req[x],
           MergeProgress(req[w])', UNCHANGED <<fileUpload, mergedObject, topic>>
    PROVE  TaskInv'
  <1>1. RecordsKept
    BY DEF RecordsKept
  <1> QED
    BY <1>1, TaskFrame

LEMMA ReturnedProgress ==
    ASSUME UploadTypeOK, NEW w \in Worker, Return(w)
    PROVE  /\ MergeProgress(req[w])' /\ req'[w].pc = "idle"
           /\ \A x \in Worker \ {w} : req'[x] = req[x]
  BY DEF UploadTypeOK, Return, Idle, MergeProgress

LEMMA MovedRequest ==
    ASSUME UploadTypeOK, NEW w \in Worker, NEW pc, Goto(w, pc)
    PROVE  /\ req'[w].pc = pc /\ req'[w].user = req[w].user
           /\ req'[w].file = req[w].file /\ req'[w].id = req[w].id
           /\ req'[w].vis = req[w].vis
           /\ \A x \in Worker \ {w} : req'[x] = req[x]
  BY DEF UploadTypeOK, Goto, Request

LEMMA TaskInit == UploadInit => TaskInv
  <1> SUFFICES ASSUME UploadInit PROVE TaskInv
    OBVIOUS
  <1>0. NoRow.status = 0
    BY DEF NoRow
  <1>1. \A k \in Key : fileUpload[k].status = 0
    BY <1>0 DEF UploadInit, RequestsInit, StoresInit
  <1>2. CompletedStored /\ CompletedPresent
    BY <1>1 DEF CompletedStored, CompletedPresent, Key
  <1>3. QueuedTasks = {}
    BY DEF UploadInit, RequestsInit, StoresInit, QueuedTasks
  <1>4. \A w \in Worker : MergeProgress(req[w])
    BY DEF UploadInit, RequestsInit, Idle, MergeProgress
  <1> QED
    BY <1>2, <1>3, <1>4 DEF TaskInv, TaskAfterMerge

-----------------------------------------------------------------------------
(* The steps of a chunk request, of the cleanup and of a failing call.     *)
OtherStep(w) ==
    \/ \E u \in User, f \in File, i \in Nat, v \in Visibility, n \in Name :
          UploadChunk(w, u, f, i, v, n)
    \/ \E u \in User, f \in File : MergeChunks(w, u, f)
    \/ FindRecord(w) \/ CheckMark(w) \/ PutChunk(w) \/ CreateChunkInfo(w)
    \/ MarkChunk(w) \/ Unmark(w) \/ CallError(w)
    \/ \E i \in req[w].left : RemoveChunkObject(w, i)

LEMMA OtherStepQuiet ==
    ASSUME UploadTypeOK, NEW w \in Worker, OtherStep(w)
    PROVE  /\ UNCHANGED <<fileUpload, mergedObject, topic>>
           /\ \A x \in Worker \ {w} : req'[x] = req[x]
           /\ req'[w].pc \notin {"mergeCheck", "compose", "status", "produce"}
           /\ req'[w].pc \in CleanupPc =>
                 /\ req[w].pc \in CleanupPc /\ req'[w].user = req[w].user
                 /\ req'[w].file = req[w].file
  <1>1. ASSUME NEW u \in User, NEW f \in File, NEW i \in Nat, NEW v \in Visibility,
               NEW n \in Name, UploadChunk(w, u, f, i, v, n)
        PROVE  /\ UNCHANGED storeVars /\ req'[w].pc = "lookup"
               /\ \A x \in Worker \ {w} : req'[x] = req[x]
    BY <1>1 DEF UploadChunk, UploadTypeOK, Idle
  <1>2. ASSUME NEW u \in User, NEW f \in File, MergeChunks(w, u, f)
        PROVE  /\ UNCHANGED storeVars /\ req'[w].pc = "mergeLookup"
               /\ \A x \in Worker \ {w} : req'[x] = req[x]
    BY <1>2 DEF MergeChunks, UploadTypeOK, Idle
  <1>3. CASE FindRecord(w) \/ CheckMark(w) \/ PutChunk(w) \/ CreateChunkInfo(w)
             \/ MarkChunk(w) \/ CallError(w)
    <2>1. /\ UNCHANGED <<fileUpload, mergedObject, topic>>
          /\ \/ Return(w)
             \/ \E pc \in ChunkPc : Goto(w, pc)
      BY <1>3 DEF FindRecord, CheckMark, PutChunk, CreateChunkInfo, MarkChunk, CallError,
                  storeVars, uploadStores, ChunkPc
    <2> QED
      BY <2>1, ReturnedProgress, MovedRequest DEF ChunkPc, CleanupPc
  <1>4. CASE Unmark(w)
    BY <1>4, MovedRequest DEF Unmark, At, CleanupPc
  <1>5. ASSUME NEW i \in req[w].left, RemoveChunkObject(w, i)
        PROVE  /\ UNCHANGED <<fileUpload, mergedObject, topic>> /\ req[w].pc = "remove"
               /\ \A x \in Worker \ {w} : req'[x] = req[x]
               /\ \/ req'[w].pc = "idle"
                  \/ /\ req'[w].pc = "remove" /\ req'[w].user = req[w].user
                     /\ req'[w].file = req[w].file
    <2>1. UNCHANGED <<fileUpload, mergedObject, topic>> /\ req[w].pc = "remove"
      BY <1>5 DEF RemoveChunkObject, At
    <2>2. CASE Return(w)
      BY <2>1, <2>2, ReturnedProgress
    <2>3. CASE req' = [req EXCEPT ![w].left = @ \ {i}]
      BY <2>1, <2>3 DEF UploadTypeOK, Request
    <2> QED
      BY <1>5, <2>2, <2>3, <2>1 DEF RemoveChunkObject
  <1> QED
    <2> USE DEF storeVars, uploadStores, CleanupPc
    <2>1. CASE \E u \in User, f \in File, i \in Nat, v \in Visibility, n \in Name :
                  UploadChunk(w, u, f, i, v, n)
      BY <1>1, <2>1
    <2>2. CASE \E u \in User, f \in File : MergeChunks(w, u, f)
      BY <1>2, <2>2
    <2>3. CASE \E i \in req[w].left : RemoveChunkObject(w, i)
      BY <1>5, <2>3
    <2> QED
      BY <1>3, <1>4, <2>1, <2>2, <2>3 DEF OtherStep

LEMMA OtherTasks ==
    ASSUME UploadTypeOK, TaskInv, NEW w \in Worker, OtherStep(w)
    PROVE  TaskInv'
  <1>1. MergeProgress(req[w])'
    BY OtherStepQuiet DEF MergeProgress
  <1> QED
    BY <1>1, OtherStepQuiet, QuietTasks

LEMMA CreateRecordTasks ==
    ASSUME UploadTypeOK, TaskInv, IdsUnique, NEW w \in Worker, CreateRecord(w)
    PROVE  TaskInv'
  <1> DEFINE k0 == <<req[w].user, req[w].file>>
             new == [id |-> nextId, status |-> 0, vstatus |-> "pending",
                     vis |-> req[w].vis, actual |-> 0]
  <1>0. k0 \in Key /\ UNCHANGED <<mergedObject, topic>>
    BY DEF CreateRecord, UploadTypeOK, Request, Key
  <1>1. CASE Return(w) /\ UNCHANGED <<fileUpload, nextId>>
    BY <1>0, <1>1, ReturnedProgress, QuietTasks
  <1>2. CASE /\ ~Present(fileUpload[k0]) /\ Goto(w, "isUploaded")
             /\ CreateFileUploadRecord(req[w].user, req[w].file, req[w].vis)
    <2>1. fileUpload' = [fileUpload EXCEPT ![k0] = new]
      BY <1>2 DEF CreateFileUploadRecord
    <2>2. new.status = 0
      OBVIOUS
    <2> HIDE DEF new, k0
    <2>3. \A k \in Key : fileUpload'[k] = IF k = k0 THEN new ELSE fileUpload[k]
      BY <2>1 DEF UploadTypeOK, StoresTypeOK
    <2>4. RecordsKept
      BY <1>0, <1>2, <2>3 DEF RecordsKept
    <2>5. \A k \in Key : fileUpload'[k].status = 1 => fileUpload[k].status = 1
      BY <2>2, <2>3
    <2>6. req'[w].pc = "isUploaded" /\ \A x \in Worker \ {w} : req'[x] = req[x]
      BY <1>2, MovedRequest
    <2>7. MergeProgress(req[w])'
      BY <2>6 DEF MergeProgress
    <2> QED
      BY <1>0, <2>4, <2>5, <2>6, <2>7, TaskFrame
  <1> QED
    BY <1>1, <1>2 DEF CreateRecord

LEMMA MergeLookupTasks ==
    ASSUME UploadTypeOK, TaskInv, NEW w \in Worker, MergeLookup(w)
    PROVE  TaskInv'
  <1> DEFINE k0 == <<req[w].user, req[w].file>>
             next == [req[w] EXCEPT !.pc = "mergeCheck", !.id = fileUpload[k0].id,
                                    !.vis = fileUpload[k0].vis]
  <1>1. UNCHANGED <<fileUpload, mergedObject, topic>>
    BY DEF MergeLookup, storeVars, uploadStores
  <1>2. CASE Return(w)
    BY <1>1, <1>2, ReturnedProgress, QuietTasks
  <1>3. CASE Present(fileUpload[k0]) /\ req' = [req EXCEPT ![w] = next]
    <2>1. /\ next.pc = "mergeCheck" /\ <<next.user, next.file>> = k0
          /\ next.id = fileUpload[k0].id /\ next.vis = fileUpload[k0].vis
      BY DEF UploadTypeOK, Request
    <2> HIDE DEF next, k0
    <2>2. req'[w] = next /\ \A x \in Worker \ {w} : req'[x] = req[x]
      BY <1>3 DEF UploadTypeOK
    <2>3. MergeProgress(req[w])'
      BY <1>1, <1>3, <2>1, <2>2 DEF MergeProgress, Own
    <2> QED
      BY <1>1, <2>2, <2>3, QuietTasks
  <1> QED
    BY <1>2, <1>3 DEF MergeLookup, GetFileUploadRecord

LEMMA MergeCheckTasks ==
    ASSUME UploadTypeOK, TaskInv, NEW w \in Worker, MergeCheck(w)
    PROVE  TaskInv'
  <1>1. UNCHANGED <<fileUpload, mergedObject, topic>>
    BY DEF MergeCheck, storeVars, uploadStores
  <1>2. CASE Return(w)
    BY <1>1, <1>2, ReturnedProgress, QuietTasks
  <1>3. CASE Goto(w, "compose")
    <2>1. MergeProgress(req[w]) /\ req[w].pc = "mergeCheck"
      BY DEF TaskInv, MergeCheck, At
    <2>2. MergeProgress(req[w])'
      BY <1>1, <1>3, <2>1, MovedRequest DEF MergeProgress, Own
    <2> QED
      BY <1>1, <1>3, <2>2, MovedRequest, QuietTasks
  <1> QED
    BY <1>2, <1>3 DEF MergeCheck

LEMMA ComposeTasks ==
    ASSUME UploadTypeOK, TaskInv, NEW w \in Worker, Compose(w)
    PROVE  TaskInv'
  <1>1. UNCHANGED <<fileUpload, topic>>
    BY DEF Compose, uploadStores
  <1>2. CASE Return(w) /\ UNCHANGED mergedObject
    BY <1>1, <1>2, ReturnedProgress, QuietTasks
  <1>3. CASE mergedObject' = mergedObject \cup {req[w].file} /\ Goto(w, "status")
    <2>1. MergeProgress(req[w]) /\ req[w].pc = "compose"
      BY DEF TaskInv, Compose, At
    <2>2. RecordsKept
      BY <1>1, <1>3 DEF RecordsKept
    <2>3. MergeProgress(req[w])'
      BY <1>1, <1>3, <2>1, MovedRequest DEF MergeProgress, Own
    <2> QED
      BY <1>1, <1>3, <2>2, <2>3, MovedRequest, TaskFrame
  <1> QED
    BY <1>2, <1>3 DEF Compose

(* The only step that completes a record; ids tell it which one.           *)
LEMMA SetCompletedTasks ==
    ASSUME UploadTypeOK, TaskInv, IdsUnique, NEW w \in Worker, SetCompleted(w)
    PROVE  TaskInv'
  <1> DEFINE k0 == <<req[w].user, req[w].file>>
  <1>1. /\ MergeProgress(req[w]) /\ req[w].pc = "status"
        /\ UNCHANGED <<mergedObject, topic>> /\ Goto(w, "produce")
    BY DEF SetCompleted, At, TaskInv
  <1>2. /\ k0 \in Key /\ Present(fileUpload[k0]) /\ fileUpload[k0].id = req[w].id
        /\ fileUpload[k0].vis = req[w].vis /\ req[w].file \in mergedObject
    BY <1>1 DEF MergeProgress, Own, UploadTypeOK, Request, Key
  <1>3. \A k \in Key :
          /\ fileUpload'[k].id = fileUpload[k].id
          /\ fileUpload'[k].vis = fileUpload[k].vis
          /\ fileUpload'[k].status = IF k = k0 THEN 1 ELSE fileUpload[k].status
    <2>1. ASSUME NEW k \in Key
          PROVE  fileUpload'[k] = IF Present(fileUpload[k]) /\ fileUpload[k].id = req[w].id
                                  THEN [fileUpload[k] EXCEPT !.status = 1]
                                  ELSE fileUpload[k]
      BY DEF SetCompleted, UpdateFileUploadStatus
    <2>2. \A k \in Key : Present(fileUpload[k]) /\ fileUpload[k].id = req[w].id <=> k = k0
      BY <1>2 DEF IdsUnique
    <2>3. \A k \in Key : fileUpload[k] \in Row
      BY DEF UploadTypeOK, StoresTypeOK
    <2> HIDE DEF k0
    <2> QED
      BY <2>1, <2>2, <2>3 DEF Row
  <1> HIDE DEF k0
  <1>4. RecordsKept
    BY <1>1, <1>3 DEF RecordsKept, Present
  <1>5. CompletedStored'
    <2>1. ASSUME NEW u \in User, NEW f \in File, fileUpload'[<<u, f>>].status = 1
          PROVE  f \in mergedObject'
      <3>1. <<u, f>> \in Key
        BY DEF Key
      <3> QED
        BY <1>1, <1>2, <1>3, <2>1, <3>1 DEF TaskInv, CompletedStored, k0
    <2> QED
      BY <2>1 DEF CompletedStored
  <1>6. CompletedPresent'
    BY <1>2, <1>3, <1>4 DEF TaskInv, CompletedPresent, RecordsKept
  <1>7. TaskAfterMerge'
    <2>1. QueuedTasks' = QueuedTasks
      BY <1>1 DEF QueuedTasks
    <2>2. ASSUME NEW t \in QueuedTasks
          PROVE  /\ t.file \in mergedObject'
                 /\ fileUpload'[<<t.user, t.file>>].status = 1
                 /\ fileUpload'[<<t.user, t.file>>].vis = t.vis
      <3>1. <<t.user, t.file>> \in Key
        BY QueueTyped
      <3> QED
        BY <1>1, <1>3, <3>1 DEF TaskInv, TaskAfterMerge
    <2> QED
      BY <2>1, <2>2 DEF TaskAfterMerge
  <1>8. ASSUME NEW x \in Worker PROVE MergeProgress(req[x])'
    <2>1. CASE x = w
      <3>1. /\ req'[w].pc = "produce" /\ <<req'[w].user, req'[w].file>> = k0
            /\ req'[w].file = req[w].file /\ req'[w].vis = req[w].vis
        BY <1>1, MovedRequest DEF k0
      <3> QED
        BY <1>1, <1>2, <1>3, <1>4, <2>1, <3>1 DEF MergeProgress, Own, RecordsKept
    <2>2. CASE x # w
      <3>1. req[x] \in Request /\ MergeProgress(req[x]) /\ req'[x] = req[x]
        BY <1>1, <2>2, MovedRequest DEF UploadTypeOK, TaskInv
      <3>2. PICK r \in Request : r = req[x]
        BY <3>1
      <3>3. MergeProgress(r)'
        BY <1>4, <3>1, <3>2, ProgressKept
      <3> QED
        BY <3>1, <3>2, <3>3
    <2> QED
      BY <2>1, <2>2
  <1> QED
    BY <1>5, <1>6, <1>7, <1>8 DEF TaskInv

(* The only step that queues a task; the record it speaks of is completed. *)
LEMMA ProduceStep ==
    ASSUME UploadTypeOK, NEW w \in Worker, Produce(w)
    PROVE  /\ UNCHANGED <<fileUpload, mergedObject>>
           /\ req'[w].pc = "unmark" /\ req'[w].user = req[w].user
           /\ req'[w].file = req[w].file
           /\ \A x \in Worker \ {w} : req'[x] = req[x]
  BY DEF Produce, uploadStores, UploadTypeOK, Request

LEMMA ProduceTasks ==
    ASSUME UploadTypeOK, TaskInv, NEW w \in Worker, Produce(w)
    PROVE  TaskInv'
  <1>1. MergeProgress(req[w])'
    BY ProduceStep DEF MergeProgress
  <1>2. CASE UNCHANGED topic
    BY <1>1, <1>2, ProduceStep, QuietTasks
  <1> DEFINE task == [user |-> req[w].user, file |-> req[w].file, vis |-> req[w].vis]
  <1>3. CASE ProduceFileTask(task)
    <2>1. task \in Task
      BY DEF UploadTypeOK, Request, Task
    <2>2. /\ task.file \in mergedObject /\ fileUpload[<<task.user, task.file>>].status = 1
          /\ fileUpload[<<task.user, task.file>>].vis = task.vis
      <3>1. MergeProgress(req[w]) /\ req[w].pc = "produce"
        BY DEF TaskInv, Produce, At
      <3> QED
        BY <3>1 DEF MergeProgress, Own
    <2> HIDE DEF task
    <2>3. QueuedTasks' \subseteq QueuedTasks \cup {task}
      BY <1>3, <2>1, QueueGrows DEF UploadTypeOK, StoresTypeOK
    <2>4. TaskAfterMerge'
      <3>1. ASSUME NEW t \in QueuedTasks \cup {task}
            PROVE  /\ t.file \in mergedObject
                   /\ fileUpload[<<t.user, t.file>>].status = 1
                   /\ fileUpload[<<t.user, t.file>>].vis = t.vis
        BY <2>2 DEF TaskInv, TaskAfterMerge
      <3>2. UNCHANGED <<fileUpload, mergedObject>>
        BY ProduceStep
      <3> QED
        BY <2>3, <3>1, <3>2 DEF TaskAfterMerge
    <2>5. CompletedStored' /\ CompletedPresent'
      BY ProduceStep DEF TaskInv, CompletedStored, CompletedPresent
    <2>6. \A x \in Worker : MergeProgress(req[x])'
      BY <1>1, ProduceStep DEF TaskInv, MergeProgress, Own
    <2> QED
      BY <2>4, <2>5, <2>6 DEF TaskInv
  <1> QED
    BY <1>2, <1>3 DEF Produce

LEMMA TaskStep ==
    UploadTypeOK /\ UploadInv /\ TaskInv /\ [UploadNext]_uploadVars => TaskInv'
  <1> SUFFICES ASSUME UploadTypeOK, UploadInv, TaskInv, [UploadNext]_uploadVars
               PROVE  TaskInv'
    OBVIOUS
  <1>0. IdsUnique
    BY DEF UploadInv
  <1>1. ASSUME NEW w \in Worker, Arrive(w) PROVE TaskInv'
    <2>1. OtherStep(w)
      <3>1. \A f \in File : ChunkIds(f) \cup {0} \subseteq Nat
        BY ChunkIdsTyped
      <3> QED
        BY <1>1, <3>1 DEF Arrive, OtherStep
    <2> QED
      BY <2>1, OtherTasks
  <1>2. ASSUME NEW w \in Worker, Step(w) PROVE TaskInv'
    <2>1. \/ OtherStep(w) \/ CreateRecord(w) \/ MergeLookup(w) \/ MergeCheck(w)
          \/ Compose(w) \/ SetCompleted(w) \/ Produce(w)
      BY <1>2 DEF Step, OtherStep
    <2> QED
      BY <1>0, <2>1, OtherTasks, CreateRecordTasks, MergeLookupTasks, MergeCheckTasks,
         ComposeTasks, SetCompletedTasks, ProduceTasks
  <1>3. ASSUME NEW w \in Worker, CallError(w) PROVE TaskInv'
    BY <1>3, OtherTasks DEF OtherStep
  <1>4. ASSUME UNCHANGED <<fileUpload, mergedObject, topic>>,
               \A w \in Worker : MergeProgress(req[w])'
        PROVE  TaskInv'
    BY <1>4 DEF TaskInv, CompletedStored, CompletedPresent, TaskAfterMerge, QueuedTasks
  <1>5. CASE Crash
    BY <1>4, <1>5 DEF Crash, storeVars, uploadStores, MergeProgress, Idle
  <1>6. CASE UNCHANGED uploadVars
    BY <1>4, <1>6 DEF uploadVars, storeVars, uploadStores, TaskInv, MergeProgress, Own
  <1> QED
    BY <1>1, <1>2, <1>3, <1>5, <1>6 DEF UploadNext

-----------------------------------------------------------------------------
(* As long as only the upload service runs, what every merge knows of its  *)
(* own record and object stays true until its task is queued.              *)
THEOREM MergesProgress == UploadSpec => []TaskInv
  BY UploadTypeCorrect, UploadInvariant, TaskInit, TaskStep, PTL DEF UploadSpec

(* A record that MergeChunks completed has its merged object in the object *)
(* store, whatever crashed or failed since, and however many merges of the *)
(* same file by other users interleave.                                    *)
THEOREM CompletedAreStored == UploadSpec => []CompletedStored
  <1>1. TaskInv => CompletedStored
    BY DEF TaskInv
  <1> QED
    BY <1>1, MergesProgress, PTL

(* ProduceFileTask only ever sends tasks the pipeline can serve: the       *)
(* object to download exists, the record to update is completed, and the   *)
(* task carries the visibility of that record.                             *)
THEOREM TasksFollowMerges == UploadSpec => []TaskAfterMerge
  <1>1. TaskInv => TaskAfterMerge
    BY DEF TaskInv
  <1> QED
    BY <1>1, MergesProgress, PTL

-----------------------------------------------------------------------------
(* The cleanup.  The queue only grows, and only Produce starts a cleanup.  *)
LEMMA CleanupStep ==
    ASSUME "Produce" \notin Faulty, UploadTypeOK, CleanupAfterQueued,
           [UploadNext]_uploadVars
    PROVE  CleanupAfterQueued'
  <1> DEFINE Sent(r) == \E t \in QueuedTasks : t.user = r.user /\ t.file = r.file
             Harmless(w) == /\ UNCHANGED topic
                            /\ \A x \in Worker \ {w} : req'[x] = req[x]
                            /\ req'[w].pc \in CleanupPc =>
                                  /\ req[w].pc \in CleanupPc
                                  /\ req'[w].user = req[w].user
                                  /\ req'[w].file = req[w].file
  <1>1. ASSUME NEW w \in Worker, Harmless(w) PROVE CleanupAfterQueued'
    <2>1. QueuedTasks' = QueuedTasks
      BY <1>1 DEF QueuedTasks
    <2> QED
      BY <1>1, <2>1 DEF CleanupAfterQueued
  <1>2. ASSUME NEW w \in Worker, OtherStep(w) PROVE CleanupAfterQueued'
    BY <1>1, <1>2, OtherStepQuiet
  <1>3. ASSUME NEW w \in Worker,
               \/ CreateRecord(w) \/ MergeLookup(w) \/ MergeCheck(w) \/ Compose(w)
               \/ SetCompleted(w)
        PROVE  CleanupAfterQueued'
    <2>1. /\ UNCHANGED topic
          /\ \A x \in Worker \ {w} : req'[x] = req[x]
          /\ req'[w].pc \notin CleanupPc
      <3>1. CASE MergeLookup(w) /\ ~Return(w)
        BY <3>1 DEF MergeLookup, storeVars, UploadTypeOK, Request, CleanupPc
      <3>2. CASE ~MergeLookup(w) \/ Return(w)
        <4>1. UNCHANGED topic
          BY <1>3 DEF CreateRecord, MergeLookup, MergeCheck, Compose, SetCompleted, storeVars
        <4>2. Return(w) \/ \E pc \in {"isUploaded", "compose", "status", "produce"} : Goto(w, pc)
          BY <1>3, <3>2 DEF CreateRecord, MergeCheck, Compose, SetCompleted
        <4> QED
          BY <4>1, <4>2, ReturnedProgress, MovedRequest DEF CleanupPc
      <3> QED
        BY <3>1, <3>2
    <2> QED
      BY <1>1, <2>1
  <1>4. ASSUME NEW w \in Worker, Produce(w) PROVE CleanupAfterQueued'
    <2> DEFINE task == [user |-> req[w].user, file |-> req[w].file, vis |-> req[w].vis]
    <2>1. task \in Task
      BY DEF UploadTypeOK, Request, Task
    <2>2. ProduceFileTask(task)
      BY <1>4 DEF Produce, MayFail
    <2>3. task.user = req'[w].user /\ task.file = req'[w].file
      BY <1>4, ProduceStep
    <2> HIDE DEF task
    <2>4. task \in QueuedTasks' /\ QueuedTasks \subseteq QueuedTasks'
      BY <2>1, <2>2, QueueGrows DEF UploadTypeOK, StoresTypeOK
    <2> QED
      BY <1>4, <2>3, <2>4, ProduceStep DEF CleanupAfterQueued
  <1>5. CASE Crash
    BY <1>5 DEF Crash, CleanupAfterQueued, Idle, CleanupPc
  <1>6. CASE UNCHANGED uploadVars
    BY <1>6 DEF uploadVars, storeVars, CleanupAfterQueued, QueuedTasks
  <1> HIDE DEF Harmless
  <1>7. ASSUME NEW w \in Worker, Arrive(w) \/ Step(w) \/ CallError(w)
        PROVE  CleanupAfterQueued'
    <2>1. \A f \in File : ChunkIds(f) \cup {0} \subseteq Nat
      BY ChunkIdsTyped
    <2>2. \/ OtherStep(w) \/ CreateRecord(w) \/ MergeLookup(w) \/ MergeCheck(w)
          \/ Compose(w) \/ SetCompleted(w) \/ Produce(w)
      BY <1>7, <2>1 DEF Arrive, Step, OtherStep
    <2> QED
      BY <1>2, <1>3, <1>4, <2>2
  <1> QED
    BY <1>5, <1>6, <1>7 DEF UploadNext

(* As long as Kafka accepts messages, the bitmap and the chunk objects of  *)
(* an upload are thrown away only once its task is in the topic: a crash   *)
(* anywhere before leaves what a repeated merge needs.                     *)
THEOREM CleanupsFollowTasks ==
    ASSUME "Produce" \notin Faulty PROVE UploadSpec => []CleanupAfterQueued
  <1>1. UploadInit => CleanupAfterQueued
    BY DEF UploadInit, RequestsInit, CleanupAfterQueued, Idle, CleanupPc
  <1>2. UploadTypeOK /\ CleanupAfterQueued /\ [UploadNext]_uploadVars => CleanupAfterQueued'
    BY CleanupStep
  <1> QED
    BY <1>1, <1>2, UploadTypeCorrect, PTL DEF UploadSpec
=============================================================================
