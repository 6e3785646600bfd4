-------------------------- MODULE IngestionProofs ---------------------------
(***************************************************************************)
(* Theorems about Ingestion: what the upload service, the consumers and    *)
(* the document service promise each on its own, while the others run over *)
(* the same stores.  A step of the upload service is a step of Upload, one *)
(* of the consumers is a step of Pipeline, so the lemmas about those       *)
(* modules speak of it; what is left to show is that a step of one         *)
(* component keeps the invariants of the others.                           *)
(***************************************************************************)
EXTENDS Ingestion, UploadProofs, PipelineProofs, DocumentProofs

-----------------------------------------------------------------------------
(* The steps, by component.                                                *)
UploadMoves ==
    /\ [UploadNext]_uploadVars /\ UNCHANGED consumerVars
    /\ UNCHANGED deletion \/ deletion' = [d \in Deleter |-> NoDeletion]
DocumentMoves == DocumentNext /\ UNCHANGED <<req, checked, consumerVars>>
ConsumersMove == ConsumerNext /\ UNCHANGED <<req, checked, deletion>>

LEMMA StepsOfComponents ==
    ASSUME [IngestionNext]_ingestionVars
    PROVE  UploadMoves \/ DocumentMoves \/ ConsumersMove
  BY DEF IngestionNext, ServerStep, ServerCrash, ingestionVars, UploadMoves, DocumentMoves,
         ConsumersMove, UploadNext, uploadVars

LEMMA ConsumersStep == ASSUME ConsumersMove PROVE [PipelineNext]_pipelineVars
  BY DEF ConsumersMove, PipelineNext

LogsGrow ==
    \A p \in Partition :
        /\ Len(topic[p]) \in Nat /\ Len(topic'[p]) \in Nat /\ Len(topic[p]) <= Len(topic'[p])
        /\ \A o \in 1 .. Len(topic[p]) : topic'[p][o] = topic[p][o]

LEMMA SameLogs ==
    ASSUME StoresTypeOK, UNCHANGED topic
    PROVE  LogsGrow
  <1>1. \A p \in Partition : topic[p] \in Seq(Task)
    BY DEF StoresTypeOK
  <1> QED
    BY <1>1 DEF LogsGrow

(* A request that queues its task.                                         *)
LEMMA ProduceGrows ==
    ASSUME UploadTypeOK, NEW w \in Worker, Produce(w), topic' # topic
    PROVE  /\ req[w].user \in User /\ req[w].file \in File /\ req[w].vis \in Visibility
           /\ \E p \in Partition :
                /\ Len(topic[p]) < MaxTasks
                /\ topic' = [topic EXCEPT ![p] = Append(@,
                       [user |-> req[w].user, file |-> req[w].file, vis |-> req[w].vis])]
                /\ Len(topic'[p]) = Len(topic[p]) + 1
                /\ topic'[p][Len(topic[p]) + 1] =
                       [user |-> req[w].user, file |-> req[w].file, vis |-> req[w].vis]
                /\ \A o \in 1 .. Len(topic[p]) : topic'[p][o] = topic[p][o]
                /\ \A q \in Partition \ {p} : topic'[q] = topic[q]
  <1> DEFINE task == [user |-> req[w].user, file |-> req[w].file, vis |-> req[w].vis]
  <1>1. req[w] \in Request /\ topic \in [Partition -> Seq(Task)]
    BY DEF UploadTypeOK, StoresTypeOK
  <1>2. req[w].user \in User /\ req[w].file \in File /\ req[w].vis \in Visibility /\ task \in Task
    BY <1>1 DEF Request, Task
  <1>3. ProduceFileTask(task)
    BY DEF Produce
  <1> HIDE DEF task
  <1>4. PICK p \in Partition :
            Len(topic[p]) < MaxTasks /\ topic' = [topic EXCEPT ![p] = Append(@, task)]
    BY <1>3 DEF ProduceFileTask
  <1>5. topic[p] \in Seq(Task)
    BY <1>1
  <1>6. /\ Len(Append(topic[p], task)) = Len(topic[p]) + 1
        /\ Append(topic[p], task)[Len(topic[p]) + 1] = task
        /\ \A o \in 1 .. Len(topic[p]) : Append(topic[p], task)[o] = topic[p][o]
    BY <1>2, <1>5
  <1>7. /\ Len(topic'[p]) = Len(topic[p]) + 1
        /\ topic'[p][Len(topic[p]) + 1] = task
        /\ \A o \in 1 .. Len(topic[p]) : topic'[p][o] = topic[p][o]
        /\ \A q \in Partition \ {p} : topic'[q] = topic[q]
    BY <1>1, <1>4, <1>6
  <1>8. QED
    BY <1>2, <1>4, <1>7 DEF task

-----------------------------------------------------------------------------
(* What each component writes of what the others read.  The upload service *)
(* adds records, with a pending document, and completes them; it removes   *)
(* nothing that the consumers read.                                        *)
SameDocument(k) ==
    /\ fileUpload'[k].id = fileUpload[k].id /\ fileUpload'[k].vis = fileUpload[k].vis
    /\ fileUpload'[k].vstatus = fileUpload[k].vstatus
    /\ fileUpload'[k].actual = fileUpload[k].actual

DocumentsAdded ==
    \A k \in Key : \/ SameDocument(k)
                   \/ ~Present(fileUpload[k]) /\ fileUpload'[k].vstatus = "pending"
                         /\ UNCHANGED topic

LEMMA UploadWrites ==
    ASSUME UploadTypeOK, UploadMoves
    PROVE  /\ UNCHANGED <<vectors, es>>
           /\ chunkInfo \subseteq chunkInfo' /\ checked \subseteq checked'
           /\ DocumentsAdded
           /\ UNCHANGED topic \/ \E w \in Worker : Produce(w)
  <1>0. /\ fileUpload \in [Key -> Row] /\ nextId \in Nat \ {0}
        /\ req \in [Worker -> Request]
    BY DEF UploadTypeOK, StoresTypeOK
  <1>1. ASSUME UNCHANGED fileUpload PROVE DocumentsAdded
    BY <1>1 DEF DocumentsAdded, SameDocument
  <1>2. ASSUME NEW w \in Worker, CreateRecord(w)
        PROVE  UNCHANGED <<vectors, es, chunkInfo, topic, checked>> /\ DocumentsAdded
    <2>1. UNCHANGED <<vectors, es, chunkInfo, topic, checked>>
      BY <1>2 DEF CreateRecord
    <2> DEFINE key == <<req[w].user, req[w].file>>
               new == [id |-> nextId, status |-> 0, vstatus |-> "pending", vis |-> req[w].vis,
                       actual |-> 0]
    <2>2. CASE ~Present(fileUpload[key]) /\ fileUpload' = [fileUpload EXCEPT ![key] = new]
      BY <1>0, <2>1, <2>2 DEF DocumentsAdded, SameDocument
    <2>3. UNCHANGED fileUpload \/ (~Present(fileUpload[key]) /\ fileUpload' = [fileUpload EXCEPT ![key] = new])
      BY <1>2 DEF CreateRecord, CreateFileUploadRecord
    <2> QED
      BY <1>1, <2>1, <2>2, <2>3
  <1>3. ASSUME NEW w \in Worker, SetCompleted(w)
        PROVE  UNCHANGED <<vectors, es, chunkInfo, topic, checked>> /\ DocumentsAdded
    <2>1. ASSUME NEW k \in Key PROVE SameDocument(k)
      <3>1. fileUpload[k] \in Row
        BY <1>0
      <3>2. fileUpload'[k] = fileUpload[k] \/ fileUpload'[k] = [fileUpload[k] EXCEPT !.status = 1]
        BY <1>3 DEF SetCompleted, UpdateFileUploadStatus
      <3> QED
        BY <3>1, <3>2 DEF SameDocument, Row
    <2> QED
      BY <1>3, <2>1 DEF SetCompleted, DocumentsAdded
  <1>4. ASSUME NEW w \in Worker, Produce(w)
        PROVE  UNCHANGED <<vectors, es, chunkInfo, fileUpload, checked>>
    BY <1>4 DEF Produce, uploadStores
  <1>5. ASSUME NEW w \in Worker,
               \/ Arrive(w) \/ CallError(w) \/ FindRecord(w) \/ CheckMark(w) \/ PutChunk(w)
               \/ CreateChunkInfo(w) \/ MarkChunk(w) \/ MergeLookup(w) \/ MergeCheck(w)
               \/ Compose(w) \/ Unmark(w) \/ \E i \in req[w].left : RemoveChunkObject(w, i)
        PROVE  /\ UNCHANGED <<vectors, es, topic, fileUpload>>
              /\ chunkInfo \subseteq chunkInfo' /\ checked \subseteq checked'
    BY <1>5 DEF Arrive, UploadChunk, MergeChunks, CallError, FindRecord, CheckMark, PutChunk,
                CreateChunkInfo, MarkChunk, MergeLookup, MergeCheck, Compose, Unmark,
                RemoveChunkObject, storeVars, uploadStores
  <1>6. CASE Crash \/ UNCHANGED uploadVars
    BY <1>1, <1>6 DEF Crash, uploadVars, storeVars, uploadStores
  <1> QED
    BY <1>1, <1>2, <1>3, <1>4, <1>5, <1>6 DEF UploadMoves, UploadNext, Step

LEMMA UploadLogs ==
    ASSUME UploadTypeOK, UploadMoves
    PROVE  LogsGrow
  <1>1. CASE UNCHANGED topic
    BY <1>1, SameLogs DEF UploadTypeOK
  <1>2. CASE topic' # topic
    <2>1. PICK w \in Worker : Produce(w)
      BY <1>2, UploadWrites
    <2>2. PICK p \in Partition :
                /\ Len(topic'[p]) = Len(topic[p]) + 1
                /\ \A o \in 1 .. Len(topic[p]) : topic'[p][o] = topic[p][o]
                /\ \A q \in Partition \ {p} : topic'[q] = topic[q]
      BY <1>2, <2>1, ProduceGrows
    <2>3. \A q \in Partition : Len(topic[q]) \in Nat
      <3>1. \A q \in Partition : topic[q] \in Seq(Task)
        BY DEF UploadTypeOK, StoresTypeOK
      <3> QED
        BY <3>1
    <2> QED
      BY <2>2, <2>3 DEF LogsGrow
  <1> QED
    BY <1>1, <1>2

(* The document service takes records, rows, index documents and merged    *)
(* objects away, and adds none.                                            *)
LEMMA DocumentWrites ==
    ASSUME StoresOK, DeletionTyped, DocumentMoves
    PROVE  /\ UNCHANGED <<nextId, marks, chunkInfo, chunkObject, topic>>
           /\ \A k \in Key : fileUpload'[k] = fileUpload[k] \/ fileUpload'[k] = NoRow
           /\ DOMAIN vectors' \subseteq DOMAIN vectors
           /\ \A r \in DOMAIN vectors' : vectors'[r] = vectors[r]
           /\ es' \subseteq es
           /\ StoresOK' /\ DeletionTyped'
  <1> DEFINE Kept == UNCHANGED <<nextId, marks, chunkInfo, chunkObject, topic>>
             Removed == \A k \in Key : fileUpload'[k] = fileUpload[k] \/ fileUpload'[k] = NoRow
             Deletions == [Deleter -> [pc : {"none", "record", "references"} \cup RemovalPc,
                                       user : User, file : File]]
  <1>0. /\ fileUpload \in [Key -> Row] /\ Table /\ NoRow \in Row
        /\ deletion \in Deletions
    BY NoRowTyped DEF StoresOK, StoresTypeOK, Table, DeletionTyped
  <1>1. PICK d \in Deleter : (\E u \in User, f \in File : DeleteDocument(d, u, f)) \/ DeletionStep(d)
    BY DEF DocumentMoves, DocumentNext
  <1>2. Kept
    BY <1>1 DEF DeleteDocument, DeletionStep, DeleteRecord, CountReferences, RemoveMergedObject,
                RemoveVectors, RemoveIndex, storeVars, uploadStores
  <1>3. Removed /\ fileUpload' \in [Key -> Row]
    <2>1. CASE DeleteRecord(d)
      BY <1>0, <2>1 DEF DeleteRecord, DeleteFileUploadRecord
    <2>2. CASE ~DeleteRecord(d)
      BY <1>0, <1>1, <2>2 DEF DeleteDocument, DeletionStep, CountReferences, RemoveMergedObject,
                RemoveVectors, RemoveIndex, storeVars, uploadStores
    <2> QED
      BY <2>1, <2>2
  <1>4. /\ DOMAIN vectors' \subseteq DOMAIN vectors /\ Table'
        /\ \A r \in DOMAIN vectors' : vectors'[r] = vectors[r]
    <2>1. CASE UNCHANGED vectors
      BY <1>0, <2>1 DEF Table
    <2>2. CASE DeleteByFileMD5(deletion[d].file)
      BY <1>0, <2>2, FileRowsDeleted
    <2> QED
      BY <1>1, <2>1, <2>2 DEF DeleteDocument, DeletionStep, DeleteRecord, CountReferences,
         RemoveMergedObject, RemoveVectors, RemoveIndex, storeVars
  <1>5. es' \subseteq es /\ mergedObject' \subseteq mergedObject
    BY <1>1 DEF DeleteDocument, DeletionStep, DeleteRecord, CountReferences, RemoveMergedObject,
                RemoveVectors, RemoveIndex, storeVars, EsDeleteByFileMD5
  <1>6. deletion' \in Deletions
    <2>1. CASE DeleteReturns(d) \/ \E pc \in {"references"} \cup RemovalPc : DeletesNext(d, pc)
      BY <2>1, DeletionMoves, DeletionEnds
    <2>2. ASSUME NEW u \in User, NEW f \in File, DeleteDocument(d, u, f)
          PROVE  deletion' \in Deletions
      BY <1>0, <2>2 DEF DeleteDocument
    <2>3. DeletionStep(d) =>
              DeleteReturns(d) \/ \E pc \in {"references"} \cup RemovalPc : DeletesNext(d, pc)
      BY DEF DeletionStep, DeleteRecord, CountReferences, RemoveMergedObject, RemoveVectors,
             RemoveIndex, RemovalPc
    <2> QED
      BY <1>1, <2>1, <2>2, <2>3
  <1>7. StoresOK'
    BY <1>2, <1>3, <1>4, <1>5 DEF StoresOK, StoresTypeOK, Table
  <1>8. DeletionTyped'
    BY <1>3, <1>4, <1>6 DEF DeletionTyped, Table
  <1> QED
    BY <1>2, <1>3, <1>4, <1>5, <1>7, <1>8

(* The consumers write the processing status, rows and index documents.    *)
LEMMA ConsumersWrite ==
    ASSUME TypeInv, ConsumersMove
    PROVE  /\ UNCHANGED <<nextId, marks, chunkInfo, chunkObject, mergedObject, topic>>
           /\ \A k \in Key : /\ fileUpload'[k].id = fileUpload[k].id
                             /\ fileUpload'[k].vis = fileUpload[k].vis
                             /\ fileUpload'[k].status = fileUpload[k].status
  <1>1. ASSUME NEW c \in Consumer, ProcessStep(c)
        PROVE  UNCHANGED <<nextId, marks, chunkInfo, chunkObject, mergedObject, topic>>
    BY <1>1 DEF ProcessStep, Start, Download, Parse, Chunk, Clean, Save, Read, Wait, Succeed, Fail,
                Spawn, EmbedAndIndex, storeVars, uploadStores
  <1>2. ASSUME GroupStep \/ \E c \in Consumer : Fetch(c) \/ Commit(c)
        PROVE  UNCHANGED storeVars
    BY <1>2 DEF GroupStep, FetchError, ConsumerCrash, Reassign, Rebalance, Assign, Fetch, Commit
  <1> QED
    BY <1>1, <1>2, WritesItsRecord
       DEF ConsumersMove, ConsumerNext, ConsumerStep, storeVars, uploadStores

-----------------------------------------------------------------------------
(* Types.  What the group and the consumers hold stays typed while others  *)
(* write to the stores.                                                    *)
IngestionTypeInv == UploadTypeOK /\ TypeInv /\ DeletionTyped

LEMMA IngestionTypeInit == IngestionInit => IngestionTypeInv
  <1> SUFFICES ASSUME IngestionInit PROVE IngestionTypeInv
    OBVIOUS
  <1>1. UploadTypeOK
    BY TypeInit DEF IngestionInit, UploadInit, RequestsInit
  <1>2. TypeInv
    BY TypeInvInit DEF IngestionInit, UploadInit, RequestsInit, PipelineAloneInit
  <1>3. DeletionTyped
    BY <1>1, NoDeletionTyped
       DEF DeletionTyped, UploadTypeOK, StoresTypeOK, IngestionInit, UploadInit, RequestsInit, DeletionInit
  <1> QED
    BY <1>1, <1>2, <1>3 DEF IngestionTypeInv

LEMMA OthersType ==
    ASSUME TypeInv, UNCHANGED consumerVars, StoresOK', LogsGrow
    PROVE  TypeInv'
  <1>1. PipelineTypeOK /\ OffsetsInLog
    BY DEF TypeInv
  <1>2. PipelineTypeOK'
    BY <1>1 DEF PipelineTypeOK, StoresOK, consumerVars, groupVars
  <1>3. /\ \A q \in Partition : position[q] \in Nat /\ committed[q] \in Nat
        /\ \A c \in Consumer : cons[c].part \in Partition /\ cons[c].off \in Nat
    BY <1>1 DEF PipelineTypeOK, Activity
  <1>4. OffsetsInLog'
    BY <1>1, <1>3 DEF OffsetsInLog, Holds, LogsGrow, consumerVars, groupVars
  <1> QED
    BY <1>2, <1>4 DEF TypeInv

LEMMA IngestionTypeStep == IngestionTypeInv /\ [IngestionNext]_ingestionVars => IngestionTypeInv'
  <1> SUFFICES ASSUME IngestionTypeInv, [IngestionNext]_ingestionVars PROVE IngestionTypeInv'
    OBVIOUS
  <1>0. /\ UploadTypeOK /\ TypeInv /\ DeletionTyped /\ StoresOK
        /\ req \in [Worker -> Request] /\ checked \subseteq Key
    BY DEF IngestionTypeInv, TypeInv, UploadTypeOK
  <1>1. CASE UploadMoves
    <2>1. UploadTypeOK'
      BY <1>0, <1>1, TypeStep DEF UploadMoves
    <2>2. StoresOK'
      BY <1>0, <1>1, <2>1, UploadWrites DEF StoresOK, UploadTypeOK
    <2>3. TypeInv'
      BY <1>0, <1>1, <2>2, OthersType, UploadLogs DEF UploadMoves
    <2>4. deletion' = deletion \/ deletion' = [d \in Deleter |-> NoDeletion]
      BY <1>1 DEF UploadMoves
    <2>5. DeletionTyped'
      BY <1>0, <2>2, <2>4, NoDeletionTyped DEF DeletionTyped, StoresOK, StoresTypeOK
    <2> QED
      BY <2>1, <2>3, <2>5 DEF IngestionTypeInv
  <1>2. CASE DocumentMoves
    <2>1. /\ StoresOK' /\ DeletionTyped' /\ UNCHANGED topic
          /\ UNCHANGED consumerVars /\ UNCHANGED <<req, checked>>
      BY <1>0, <1>2, DocumentWrites DEF DocumentMoves
    <2>2. TypeInv'
      BY <1>0, <2>1, OthersType, SameLogs DEF StoresOK
    <2>3. UploadTypeOK'
      BY <1>0, <2>1 DEF UploadTypeOK, StoresOK
    <2> QED
      BY <2>1, <2>2, <2>3 DEF IngestionTypeInv
  <1>3. CASE ConsumersMove
    <2>1. TypeInv'
      BY <1>0, <1>3, TypeInvStep, ConsumersStep
    <2>2. UploadTypeOK' /\ DeletionTyped'
      BY <1>0, <1>3, <2>1
         DEF ConsumersMove, UploadTypeOK, DeletionTyped, TypeInv, StoresOK, StoresTypeOK
    <2> QED
      BY <2>1, <2>2 DEF IngestionTypeInv
  <1> QED
    BY <1>1, <1>2, <1>3, StepsOfComponents

LEMMA IngestionTypeInvariant == IngestionSpec => []IngestionTypeInv
  BY IngestionTypeInit, IngestionTypeStep, PTL DEF IngestionSpec

(* The stores, the requests, the group, the consumers and the deletions    *)
(* keep their types when all three components run.                         *)
THEOREM IngestionTypeCorrect == IngestionSpec => [](UploadTypeOK /\ PipelineTypeOK)
  <1>1. IngestionTypeInv => UploadTypeOK /\ PipelineTypeOK
    BY DEF IngestionTypeInv, TypeInv
  <1> QED
    BY <1>1, IngestionTypeInvariant, PTL

-----------------------------------------------------------------------------
(* The invariant of the upload service.  The others write neither bitmaps  *)
(* nor chunk_info, hand out no id, and change of a record no more than the *)
(* processing status, or delete it.                                        *)
LEMMA OthersKeepUploads ==
    ASSUME UploadTypeOK, UploadInv, UNCHANGED <<nextId, marks, chunkInfo, req, checked>>,
           \A k \in Key : \/ fileUpload'[k] = NoRow
                          \/ /\ fileUpload'[k].id = fileUpload[k].id
                             /\ fileUpload'[k].status = fileUpload[k].status
    PROVE  UploadInv'
  <1>0. /\ fileUpload \in [Key -> Row] /\ nextId \in Nat \ {0} /\ req \in [Worker -> Request]
        /\ IdsUnique /\ RequestsOK
    BY DEF UploadTypeOK, StoresTypeOK, UploadInv
  <1>1. \A k \in Key : /\ \/ fileUpload'[k].id = 0
                          \/ fileUpload'[k].id = fileUpload[k].id
                       /\ fileUpload'[k].status = 1 => fileUpload[k].status = 1
                       /\ fileUpload[k].id \in Nat
    <2>1. NoRow.id = 0 /\ NoRow.status = 0
      BY DEF NoRow
    <2> QED
      BY <1>0, <2>1 DEF Row
  <1>2. IdsUnique'
    BY <1>0, <1>1 DEF IdsUnique, Present
  <1>3. MarkedRecorded' /\ MarkedChecked'
    BY DEF UploadInv, MarkedRecorded, MarkedChecked
  <1>4. CompletedRecorded' /\ CompletedChecked'
    BY <1>1 DEF UploadInv, CompletedRecorded, CompletedChecked, Recorded, Key
  <1>5. RequestsOK'
    <2> SUFFICES ASSUME NEW w \in Worker PROVE (ChunkRequestOK(req[w]) /\ MergeRequestOK(req[w]))'
      BY DEF RequestsOK
    <2>1. ChunkRequestOK(req[w]) /\ MergeRequestOK(req[w]) /\ req'[w] = req[w]
      BY <1>0 DEF RequestsOK
    <2>2. ChunkRequestOK(req[w])'
      BY <2>1 DEF ChunkRequestOK
    <2>3. MergeRequestOK(req[w])'
      BY <1>0, <1>1, <2>1 DEF MergeRequestOK, Recorded
    <2> QED
      BY <2>2, <2>3
  <1> QED
    BY <1>2, <1>3, <1>4, <1>5 DEF UploadInv

LEMMA UploadInvKept ==
    IngestionTypeInv /\ UploadInv /\ [IngestionNext]_ingestionVars => UploadInv'
  <1> SUFFICES ASSUME IngestionTypeInv, UploadInv, [IngestionNext]_ingestionVars PROVE UploadInv'
    OBVIOUS
  <1>0. UploadTypeOK /\ TypeInv /\ DeletionTyped /\ StoresOK
    BY DEF IngestionTypeInv, TypeInv
  <1>1. CASE UploadMoves
    BY <1>0, <1>1, InvStep DEF UploadMoves
  <1>2. CASE DocumentMoves
    <2>1. /\ UNCHANGED <<nextId, marks, chunkInfo, req, checked>>
          /\ \A k \in Key : fileUpload'[k] = fileUpload[k] \/ fileUpload'[k] = NoRow
      BY <1>0, <1>2, DocumentWrites DEF DocumentMoves
    <2> QED
      BY <1>0, <2>1, OthersKeepUploads
  <1>3. CASE ConsumersMove
    <2>1. /\ UNCHANGED <<nextId, marks, chunkInfo, req, checked>>
          /\ \A k \in Key : fileUpload'[k].id = fileUpload[k].id /\ fileUpload'[k].status = fileUpload[k].status
      BY <1>0, <1>3, ConsumersWrite DEF ConsumersMove
    <2> QED
      BY <1>0, <2>1, OthersKeepUploads
  <1> QED
    BY <1>1, <1>2, <1>3, StepsOfComponents

(* The bitmap does not run ahead of chunk_info, and no record is completed *)
(* without its chunks or without the type check of its chunk 0, also when  *)
(* documents are deleted and uploaded again and processed meanwhile: a     *)
(* late merge never completes the record of somebody else or one created   *)
(* since, because ids are not reused.                                      *)
THEOREM UploadsKeptWhole == IngestionSpec => []UploadInv
  <1>1. IngestionInit => UploadInv
    BY InvInit DEF IngestionInit, UploadInit, RequestsInit
  <1> QED
    BY <1>1, UploadInvKept, IngestionTypeInvariant, PTL DEF IngestionSpec

-----------------------------------------------------------------------------
(* The order of messages concerns the group alone.                         *)
LEMMA OrderKept ==
    IngestionTypeInv /\ OrderInv /\ [IngestionNext]_ingestionVars => OrderInv'
  <1> SUFFICES ASSUME IngestionTypeInv, OrderInv, [IngestionNext]_ingestionVars PROVE OrderInv'
    OBVIOUS
  <1>1. CASE ConsumersMove
    BY <1>1, OrderStep, ConsumersStep DEF IngestionTypeInv
  <1>2. CASE UNCHANGED consumerVars
    BY <1>2 DEF consumerVars, groupVars, OrderInv, InOrder, CommittedSettled, CommitsSettled,
                FetchedSettled, HoldsLast, Holds
  <1> QED
    BY <1>1, <1>2, StepsOfComponents DEF UploadMoves, DocumentMoves

LEMMA OrderKeptInvariant == IngestionSpec => []OrderInv
  <1>1. IngestionInit => OrderInv
    BY OrderInit DEF IngestionInit, UploadInit, RequestsInit, PipelineAloneInit
  <1> QED
    BY <1>1, OrderKept, IngestionTypeInvariant, PTL DEF IngestionSpec

(* A consumer works on a message only when every earlier message of its    *)
(* partition is settled, while merges append further messages.             *)
THEOREM IngestionInOrder == IngestionSpec => []InOrder
  <1>1. OrderInv => InOrder
    BY DEF OrderInv
  <1> QED
    BY <1>1, OrderKeptInvariant, PTL

(* A merge publishes one task; the other steps of the server are stutters  *)
(* of the queue.                                                           *)
LEMMA QueueKept ==
    IngestionTypeInv /\ OrderInv /\ [IngestionNext]_ingestionVars
        => [Queue!QueueNext]_Queue!queueVars
  <1> SUFFICES ASSUME IngestionTypeInv, OrderInv, [IngestionNext]_ingestionVars
               PROVE  [Queue!QueueNext]_Queue!queueVars
    OBVIOUS
  <1>0. UploadTypeOK /\ TypeInv /\ DeletionTyped /\ StoresOK
    BY DEF IngestionTypeInv, TypeInv
  <1>1. CASE ConsumersMove
    BY <1>0, <1>1, QueueStep, ConsumersStep
  <1>2. CASE UNCHANGED <<topic, consumerVars>>
    BY <1>2 DEF Queue!queueVars, consumerVars, groupVars
  <1>3. CASE UploadMoves /\ topic' # topic
    <2>1. PICK w \in Worker : Produce(w)
      BY <1>0, <1>3, UploadWrites
    <2> DEFINE task == [user |-> req[w].user, file |-> req[w].file, vis |-> req[w].vis]
    <2>2. PICK p \in Partition : topic' = [topic EXCEPT ![p] = Append(@, task)]
      BY <1>0, <1>3, <2>1, ProduceGrows
    <2>3. task \in Task
      BY <1>0, <1>3, <2>1, ProduceGrows DEF Task
    <2>4. Queue!Publish(p, task)
      BY <1>3, <2>2 DEF Queue!Publish, UploadMoves, consumerVars, groupVars
    <2> QED
      BY <2>3, <2>4 DEF Queue!QueueNext
  <1>4. CASE DocumentMoves
    BY <1>0, <1>2, <1>4, DocumentWrites DEF DocumentMoves
  <1> QED
    BY <1>1, <1>2, <1>3, <1>4, StepsOfComponents DEF UploadMoves

(* The whole server implements the task queue, with the merge as its       *)
(* producer: what is published is what Produce sends, and nothing that the *)
(* upload service, a deletion or a crash does loses, reorders or settles a *)
(* task.                                                                   *)
THEOREM IngestionImplementsQueue == IngestionSpec => ImplementsQueue
  <1>1. IngestionInit => Queue!QueueInit
    BY DEF IngestionInit, UploadInit, RequestsInit, StoresInit, PipelineInit, Queue!QueueInit
  <1> QED
    BY <1>1, IngestionTypeInvariant, OrderKeptInvariant, QueueKept, PTL
       DEF IngestionSpec, ImplementsQueue, Queue!QueueSpec

-----------------------------------------------------------------------------
(* The cleanup of a merge.  The topic only grows, whoever takes the step.  *)
(* Deletions do not change that: the task stays in the topic.              *)
LEMMA CleanupKept ==
    ASSUME "Produce" \notin Faulty
    PROVE  IngestionTypeInv /\ CleanupAfterQueued /\ [IngestionNext]_ingestionVars
             => CleanupAfterQueued'
  <1> SUFFICES ASSUME IngestionTypeInv, CleanupAfterQueued, [IngestionNext]_ingestionVars
               PROVE  CleanupAfterQueued'
    OBVIOUS
  <1>0. UploadTypeOK /\ TypeInv /\ DeletionTyped /\ StoresOK
    BY DEF IngestionTypeInv, TypeInv
  <1>1. CASE UploadMoves
    BY <1>0, <1>1, CleanupStep DEF UploadMoves
  <1>2. CASE UNCHANGED <<topic, req>>
    BY <1>2 DEF CleanupAfterQueued, QueuedTasks
  <1> QED
    BY <1>0, <1>1, <1>2, StepsOfComponents, DocumentWrites, ConsumersWrite
       DEF DocumentMoves, ConsumersMove

(* The bitmap and the chunk objects of an upload are thrown away only once *)
(* its task is in the topic, also when its document is deleted or          *)
(* processed before the cleanup comes to it.                               *)
THEOREM IngestionCleansAfterTasks ==
    ASSUME "Produce" \notin Faulty PROVE IngestionSpec => []CleanupAfterQueued
  <1>1. IngestionInit => CleanupAfterQueued
    BY DEF IngestionInit, UploadInit, RequestsInit, CleanupAfterQueued, Idle, CleanupPc
  <1>2. IngestionTypeInv /\ CleanupAfterQueued /\ [IngestionNext]_ingestionVars => CleanupAfterQueued'
    BY CleanupKept
  <1> QED
    BY <1>1, <1>2, IngestionTypeInvariant, PTL DEF IngestionSpec

-----------------------------------------------------------------------------
(* From the upload to the index.  A request about to send its task, and    *)
(* every task sent, is of a file that is recorded whole and whose chunk 0  *)
(* passed the check; every row, every index document and every goroutine   *)
(* that will write one stems from a task.                                  *)
Whole(u, f) == Recorded(f) /\ <<u, f>> \in checked

SendersWhole == \A w \in Worker : req[w].pc = "produce" => Whole(req[w].user, req[w].file)

TasksWhole == \A t \in QueuedTasks : Whole(t.user, t.file)

FromTask(d) == [user |-> d.user, file |-> d.file, vis |-> d.vis] \in QueuedTasks

RowsFromTasks ==
    /\ \A d \in DOMAIN vectors \cup es : FromTask(d)
    /\ \A c \in Consumer : \A g \in Jobs(c) : FromTask(g[1])

SourceInv == SendersWhole /\ TasksWhole /\ RowsFromTasks

LEMMA TasksStay == ASSUME StoresTypeOK, StoresTypeOK', LogsGrow PROVE QueuedTasks \subseteq QueuedTasks'
  <1> SUFFICES ASSUME NEW t \in QueuedTasks PROVE t \in QueuedTasks'
    OBVIOUS
  <1>1. PICK p \in Partition : \E i \in DOMAIN topic[p] : t = topic[p][i]
    BY DEF QueuedTasks
  <1>2. PICK i \in DOMAIN topic[p] : t = topic[p][i]
    BY <1>1
  <1>3. topic[p] \in Seq(Task) /\ topic'[p] \in Seq(Task)
    BY DEF StoresTypeOK
  <1>4. i \in 1 .. Len(topic[p])
    BY <1>3
  <1>5. i \in 1 .. Len(topic'[p]) /\ topic'[p][i] = t
    BY <1>2, <1>4 DEF LogsGrow
  <1>6. i \in DOMAIN topic'[p]
    BY <1>3, <1>5
  <1> QED
    BY <1>5, <1>6 DEF QueuedTasks

(* Only a merge whose record is completed comes to the sending.            *)
LEMMA SendersKept ==
    ASSUME UploadTypeOK, UploadInv, SendersWhole, chunkInfo \subseteq chunkInfo',
           checked \subseteq checked',
           [UploadNext]_uploadVars
    PROVE  SendersWhole'
  <1>0. \A u, f : Whole(u, f) => Whole(u, f)'
    BY DEF Whole, Recorded
  <1>1. ASSUME NEW w \in Worker, \A x \in Worker \ {w} : req'[x] = req[x],
               req'[w].pc # "produce"
        PROVE  SendersWhole'
    BY <1>0, <1>1 DEF SendersWhole
  <1>2. ASSUME NEW w \in Worker, OtherStep(w) PROVE SendersWhole'
    BY <1>1, <1>2, OtherStepQuiet
  <1>3. ASSUME NEW w \in Worker, CreateRecord(w) \/ MergeCheck(w) \/ Compose(w)
        PROVE  SendersWhole'
    <2>1. Return(w) \/ \E pc \in {"isUploaded", "compose", "status"} : Goto(w, pc)
      BY <1>3 DEF CreateRecord, MergeCheck, Compose
    <2> QED
      BY <1>1, <2>1, ReturnedProgress, MovedRequest
  <1>4. ASSUME NEW w \in Worker, MergeLookup(w) PROVE SendersWhole'
    <2>1. CASE Return(w)
      BY <1>1, <2>1, ReturnedProgress
    <2>2. CASE ~Return(w)
      BY <1>1, <1>4, <2>2 DEF MergeLookup, UploadTypeOK, Request
    <2> QED
      BY <2>1, <2>2
  <1>5. ASSUME NEW w \in Worker, Produce(w) PROVE SendersWhole'
    BY <1>1, <1>5, ProduceStep
  <1>6. ASSUME NEW w \in Worker, SetCompleted(w) PROVE SendersWhole'
    <2>1. Goto(w, "produce") /\ req[w].pc = "status"
      BY <1>6 DEF SetCompleted, At
    <2>2. Whole(req[w].user, req[w].file)
      BY <2>1 DEF UploadInv, RequestsOK, MergeRequestOK, Whole
    <2>3. /\ req'[w].user = req[w].user /\ req'[w].file = req[w].file
          /\ \A x \in Worker \ {w} : req'[x] = req[x]
      BY <2>1, MovedRequest
    <2> QED
      BY <1>0, <2>2, <2>3 DEF SendersWhole
  <1>7. CASE Crash
    BY <1>7 DEF Crash, SendersWhole, Idle
  <1>8. CASE UNCHANGED uploadVars
    BY <1>0, <1>8 DEF uploadVars, SendersWhole
  <1>9. ASSUME NEW w \in Worker, Arrive(w) \/ Step(w) \/ CallError(w)
        PROVE  SendersWhole'
    <2>1. \A f \in File : ChunkIds(f) \cup {0} \subseteq Nat
      BY ChunkIdsTyped
    <2>2. \/ OtherStep(w) \/ CreateRecord(w) \/ MergeLookup(w) \/ MergeCheck(w)
          \/ Compose(w) \/ SetCompleted(w) \/ Produce(w)
      BY <1>9, <2>1 DEF Arrive, Step, OtherStep
    <2> QED
      BY <1>2, <1>3, <1>4, <1>5, <1>6, <2>2
  <1> QED
    BY <1>7, <1>8, <1>9 DEF UploadNext

LEMMA UploadSources ==
    ASSUME IngestionTypeInv, IngestionTypeInv', UploadInv, SourceInv, UploadMoves
    PROVE  SourceInv'
  <1>0. UploadTypeOK /\ UploadTypeOK' /\ StoresTypeOK /\ StoresTypeOK' /\ SendersWhole
    BY DEF IngestionTypeInv, UploadTypeOK, SourceInv
  <1>1. /\ chunkInfo \subseteq chunkInfo' /\ checked \subseteq checked'
        /\ UNCHANGED <<vectors, es>>
    BY <1>0, UploadWrites
  <1>2. \A u, f : Whole(u, f) => Whole(u, f)'
    BY <1>1 DEF Whole, Recorded
  <1>3. SendersWhole'
    BY <1>0, <1>1, SendersKept DEF UploadMoves
  <1>4. TasksWhole'
    <2>1. CASE UNCHANGED topic
      BY <1>2, <2>1 DEF SourceInv, TasksWhole, QueuedTasks
    <2>2. CASE topic' # topic
      <3>1. PICK w \in Worker : Produce(w)
        BY <1>0, <2>2, UploadWrites
      <3> DEFINE task == [user |-> req[w].user, file |-> req[w].file, vis |-> req[w].vis]
      <3>2. ProduceFileTask(task) /\ req[w].pc = "produce"
        BY <2>2, <3>1 DEF Produce, At
      <3>3. task \in Task
        BY <1>0, <2>2, <3>1, ProduceGrows DEF Task
      <3>4. Whole(task.user, task.file)
        BY <3>2 DEF SourceInv, SendersWhole
      <3> HIDE DEF task
      <3>5. QueuedTasks' \subseteq QueuedTasks \cup {task}
        BY <1>0, <3>2, <3>3, QueueGrows DEF StoresTypeOK
      <3> QED
        BY <1>2, <3>4, <3>5 DEF SourceInv, TasksWhole
    <2> QED
      BY <2>1, <2>2
  <1>5. RowsFromTasks'
    <2>1. QueuedTasks \subseteq QueuedTasks'
      BY <1>0, TasksStay, UploadLogs
    <2>2. UNCHANGED cons
      BY DEF UploadMoves, consumerVars
    <2> QED
      BY <1>1, <2>1, <2>2 DEF SourceInv, RowsFromTasks, FromTask, Jobs
  <1> QED
    BY <1>3, <1>4, <1>5 DEF SourceInv

(* What a step of Process adds to the rows, the index and the goroutines.  *)
RowOfTask(d, c) == d.user = TaskOf(c).user /\ d.file = TaskOf(c).file /\ d.vis = TaskOf(c).vis

LEMMA ProcessSources ==
    ASSUME TypeInv, NEW c \in Consumer, ProcessStep(c)
    PROVE  /\ \A d \in DOMAIN vectors' : d \in DOMAIN vectors \/ RowOfTask(d, c)
           /\ \A d \in es' : d \in es \/ \E g \in Jobs(c) : d = g[1]
           /\ \A g \in Jobs(c)' : g \in Jobs(c) \/ g[1] \in DOMAIN vectors
  <1> DEFINE RowsSourced == \A d \in DOMAIN vectors' : d \in DOMAIN vectors \/ RowOfTask(d, c)
             IndexSourced == \A d \in es' : d \in es \/ \E g \in Jobs(c) : d = g[1]
             JobsSourced == \A g \in Jobs(c)' : g \in Jobs(c) \/ g[1] \in DOMAIN vectors
  <1>0. Table /\ cons \in [Consumer -> Activity]
    BY DEF TypeInv, StoresOK, StoresTypeOK, Table, PipelineTypeOK
  <1>1. ASSUME NEW pc \in {"commit"} \cup ProcessPc, Advance(c, pc) PROVE JobsSourced
    BY <1>0, <1>1 DEF Advance, Jobs, Activity
  <1>2. CASE Clean(c)
    <2>1. RowsSourced /\ IndexSourced
      <3>1. DOMAIN vectors' \subseteq DOMAIN vectors
        BY <1>0, <1>2, UserRowsDeleted DEF Clean
      <3> QED
        BY <1>2, <3>1 DEF Clean
    <2> QED
      BY <1>1, <1>2, <2>1 DEF Clean, ProcessPc
  <1>3. CASE Save(c)
    <2>1. Holds(c)
      BY <1>3 DEF Save, InProcess, Holds
    <2>2. RowsSourced
      <3>1. CASE UNCHANGED vectors
        BY <3>1
      <3>2. CASE BatchCreate(NewRows(c))
        <4>1. DOMAIN vectors' = DOMAIN vectors \cup NewRows(c)
          BY <1>0, <2>1, <3>2, NewRowsTyped, RowsCreated
        <4> QED
          BY <4>1 DEF NewRows, RowOfTask
      <3> QED
        BY <1>3, <3>1, <3>2 DEF Save, NewRows
    <2>3. IndexSourced
      BY <1>3 DEF Save
    <2> QED
      BY <1>1, <1>3, <2>2, <2>3 DEF Save, ProcessPc
  <1>4. CASE Read(c)
    <2>1. RowsSourced /\ IndexSourced
      BY <1>4 DEF Read, storeVars
    <2>2. CASE Advance(c, "fail")
      BY <1>1, <2>1, <2>2 DEF ProcessPc
    <2>3. CASE ~Advance(c, "fail")
      <3> DEFINE jobs == JobsOf(TaskOf(c).user, TaskOf(c).file)
      <3>1. cons'[c].todo = jobs /\ cons'[c].inflight = cons[c].inflight
        BY <1>0, <1>4, <2>3 DEF Read, JobsOf, Activity
      <3>2. \A g \in jobs : g[1] \in DOMAIN vectors
        BY <1>0, JobsTyped DEF RowsOf
      <3> QED
        BY <2>1, <3>1, <3>2 DEF Jobs
    <2> QED
      BY <2>2, <2>3
  <1>5. ASSUME NEW g \in cons[c].todo, Spawn(c, g) PROVE RowsSourced /\ IndexSourced /\ JobsSourced
    BY <1>0, <1>5 DEF Spawn, storeVars, Jobs, Activity
  <1>6. ASSUME NEW g \in cons[c].inflight, EmbedAndIndex(c, g)
        PROVE  RowsSourced /\ IndexSourced /\ JobsSourced
    <2>1. RowsSourced
      BY <1>6 DEF EmbedAndIndex
    <2>2. IndexSourced
      BY <1>6 DEF EmbedAndIndex, IndexDocument, Jobs
    <2>3. JobsSourced
      BY <1>0, <1>6 DEF EmbedAndIndex, Jobs, Activity
    <2> QED
      BY <2>1, <2>2, <2>3
  <1>7. CASE Start(c) \/ Download(c) \/ Parse(c) \/ Chunk(c) \/ Wait(c) \/ Succeed(c) \/ Fail(c)
    <2>1. RowsSourced /\ IndexSourced
      BY <1>7 DEF Start, Download, Parse, Chunk, Wait, Succeed, Fail, storeVars
    <2>2. JobsSourced
      <3>1. CASE \E pc \in {"commit"} \cup ProcessPc : Advance(c, pc)
        BY <1>1, <3>1
      <3>2. CASE Chunk(c)
        BY <1>0, <3>2 DEF Chunk, Jobs, Activity
      <3>3. CASE Fail(c) /\ ~Advance(c, "commit")
        BY <1>0, <3>3 DEF Fail, Fetching, Jobs
      <3>4. CASE Wait(c)
        BY <1>1, <3>4 DEF Wait, ProcessPc
      <3> QED
        BY <1>7, <3>1, <3>2, <3>3, <3>4 DEF Start, Download, Parse, Succeed, Fail, ProcessPc
    <2> QED
      BY <2>1, <2>2
  <1> QED
    BY <1>2, <1>3, <1>4, <1>5, <1>6, <1>7 DEF ProcessStep

LEMMA ConsumerSources ==
    ASSUME IngestionTypeInv, SourceInv, ConsumersMove
    PROVE  SourceInv'
  <1>0. TypeInv /\ cons \in [Consumer -> Activity]
    BY DEF IngestionTypeInv, TypeInv, PipelineTypeOK
  <1>1. UNCHANGED <<chunkInfo, topic, req, checked>>
    BY <1>0, ConsumersWrite DEF ConsumersMove
  <1>2. QueuedTasks' = QueuedTasks /\ \A d : FromTask(d)' <=> FromTask(d)
    BY <1>1 DEF QueuedTasks, FromTask
  <1>3. SendersWhole' /\ TasksWhole'
    BY <1>1, <1>2 DEF SourceInv, SendersWhole, TasksWhole, Whole, Recorded
  <1>4. ASSUME NEW c \in Consumer, ProcessStep(c) PROVE RowsFromTasks'
    <2>1. Holds(c) /\ \A d \in Consumer \ {c} : cons'[d] = cons[d]
      BY <1>0, <1>4, ProcessFrame DEF SameMessage
    <2>2. TaskOf(c) \in QueuedTasks /\ TaskOf(c) \in Task
      <3>1. /\ cons[c].part \in Partition /\ cons[c].off \in 1 .. Len(topic[cons[c].part])
            /\ TaskOf(c) \in Task
        BY <1>0, <2>1, TaskTyped
      <3>2. topic[cons[c].part] \in Seq(Task)
        BY <1>0, <3>1 DEF TypeInv, StoresOK, StoresTypeOK
      <3>3. cons[c].off \in DOMAIN topic[cons[c].part]
        BY <3>1, <3>2
      <3> QED
        BY <3>1, <3>3 DEF QueuedTasks, TaskOf
    <2>3. \A d : RowOfTask(d, c) => FromTask(d)
      BY <2>2 DEF RowOfTask, FromTask, Task
    <2>4. \A d \in DOMAIN vectors' \cup es' : FromTask(d)
      BY <1>0, <1>4, <2>3, ProcessSources DEF SourceInv, RowsFromTasks
    <2>5. \A g \in Jobs(c)' : FromTask(g[1])
      BY <1>0, <1>4, ProcessSources DEF SourceInv, RowsFromTasks
    <2>6. \A d \in Consumer \ {c} : Jobs(d)' = Jobs(d)
      BY <2>1 DEF Jobs
    <2> QED
      BY <1>2, <2>4, <2>5, <2>6 DEF SourceInv, RowsFromTasks
  <1>5. ASSUME GroupStep \/ \E c \in Consumer : Fetch(c) \/ Commit(c) PROVE RowsFromTasks'
    <2>1. UNCHANGED <<vectors, es>>
      BY <1>5 DEF GroupStep, FetchError, ConsumerCrash, Reassign, Rebalance, Assign, Fetch, Commit,
                  storeVars
    <2>2. \A d \in Consumer : cons'[d] = cons[d] \/ cons'[d].todo \cup cons'[d].inflight = {}
      <3>1. CASE GroupStep
        BY <1>0, <3>1 DEF GroupStep, FetchError, ConsumerCrash, Reassign, Rebalance, Assign, Fetching
      <3>2. CASE \E c \in Consumer : Commit(c)
        BY <1>0, <3>2 DEF Commit, Fetching
      <3>3. CASE \E c \in Consumer : Fetch(c)
        BY <1>0, <3>3 DEF Fetch, Fetching
      <3> QED
        BY <1>5, <3>1, <3>2, <3>3
    <2>3. \A d \in Consumer : Jobs(d)' \subseteq Jobs(d)
      BY <2>2 DEF Jobs
    <2> QED
      BY <1>2, <2>1, <2>3 DEF SourceInv, RowsFromTasks
  <1> QED
    BY <1>3, <1>4, <1>5 DEF ConsumersMove, ConsumerNext, ConsumerStep, SourceInv

LEMMA DocumentSources ==
    ASSUME IngestionTypeInv, SourceInv, DocumentMoves
    PROVE  SourceInv'
  <1>1. /\ UNCHANGED <<chunkInfo, topic>>
        /\ DOMAIN vectors' \subseteq DOMAIN vectors /\ es' \subseteq es
    BY DocumentWrites DEF IngestionTypeInv, TypeInv
  <1>2. UNCHANGED <<req, cons, checked>>
    BY DEF DocumentMoves, consumerVars
  <1>3. QueuedTasks' = QueuedTasks
    BY <1>1 DEF QueuedTasks
  <1> QED
    BY <1>1, <1>2, <1>3 DEF SourceInv, SendersWhole, TasksWhole, RowsFromTasks, FromTask, Jobs,
       Whole, Recorded

LEMMA SourceInvariant == IngestionSpec => []SourceInv
  <1>1. IngestionInit => SourceInv
    <2> SUFFICES ASSUME IngestionInit PROVE SourceInv
      OBVIOUS
    <2>1. QueuedTasks = {}
      BY DEF IngestionInit, UploadInit, RequestsInit, StoresInit, QueuedTasks
    <2>2. SendersWhole /\ TasksWhole
      BY <2>1 DEF IngestionInit, UploadInit, RequestsInit, SendersWhole, TasksWhole, Idle
    <2>3. RowsFromTasks
      BY DEF IngestionInit, UploadInit, RequestsInit, StoresInit, PipelineInit, RowsFromTasks, Jobs, Fetching
    <2> QED
      BY <2>2, <2>3 DEF SourceInv
  <1>2. IngestionTypeInv /\ IngestionTypeInv' /\ UploadInv /\ SourceInv
          /\ [IngestionNext]_ingestionVars => SourceInv'
    BY UploadSources, ConsumerSources, DocumentSources, StepsOfComponents
  <1> QED
    BY <1>1, <1>2, IngestionTypeInvariant, UploadsKeptWhole, PTL DEF IngestionSpec

(* From the upload to the index: nothing is stored in document_vectors or  *)
(* searchable but chunks of a file that was uploaded whole and whose chunk *)
(* 0 passed the type check for that user, with the user and the visibility *)
(* of a task that a merge of that file sent; whatever crashes, fails, is   *)
(* rebalanced, deleted or uploaded again on the way.                       *)
THEOREM SearchableAreUploaded == IngestionSpec => []SearchableUploaded
  <1>1. SourceInv => SearchableUploaded
    BY DEF SourceInv, TasksWhole, RowsFromTasks, FromTask, Whole, SearchableUploaded
  <1> QED
    BY <1>1, SourceInvariant, PTL

-----------------------------------------------------------------------------
(* The rows of a document.  Of the steps outside the pipeline only the     *)
(* removals of a deletion touch document_vectors, and they add nothing.    *)
LEMMA TaskStays ==
    ASSUME TypeInv, UNCHANGED consumerVars, LogsGrow, NEW c \in Consumer, Holds(c)
    PROVE  Holds(c)' /\ TaskOf(c)' = TaskOf(c)
  <1>1. cons[c].part \in Partition /\ cons[c].off \in 1 .. Len(topic[cons[c].part])
    BY TaskTyped
  <1> QED
    BY <1>1 DEF LogsGrow, TaskOf, Holds, consumerVars

LEMMA OwnersKept ==
    IngestionTypeInv /\ OwnersHold /\ [IngestionNext]_ingestionVars => OwnersHold'
  <1> SUFFICES ASSUME IngestionTypeInv, OwnersHold, [IngestionNext]_ingestionVars PROVE OwnersHold'
    OBVIOUS
  <1>1. CASE ConsumersMove
    BY <1>1, OwnersStep, ConsumersStep DEF IngestionTypeInv
  <1>2. CASE UNCHANGED consumerVars
    BY <1>2 DEF consumerVars, groupVars, OwnersHold, Holds
  <1> QED
    BY <1>1, <1>2, StepsOfComponents DEF UploadMoves, DocumentMoves

LEMMA OwnersKeptInvariant == IngestionSpec => []OwnersHold
  <1>1. IngestionInit => OwnersHold
    BY OwnersInit DEF IngestionInit, UploadInit, RequestsInit, PipelineAloneInit
  <1> QED
    BY <1>1, OwnersKept, IngestionTypeInvariant, PTL DEF IngestionSpec

LEMMA OthersKeepRowsOnce ==
    ASSUME TypeInv, RowsOnce, UNCHANGED consumerVars, LogsGrow,
           DOMAIN vectors' \subseteq DOMAIN vectors,
           \A r \in DOMAIN vectors' : vectors'[r] = vectors[r]
    PROVE  RowsOnce'
  <1>1. \A r \in DOMAIN vectors' : vectors'[r] = 1
    BY DEF RowsOnce
  <1>2. ASSUME NEW c \in Consumer, cons'[c].pc = "save"
        PROVE  RowsOf(TaskOf(c).user, TaskOf(c).file)' = {}
    <2>1. cons[c].pc = "save" /\ Holds(c)
      BY <1>2 DEF consumerVars, Holds
    <2>2. TaskOf(c)' = TaskOf(c) /\ RowsOf(TaskOf(c).user, TaskOf(c).file) = {}
      BY <2>1, TaskStays DEF RowsOnce
    <2> QED
      BY <2>2 DEF RowsOf
  <1> QED
    BY <1>1, <1>2 DEF RowsOnce

LEMMA RowsOnceKept ==
    ASSUME RowsCleaned
    PROVE  IngestionTypeInv /\ OneWorker /\ RowsOnce /\ [IngestionNext]_ingestionVars => RowsOnce'
  <1> SUFFICES ASSUME IngestionTypeInv, OneWorker, RowsOnce, [IngestionNext]_ingestionVars
               PROVE  RowsOnce'
    OBVIOUS
  <1>0. UploadTypeOK /\ TypeInv /\ DeletionTyped /\ StoresOK /\ StoresTypeOK
    BY DEF IngestionTypeInv, TypeInv, StoresOK
  <1>1. CASE ConsumersMove
    BY <1>0, <1>1, RowsOnceStep, ConsumersStep
  <1>2. CASE UploadMoves
    <2>1. UNCHANGED consumerVars /\ UNCHANGED vectors /\ LogsGrow
      BY <1>0, <1>2, UploadWrites, UploadLogs DEF UploadMoves
    <2> QED
      BY <1>0, <2>1, OthersKeepRowsOnce
  <1>3. CASE DocumentMoves
    <2>1. /\ UNCHANGED consumerVars /\ LogsGrow
          /\ DOMAIN vectors' \subseteq DOMAIN vectors
          /\ \A r \in DOMAIN vectors' : vectors'[r] = vectors[r]
      BY <1>0, <1>3, DocumentWrites, SameLogs DEF DocumentMoves
    <2> QED
      BY <1>0, <2>1, OthersKeepRowsOnce
  <1> QED
    BY <1>1, <1>2, <1>3, StepsOfComponents

LEMMA RowsOnceKeptInvariant ==
    ASSUME OnePartition, NoRebalance, RowsCleaned
    PROVE  IngestionSpec => []RowsOnce
  <1>1. IngestionInit => RowsOnce
    BY RowsOnceInit DEF IngestionInit, UploadInit, RequestsInit, PipelineAloneInit
  <1>2. IngestionTypeInv /\ OwnersHold => OneWorker
    BY WorksAlone DEF IngestionTypeInv
  <1>3. IngestionTypeInv /\ OneWorker /\ RowsOnce /\ [IngestionNext]_ingestionVars => RowsOnce'
    BY RowsOnceKept
  <1> QED
    BY <1>1, <1>2, <1>3, IngestionTypeInvariant, OwnersKeptInvariant, PTL DEF IngestionSpec

(* No chunk of a document is stored twice, also when the document is       *)
(* deleted while it is processed, and uploaded again while its first task  *)
(* waits; with one partition, without rebalances, and if old rows are      *)
(* cleaned.                                                                *)
THEOREM IngestionStoresChunksOnce ==
    ASSUME OnePartition, NoRebalance, RowsCleaned
    PROVE  IngestionSpec => []NoDuplicateChunks
  <1>1. RowsOnce => NoDuplicateChunks
    BY DEF RowsOnce, NoDuplicateChunks, RowsOf
  <1> QED
    BY <1>1, RowsOnceKeptInvariant, PTL

-----------------------------------------------------------------------------
(* While no document is deleted.                                           *)
NothingDeleted == Deleter = {}

LEMMA NoDeletions == ASSUME NothingDeleted PROVE ~DocumentMoves
  BY DEF NothingDeleted, DocumentMoves, DocumentNext

(* The consumers write nothing that a merge knows of.                      *)
LEMMA TasksKept ==
    ASSUME NothingDeleted
    PROVE  IngestionTypeInv /\ UploadInv /\ TaskInv /\ [IngestionNext]_ingestionVars => TaskInv'
  <1> SUFFICES ASSUME IngestionTypeInv, UploadInv, TaskInv, [IngestionNext]_ingestionVars
               PROVE  TaskInv'
    OBVIOUS
  <1>0. UploadTypeOK /\ TypeInv /\ req \in [Worker -> Request]
    BY DEF IngestionTypeInv, UploadTypeOK
  <1>1. CASE UploadMoves
    BY <1>0, <1>1, TaskStep DEF UploadMoves
  <1>2. CASE ConsumersMove
    <2>1. /\ UNCHANGED <<mergedObject, topic, req>>
          /\ \A k \in Key : /\ fileUpload'[k].id = fileUpload[k].id
                            /\ fileUpload'[k].vis = fileUpload[k].vis
                            /\ fileUpload'[k].status = fileUpload[k].status
      BY <1>0, <1>2, ConsumersWrite DEF ConsumersMove
    <2>2. QueuedTasks' = QueuedTasks
      BY <2>1 DEF QueuedTasks
    <2>3. CompletedStored' /\ CompletedPresent'
      BY <2>1 DEF TaskInv, CompletedStored, CompletedPresent, Present, Key
    <2>4. TaskAfterMerge'
      BY <1>0, <2>1, <2>2, QueueTyped DEF TaskInv, TaskAfterMerge
    <2>5. ASSUME NEW w \in Worker PROVE MergeProgress(req[w])'
      <3>1. req[w] \in Request /\ req'[w] = req[w] /\ <<req[w].user, req[w].file>> \in Key
        BY <1>0, <2>1 DEF Request, Key
      <3> QED
        BY <2>1, <3>1 DEF TaskInv, MergeProgress, Own, Present
    <2> QED
      BY <2>3, <2>4, <2>5 DEF TaskInv
  <1> QED
    BY <1>1, <1>2, NoDeletions, StepsOfComponents

LEMMA TasksKeptInvariant == ASSUME NothingDeleted PROVE IngestionSpec => []TaskInv
  <1>1. IngestionInit => TaskInv
    BY TaskInit DEF IngestionInit, UploadInit, RequestsInit
  <1>2. IngestionTypeInv /\ UploadInv /\ TaskInv /\ [IngestionNext]_ingestionVars => TaskInv'
    BY TasksKept
  <1> QED
    BY <1>1, <1>2, IngestionTypeInvariant, UploadsKeptWhole, PTL DEF IngestionSpec

(* While no document is deleted, a record that is completed has its merged *)
(* object, and every task that a consumer will find has the object it      *)
(* downloads and the completed record it updates, whose visibility it      *)
(* carries, however uploads, merges, crashes and consumers interleave.     *)
THEOREM IngestionTasksServed ==
    ASSUME NothingDeleted PROVE IngestionSpec => [](TaskAfterMerge /\ CompletedStored)
  <1>1. TaskInv => TaskAfterMerge /\ CompletedStored
    BY DEF TaskInv
  <1> QED
    BY <1>1, TasksKeptInvariant, PTL

-----------------------------------------------------------------------------
(* The status shown.  A merge sends its task only when the log of the      *)
(* partition has room, and a record is created only where no task waits.   *)
LEMMA LogsKept ==
    IngestionTypeInv /\ LogsBounded /\ [IngestionNext]_ingestionVars => LogsBounded'
  <1> SUFFICES ASSUME IngestionTypeInv, LogsBounded, [IngestionNext]_ingestionVars
               PROVE  LogsBounded'
    OBVIOUS
  <1>0. UploadTypeOK /\ TypeInv /\ DeletionTyped /\ StoresOK /\ StoresTypeOK
    BY DEF IngestionTypeInv, TypeInv, StoresOK
  <1>1. CASE ConsumersMove
    BY <1>0, <1>1, LogsStep, ConsumersStep
  <1>2. CASE UNCHANGED <<topic, settled>>
    BY <1>2 DEF LogsBounded
  <1>3. CASE UploadMoves /\ topic' # topic
    <2>1. PICK w \in Worker : Produce(w)
      BY <1>0, <1>3, UploadWrites
    <2>2. PICK p \in Partition :
              /\ Len(topic[p]) < MaxTasks /\ Len(topic'[p]) = Len(topic[p]) + 1
              /\ \A q \in Partition \ {p} : topic'[q] = topic[q]
      BY <1>0, <1>3, <2>1, ProduceGrows
    <2>3. \A q \in Partition : Len(topic[q]) \in Nat
      <3>1. \A q \in Partition : topic[q] \in Seq(Task)
        BY <1>0 DEF StoresTypeOK
      <3> QED
        BY <3>1
    <2>4. UNCHANGED settled
      BY <1>3 DEF UploadMoves, consumerVars
    <2> QED
      BY <2>2, <2>3, <2>4, BoundAssumption DEF LogsBounded
  <1>4. CASE DocumentMoves
    BY <1>0, <1>2, <1>4, DocumentWrites DEF DocumentMoves, consumerVars
  <1> QED
    BY <1>1, <1>2, <1>3, <1>4, StepsOfComponents DEF UploadMoves, consumerVars

LEMMA UploadPending ==
    ASSUME IngestionTypeInv, TaskInv, LogsBounded, StatusPending, UploadMoves
    PROVE  StatusPending'
  <1>0. UploadTypeOK /\ TypeInv /\ StoresTypeOK /\ UNCHANGED consumerVars
    BY DEF IngestionTypeInv, UploadMoves, UploadTypeOK
  <1>1. CASE topic' # topic
    <2>1. PICK w \in Worker : Produce(w)
      BY <1>0, <1>1, UploadWrites
    <2>2. UNCHANGED fileUpload
      BY <2>1, <1>0, ProduceStep
    <2>3. req[w].user \in User /\ req[w].file \in File
      BY <1>0, <1>1, <2>1, ProduceGrows
    <2>4. PICK p \in Partition :
              /\ Len(topic'[p]) = Len(topic[p]) + 1
              /\ topic'[p][Len(topic[p]) + 1] =
                     [user |-> req[w].user, file |-> req[w].file, vis |-> req[w].vis]
              /\ \A o \in 1 .. Len(topic[p]) : topic'[p][o] = topic[p][o]
              /\ \A q \in Partition \ {p} : topic'[q] = topic[q]
      BY <1>0, <1>1, <2>1, ProduceGrows
    <2> QED
      BY <1>0, <2>2, <2>3, <2>4, PublishPending
  <1>2. CASE UNCHANGED topic
    <2>1. ASSUME NEW u \in User, NEW f \in File, NotFinal(u, f)' PROVE NotFinal(u, f)
      <3> DEFINE k == <<u, f>>
      <3>1. Tasked(u, f) /\ k \in Key
        BY <1>2, <2>1 DEF NotFinal, Tasked, TaskAt, Key
      <3>2. Present(fileUpload[k])
        <4>1. PICK p \in Partition : \E o \in 1 .. Len(topic[p]) : TaskAt(p, o, u, f)
          BY <3>1 DEF Tasked
        <4>2. PICK o \in 1 .. Len(topic[p]) : TaskAt(p, o, u, f)
          BY <4>1
        <4>3. topic[p] \in Seq(Task)
          BY <1>0 DEF StoresTypeOK
        <4>4. o \in DOMAIN topic[p]
          BY <4>2, <4>3
        <4>5. topic[p][o] \in QueuedTasks
          BY <4>4 DEF QueuedTasks
        <4>6. fileUpload[k].status = 1
          BY <4>2, <4>5 DEF TaskInv, TaskAfterMerge, TaskAt
        <4> QED
          BY <3>1, <4>6 DEF TaskInv, CompletedPresent
      <3>3. SameDocument(k)
        BY <1>0, <3>1, <3>2, UploadWrites DEF DocumentsAdded
      <3> QED
        BY <2>1, <3>1, <3>2, <3>3 DEF NotFinal, SameDocument
    <2>2. \A p \in Partition : \A o \in 1 .. Len(topic[p]) : Outstanding(p, o) => Outstanding(p, o)'
      BY <1>0 DEF Outstanding, Processes, consumerVars, groupVars
    <2> QED
      BY <1>2, <2>1, <2>2, QuietPending
  <1> QED
    BY <1>1, <1>2

LEMMA StatusKeptInvariant ==
    ASSUME NothingDeleted, StatusesWritten, NoRebalance \/ "Process" \notin Faulty
    PROVE  IngestionSpec => []StatusInv
  <1>1. IngestionInit => StatusInv
    BY OwnersInit, LogsInit, PendingInit DEF IngestionInit, UploadInit, RequestsInit, PipelineAloneInit, StatusInv
  <1>2. IngestionTypeInv /\ OrderInv /\ TaskInv /\ StatusInv /\ [IngestionNext]_ingestionVars
          => StatusInv'
    <2> SUFFICES ASSUME IngestionTypeInv, OrderInv, TaskInv, StatusInv, [IngestionNext]_ingestionVars
                 PROVE  StatusInv'
      OBVIOUS
    <2>1. OwnersHold' /\ LogsBounded'
      BY OwnersKept, LogsKept DEF StatusInv
    <2>2. StatusPending'
      BY UploadPending, NoDeletions, ConsumersStep, PendingStep, StepsOfComponents
         DEF StatusInv, IngestionTypeInv
    <2> QED
      BY <2>1, <2>2 DEF StatusInv
  <1>3. IngestionSpec => []TaskInv
    BY TasksKeptInvariant
  <1> QED
    BY <1>1, <1>2, <1>3, IngestionTypeInvariant, OrderKeptInvariant, PTL DEF IngestionSpec

(* A document whose tasks are finished is never shown as processing: the   *)
(* theorem about the pipeline holds with the real merge, several of whose  *)
(* requests interleave and crash, in the place of its environment; while   *)
(* no document is deleted (one that is deleted and uploaded again is       *)
(* pending, with its old task finished).                                   *)
THEOREM IngestionDocumentsDecided ==
    ASSUME NothingDeleted, StatusesWritten, NoRebalance \/ "Process" \notin Faulty
    PROVE  IngestionSpec => []FinishedStatus
  <1>1. IngestionTypeInv /\ StatusInv => FinishedStatus
    BY StatusDecided DEF IngestionTypeInv
  <1>2. IngestionSpec => []StatusInv
    BY StatusKeptInvariant
  <1> QED
    BY <1>1, <1>2, IngestionTypeInvariant, PTL

-----------------------------------------------------------------------------
(* What a document shown as successful has in the index.                   *)
LEMMA TasksHaveRecords == ASSUME UploadTypeOK, TaskInv PROVE TasksRecorded
  <1> SUFFICES ASSUME NEW p \in Partition, NEW o \in 1 .. Len(topic[p])
               PROVE  /\ Present(fileUpload[<<topic[p][o].user, topic[p][o].file>>])
                      /\ fileUpload[<<topic[p][o].user, topic[p][o].file>>].vis = topic[p][o].vis
    BY DEF TasksRecorded
  <1>1. topic[p] \in Seq(Task)
    BY DEF UploadTypeOK, StoresTypeOK
  <1>2. o \in DOMAIN topic[p]
    BY <1>1
  <1>3. topic[p][o] \in QueuedTasks
    BY <1>2 DEF QueuedTasks
  <1> QED
    BY <1>3, QueueTyped DEF TaskInv, TaskAfterMerge, CompletedPresent

LEMMA UploadSuccess ==
    ASSUME IngestionTypeInv, TasksRecorded', SuccessInv, UploadMoves
    PROVE  SuccessInv'
  <1>0. UploadTypeOK /\ TypeInv /\ UNCHANGED consumerVars
    BY DEF IngestionTypeInv, UploadMoves
  <1>1. UNCHANGED <<vectors, es>> /\ DocumentsAdded /\ LogsGrow
    BY <1>0, UploadWrites, UploadLogs
  <1>2. ASSUME NEW c \in Consumer, Holds(c)' PROVE Progress(c)'
    <2>1. Holds(c) /\ cons'[c] = cons[c]
      BY <1>0, <1>2 DEF Holds, consumerVars
    <2>2. TaskOf(c)' = TaskOf(c) /\ RecordOf(c)' = RecordOf(c)
      BY <1>0, <1>1, <2>1, TaskStays DEF RecordOf
    <2>3. Progress(c)
      BY <2>1 DEF SuccessInv
    <2>4. fileUpload'[RecordOf(c)].vstatus = fileUpload[RecordOf(c)].vstatus
      <3>1. RecordOf(c) \in Key /\ Present(fileUpload[RecordOf(c)])
        BY <1>0, <2>1, TaskRecorded DEF SuccessInv
      <3> QED
        BY <1>1, <3>1 DEF DocumentsAdded, SameDocument
    <2>5. TaskRows(c)' = TaskRows(c) /\ Jobs(c)' = Jobs(c)
      BY <1>1, <2>1, <2>2 DEF TaskRows, RowsOf, Jobs
    <2> QED
      BY <1>1, <2>1, <2>2, <2>3, <2>4, <2>5 DEF Progress, RowsSaved, RowsRead, Indexing
  <1>3. ASSUME NEW u \in User, NEW f \in File, fileUpload'[<<u, f>>].vstatus = "success"
        PROVE  Indexed(u, f)'
    <2>1. SameDocument(<<u, f>>)
      BY <1>1, <1>3 DEF DocumentsAdded, Key
    <2>2. Indexed(u, f)
      BY <1>3, <2>1 DEF SuccessInv, SameDocument
    <2> QED
      BY <1>1, <2>1, <2>2 DEF Indexed, RowsOf, SameDocument
  <1> QED
    BY <1>2, <1>3 DEF SuccessInv

LEMMA SuccessKeptInvariant ==
    ASSUME NothingDeleted, OnePartition, NoRebalance, RowsCleaned, StatusesWritten
    PROVE  IngestionSpec => []SuccessInv
  <1>1. IngestionInit => SuccessInv
    BY SuccessInit DEF IngestionInit, UploadInit, RequestsInit, PipelineAloneInit
  <1>2. IngestionTypeInv /\ OwnersHold => OneWorker
    BY WorksAlone DEF IngestionTypeInv
  <1>3. IngestionTypeInv /\ TasksRecorded' /\ OneWorker /\ RowsOnce /\ SuccessInv
          /\ [IngestionNext]_ingestionVars => SuccessInv'
    BY UploadSuccess, NoDeletions, ConsumersStep, SuccessStep, StepsOfComponents
       DEF IngestionTypeInv
  <1>4. IngestionSpec => []TasksRecorded
    <2>1. IngestionTypeInv /\ TaskInv => TasksRecorded
      BY TasksHaveRecords DEF IngestionTypeInv
    <2>2. IngestionSpec => []TaskInv
      BY TasksKeptInvariant
    <2> QED
      BY <2>1, <2>2, IngestionTypeInvariant, PTL
  <1>5. IngestionSpec => []RowsOnce
    BY RowsOnceKeptInvariant
  <1> QED
    BY <1>1, <1>2, <1>3, <1>4, <1>5, IngestionTypeInvariant, OwnersKeptInvariant, PTL
       DEF IngestionSpec

(* A document shown as successful is searchable in full, with the          *)
(* visibility its uploader gave it, and shows as many chunks as it has,    *)
(* with the real merge in the place of the pipeline's environment: merges  *)
(* sent twice, crashes of the server and of the consumers, and failing     *)
(* attempts notwithstanding; with one partition, without rebalances and    *)
(* deletions, and if old rows are cleaned and statuses written.            *)
THEOREM IngestionSuccessIsSearchable ==
    ASSUME NothingDeleted, OnePartition, NoRebalance, RowsCleaned, StatusesWritten
    PROVE  IngestionSpec => []SuccessIndexed
  <1>1. SuccessInv => SuccessIndexed
    BY DEF SuccessInv, SuccessIndexed, Indexed
  <1> QED
    BY <1>1, SuccessKeptInvariant, PTL
=============================================================================
