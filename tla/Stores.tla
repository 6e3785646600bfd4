------------------------------- MODULE Stores -------------------------------
(***************************************************************************)
(* The stores that the upload service, the processing pipeline and the     *)
(* document service share: the MySQL tables file_upload, chunk_info and    *)
(* document_vectors, the Redis upload bitmaps, the MinIO bucket, the Kafka *)
(* topic and the Elasticsearch index.  One variable per store; one         *)
(* operator per repository method that the handlers call.  Each operator   *)
(* is one round trip to one store, hence atomic; the handlers interleave   *)
(* between them.                                                           *)
(***************************************************************************)
EXTENDS Integers, Sequences, FiniteSets

CONSTANTS
    User,        \* user ids
    File,        \* file MD5s
    Chunks,      \* Chunks[f]: number of 5 MB chunks of f (calculateTotalChunks)
    Visibility,  \* values of the pair (org_tag, is_public)
    Partition,   \* partitions of the Kafka topic
    MaxId,       \* bound: AUTO_INCREMENT ids handed out by file_upload
    MaxTasks,    \* bound: messages per partition
    Faulty       \* names of the external calls that may return an error

(* An empty file has no chunk: calculateTotalChunks(0) = 0.               *)
ASSUME ChunksAssumption == Chunks \in [File -> Nat]
ASSUME BoundAssumption == MaxId \in Nat /\ MaxTasks \in Nat
ASSUME NonemptyAssumption == User # {} /\ File # {} /\ Visibility # {}

VARIABLES
    fileUpload,    \* MySQL file_upload, by its unique key (file_md5, user_id)
    nextId,        \* AUTO_INCREMENT of file_upload
    marks,         \* Redis bitmaps upload:{user}:{md5}
    chunkInfo,     \* MySQL chunk_info, as the set of (md5, index) recorded
    chunkObject,   \* MinIO objects chunks/{md5}/{index}
    mergedObject,  \* MinIO objects merged/{md5}
    topic,         \* Kafka log of every partition
    vectors,       \* MySQL document_vectors: how many rows of each content
    es             \* Elasticsearch documents {md5}_{user}_{chunk}

uploadStores == <<fileUpload, nextId, marks, chunkInfo, chunkObject>>
storeVars == <<uploadStores, mergedObject, topic, vectors, es>>

-----------------------------------------------------------------------------
Key == User \X File
ChunkIds(f) == 0 .. Chunks[f] - 1

VStatus == {"pending", "processing", "success", "failed"}
Row == [id : Nat, status : {0, 1}, vstatus : VStatus, vis : Visibility,
        actual : Nat]

(* AUTO_INCREMENT starts at 1: a row with id 0 stands for "no row".        *)
Present(row) == row.id # 0
NoRow == [id |-> 0, status |-> 0, vstatus |-> "pending",
          vis |-> CHOOSE v \in Visibility : TRUE, actual |-> 0]

(* tasks.FileProcessingTask, without the fields nothing depends on.        *)
Task == [user : User, file : File, vis : Visibility]

(* A fault is a call that answers with an error and has no effect.         *)
MayFail(call) == call \in Faulty

-----------------------------------------------------------------------------
(* file_upload *)
GetFileUploadRecord(u, f) == fileUpload[<<u, f>>]

CreateFileUploadRecord(u, f, v) ==
    /\ nextId <= MaxId
    /\ nextId' = nextId + 1
    /\ fileUpload' = [fileUpload EXCEPT ![<<u, f>>] =
          [id |-> nextId, status |-> 0, vstatus |-> "pending", vis |-> v,
           actual |-> 0]]

(* Mutant: the status enumeration is shifted by one.                       *)
StatusShifted(id, st) ==
    fileUpload' = [k \in Key |->
        IF Present(fileUpload[k]) /\ fileUpload[k].id = id
        THEN [fileUpload[k] EXCEPT !.status = st + 1]
        ELSE fileUpload[k]]

UpdateFileUploadStatus(id, st) ==
    fileUpload' = [k \in Key |->
        IF Present(fileUpload[k]) /\ fileUpload[k].id = id
        THEN [fileUpload[k] EXCEPT !.status = st]
        ELSE fileUpload[k]]

DeleteFileUploadRecord(u, f) == fileUpload' = [fileUpload EXCEPT ![<<u, f>>] = NoRow]

FindBatchByMD5s(f) == {u \in User : Present(fileUpload[<<u, f>>])}

UpdateVectorizedStatus(u, f, vst) ==
    fileUpload' = IF Present(fileUpload[<<u, f>>])
                  THEN [fileUpload EXCEPT ![<<u, f>>].vstatus = vst]
                  ELSE fileUpload

UpdateVectorized(u, f, vst, actualChunks) ==
    fileUpload' = IF Present(fileUpload[<<u, f>>])
                  THEN [fileUpload EXCEPT ![<<u, f>>].vstatus = vst,
                                          ![<<u, f>>].actual = actualChunks]
                  ELSE fileUpload

(* Redis bitmap of one user and one file *)
IsChunkUploaded(u, f, i) == i \in marks[<<u, f>>]
MarkChunkUploaded(u, f, i) == marks' = [marks EXCEPT ![<<u, f>>] = @ \cup {i}]
GetUploadedChunksFromRedis(u, f) == marks[<<u, f>>] \cap ChunkIds(f)
DeleteUploadMark(u, f) == marks' = [marks EXCEPT ![<<u, f>>] = {}]

(* kafka.Writer with LeastBytes and no message key: any partition.         *)
ProduceFileTask(task) ==
    \E p \in Partition :
        /\ Len(topic[p]) < MaxTasks
        /\ topic' = [topic EXCEPT ![p] = Append(@, task)]

-----------------------------------------------------------------------------
(* document_vectors.  vectors[r] is the number of rows with content r; the *)
(* auto-increment vector_id is never read.                                 *)
VectorRow == [user : User, file : File, chunk : Nat, vis : Visibility]

RowsOf(u, f) == {r \in DOMAIN vectors : r.user = u /\ r.file = f}

FindByFileMD5AndUser(u, f) == [r \in RowsOf(u, f) |-> vectors[r]]

BatchCreate(rows) ==
    vectors' = [r \in DOMAIN vectors \cup rows |->
        (IF r \in DOMAIN vectors THEN vectors[r] ELSE 0)
          + (IF r \in rows THEN 1 ELSE 0)]

DeleteByFileMD5AndUser(u, f) ==
    vectors' = [r \in DOMAIN vectors \ RowsOf(u, f) |-> vectors[r]]

DeleteByFileMD5(f) ==
    vectors' = [r \in {x \in DOMAIN vectors : x.file # f} |-> vectors[r]]

(* Elasticsearch: the document id is (md5, user, chunk), so indexing a     *)
(* chunk again replaces its document.                                      *)
IndexDocument(r) ==
    es' = {d \in es : <<d.user, d.file, d.chunk>> # <<r.user, r.file, r.chunk>>}
          \cup {r}

EsDeleteByFileMD5(f) == es' = {d \in es : d.file # f}

-----------------------------------------------------------------------------
StoresInit ==
    /\ fileUpload = [k \in Key |-> NoRow]
    /\ nextId = 1
    /\ marks = [k \in Key |-> {}]
    /\ chunkInfo = {}
    /\ chunkObject = {}
    /\ mergedObject = {}
    /\ topic = [p \in Partition |-> <<>>]
    /\ vectors = [r \in {} |-> 0]
    /\ es = {}

StoresTypeOK ==
    /\ fileUpload \in [Key -> Row]
    /\ nextId \in Nat \ {0}
    /\ marks \in [Key -> SUBSET Nat]
    /\ chunkInfo \subseteq File \X Nat
    /\ chunkObject \subseteq File \X Nat
    /\ mergedObject \subseteq File
    /\ topic \in [Partition -> Seq(Task)]
    /\ DOMAIN vectors \subseteq VectorRow
    /\ vectors \in [DOMAIN vectors -> Nat]
    /\ es \subseteq VectorRow
=============================================================================
