------------------------------- MODULE Upload -------------------------------
(***************************************************************************)
(* The upload service: UploadChunk and MergeChunks, one goroutine per      *)
(* request, split at every call to a store.  Requests of one or several    *)
(* users for the same or for different files interleave freely; the        *)
(* background cleanup that MergeChunks starts keeps its goroutine after    *)
(* the response.  A crash of the server drops every goroutine and keeps    *)
(* every store.                                                            *)
(***************************************************************************)
EXTENDS Stores

CONSTANTS
    Worker,      \* goroutines of the server that serve uploads
    Name,        \* what a request may call its file
    Supported,   \* the names with a supported extension
    CanCrash     \* whether the server may crash

ASSUME UploadAssumption == Supported \subseteq Name /\ CanCrash \in BOOLEAN

VARIABLES
    req,         \* req[w]: the request goroutine w serves and where it is
    checked      \* history: the uploads whose chunk 0 passed the type check

uploadVars == <<storeVars, req, checked>>

ChunkPc == {"lookup", "create", "isUploaded", "put", "chunkInfo", "mark"}
MergePc == {"mergeLookup", "mergeCheck", "compose", "status", "produce"}
CleanupPc == {"unmark", "remove"}

Request == [pc : {"idle"} \cup ChunkPc \cup MergePc \cup CleanupPc,
            user : User, file : File, chunk : Nat, vis : Visibility,
            id : Nat, left : SUBSET Nat]

(* What an idle goroutine holds is never read.                             *)
Idle == [pc |-> "idle", user |-> CHOOSE u \in User : TRUE,
         file |-> CHOOSE f \in File : TRUE, chunk |-> 0,
         vis |-> CHOOSE v \in Visibility : TRUE, id |-> 0, left |-> {}]

At(w, pc) == req[w].pc = pc
Goto(w, pc) == req' = [req EXCEPT ![w].pc = pc]
Return(w) == req' = [req EXCEPT ![w] = Idle]

RequestsInit == req = [w \in Worker |-> Idle] /\ checked = {}

UploadInit == StoresInit /\ RequestsInit

-----------------------------------------------------------------------------
(* Mutant: no type check.                                                  *)
UploadChunkUnchecked(w, u, f, i, v, n) ==
    /\ At(w, "idle")
    /\ req' = [req EXCEPT ![w] = [Idle EXCEPT !.pc = "lookup", !.user = u,
                                    !.file = f, !.chunk = i, !.vis = v]]
    /\ checked' = checked \cup (IF i = 0 /\ n \in Supported THEN {<<u, f>>} ELSE {})
    /\ UNCHANGED storeVars

(* UploadChunk.  The type is that of the name this request gives the file, *)
(* and it is checked on chunk 0 only; the requests of one upload need not  *)
(* agree on the name.  An empty file is uploaded as a single empty part 0. *)
UploadChunk(w, u, f, i, v, n) ==
    /\ At(w, "idle")
    /\ i = 0 => n \in Supported
    /\ req' = [req EXCEPT ![w] = [Idle EXCEPT !.pc = "lookup", !.user = u,
                                    !.file = f, !.chunk = i, !.vis = v]]
    /\ checked' = checked \cup (IF i = 0 THEN {<<u, f>>} ELSE {})
    /\ UNCHANGED storeVars

(* GetFileUploadRecord; when it is absent the organisation of the new row  *)
(* is the request's, or the user's primary one, both part of vis.          *)
FindRecord(w) ==
    LET row == GetFileUploadRecord(req[w].user, req[w].file) IN
    /\ At(w, "lookup")
    /\ Goto(w, IF Present(row) THEN "isUploaded" ELSE "create")
    /\ UNCHANGED <<storeVars, checked>>

(* The unique key refuses a row that another request created meanwhile.    *)
CreateRecord(w) ==
    LET r == req[w] IN
    /\ At(w, "create")
    /\ \/ /\ ~Present(fileUpload[<<r.user, r.file>>])
          /\ CreateFileUploadRecord(r.user, r.file, r.vis)
          /\ Goto(w, "isUploaded")
       \/ /\ Present(fileUpload[<<r.user, r.file>>])
          /\ Return(w)
          /\ UNCHANGED <<fileUpload, nextId>>
    /\ UNCHANGED <<marks, chunkInfo, chunkObject, mergedObject, topic, vectors, es, checked>>

(* A chunk whose bit is set is answered without being stored again.        *)
CheckMark(w) ==
    LET r == req[w] IN
    /\ At(w, "isUploaded")
    /\ IF IsChunkUploaded(r.user, r.file, r.chunk) THEN Return(w) ELSE Goto(w, "put")
    /\ UNCHANGED <<storeVars, checked>>

(* Mutant: the bit is set before the row of chunk_info is written.         *)
PutChunkMarkFirst(w) ==
    /\ At(w, "put")
    /\ chunkObject' = chunkObject \cup {<<req[w].file, req[w].chunk>>}
    /\ Goto(w, "mark")
    /\ UNCHANGED <<fileUpload, nextId, marks, chunkInfo, mergedObject, topic, vectors, es, checked>>

(* The object name has no user in it: chunks/{md5}/{index}.                *)
PutChunk(w) ==
    /\ At(w, "put")
    /\ chunkObject' = chunkObject \cup {<<req[w].file, req[w].chunk>>}
    /\ Goto(w, "chunkInfo")
    /\ UNCHANGED <<fileUpload, nextId, marks, chunkInfo, mergedObject, topic, vectors, es, checked>>

CreateChunkInfo(w) ==
    /\ At(w, "chunkInfo")
    /\ chunkInfo' = chunkInfo \cup {<<req[w].file, req[w].chunk>>}
    /\ Goto(w, "mark")
    /\ UNCHANGED <<fileUpload, nextId, marks, chunkObject, mergedObject, topic, vectors, es, checked>>

(* The response then reads the bitmap back, which changes nothing.         *)
MarkChunk(w) ==
    /\ At(w, "mark")
    /\ MarkChunkUploaded(req[w].user, req[w].file, req[w].chunk)
    /\ Return(w)
    /\ UNCHANGED <<fileUpload, nextId, chunkInfo, chunkObject, mergedObject, topic, vectors, es, checked>>

-----------------------------------------------------------------------------
(* MergeChunks.  MaxTasks bounds the requests so that no merge in flight   *)
(* finds its partition full.                                               *)
Merging == {w \in Worker : req[w].pc \in MergePc}

MergeChunks(w, u, f) ==
    /\ At(w, "idle")
    /\ \A p \in Partition : Len(topic[p]) + Cardinality(Merging) < MaxTasks
    /\ req' = [req EXCEPT ![w] = [Idle EXCEPT !.pc = "mergeLookup", !.user = u,
                                    !.file = f]]
    /\ UNCHANGED <<storeVars, checked>>

MergeLookup(w) ==
    LET row == GetFileUploadRecord(req[w].user, req[w].file) IN
    /\ At(w, "mergeLookup")
    /\ IF Present(row)
       THEN req' = [req EXCEPT ![w] = [@ EXCEPT !.pc = "mergeCheck",
                                           !.id = row.id, !.vis = row.vis]]
       ELSE Return(w)
    /\ UNCHANGED <<storeVars, checked>>

(* Mutant: off by one in the count of uploaded chunks.                     *)
MergeCheckOneShort(w) ==
    LET r == req[w] IN
    /\ At(w, "mergeCheck")
    /\ IF Cardinality(GetUploadedChunksFromRedis(r.user, r.file)) + 1 < Chunks[r.file]
       THEN Return(w)
       ELSE Goto(w, "compose")
    /\ UNCHANGED <<storeVars, checked>>

MergeCheck(w) ==
    LET r == req[w] IN
    /\ At(w, "mergeCheck")
    /\ IF Cardinality(GetUploadedChunksFromRedis(r.user, r.file)) < Chunks[r.file]
       THEN Return(w)
       ELSE Goto(w, "compose")
    /\ UNCHANGED <<storeVars, checked>>

(* Mutant: an error of the object store is not returned.                   *)
ComposeErrorIgnored(w) ==
    /\ At(w, "compose")
    /\ mergedObject' \in {mergedObject, mergedObject \cup {req[w].file}}
    /\ Goto(w, "status")
    /\ UNCHANGED <<uploadStores, topic, vectors, es, checked>>

(* Mutant: the task is sent before the record is completed.                *)
ComposeThenProduce(w) ==
    LET f == req[w].file IN
    /\ At(w, "compose")
    /\ Chunks[f] > 0
    /\ \A i \in ChunkIds(f) : <<f, i>> \in chunkObject
    /\ mergedObject' = mergedObject \cup {f}
    /\ Goto(w, "produce")
    /\ UNCHANGED <<uploadStores, topic, vectors, es, checked>>

(* CopyObject or ComposeObject: every source object must exist, and there  *)
(* must be at least one.                                                   *)
Compose(w) ==
    LET f == req[w].file IN
    /\ At(w, "compose")
    /\ \/ /\ Chunks[f] > 0
          /\ \A i \in ChunkIds(f) : <<f, i>> \in chunkObject
          /\ mergedObject' = mergedObject \cup {f}
          /\ Goto(w, "status")
       \/ /\ Chunks[f] = 0 \/ \E i \in ChunkIds(f) : <<f, i>> \notin chunkObject
          /\ Return(w)
          /\ UNCHANGED mergedObject
    /\ UNCHANGED <<uploadStores, topic, vectors, es, checked>>

(* Mutant: the request returns once the record is completed.               *)
SetCompletedReturns(w) ==
    /\ At(w, "status")
    /\ UpdateFileUploadStatus(req[w].id, 1)
    /\ Goto(w, "unmark")
    /\ UNCHANGED <<nextId, marks, chunkInfo, chunkObject, mergedObject, topic, vectors, es, checked>>

SetCompleted(w) ==
    /\ At(w, "status")
    /\ UpdateFileUploadStatus(req[w].id, 1)
    /\ Goto(w, "produce")
    /\ UNCHANGED <<nextId, marks, chunkInfo, chunkObject, mergedObject, topic, vectors, es, checked>>

(* A failure to produce is logged and the request goes on.  The response   *)
(* is sent here; the goroutine lives on as the background cleanup.         *)
Produce(w) ==
    LET r == req[w] IN
    /\ At(w, "produce")
    /\ \/ ProduceFileTask([user |-> r.user, file |-> r.file, vis |-> r.vis])
       \/ MayFail("Produce") /\ UNCHANGED topic
    /\ req' = [req EXCEPT ![w].pc = "unmark", ![w].left = ChunkIds(r.file)]
    /\ UNCHANGED <<uploadStores, mergedObject, vectors, es, checked>>

(* Background cleanup: the whole bitmap, then the chunk objects one by one *)
(* in the order the object store gets to them; errors are ignored.         *)
Unmark(w) ==
    /\ At(w, "unmark")
    /\ \/ DeleteUploadMark(req[w].user, req[w].file)
       \/ MayFail("Cleanup") /\ UNCHANGED marks
    /\ Goto(w, "remove")
    /\ UNCHANGED <<fileUpload, nextId, chunkInfo, chunkObject, mergedObject, topic, vectors, es, checked>>

RemoveChunkObject(w, i) ==
    LET r == req[w] IN
    /\ At(w, "remove") /\ i \in r.left
    /\ \/ chunkObject' = chunkObject \ {<<r.file, i>>}
       \/ MayFail("Cleanup") /\ UNCHANGED chunkObject
    /\ IF r.left = {i} THEN Return(w) ELSE req' = [req EXCEPT ![w].left = @ \ {i}]
    /\ UNCHANGED <<fileUpload, nextId, marks, chunkInfo, mergedObject, topic, vectors, es, checked>>

-----------------------------------------------------------------------------
(* A call that answers with an error ends the request; what the steps      *)
(* before it wrote stays written.                                          *)
CallOf(pc) ==
    CASE pc \in {"lookup", "create", "status", "chunkInfo", "mergeLookup"} -> "MySQL"
      [] pc \in {"isUploaded", "mark", "mergeCheck"} -> "Redis"
      [] pc \in {"put", "compose"} -> "MinIO"
      [] OTHER -> "none"

CallError(w) ==
    /\ MayFail(CallOf(req[w].pc))
    /\ Return(w)
    /\ UNCHANGED <<storeVars, checked>>

Crash ==
    /\ CanCrash
    /\ \E w \in Worker : ~At(w, "idle")
    /\ req' = [w \in Worker |-> Idle]
    /\ UNCHANGED <<storeVars, checked>>

-----------------------------------------------------------------------------
Step(w) ==
    \/ FindRecord(w) \/ CreateRecord(w) \/ CheckMark(w)
    \/ PutChunk(w) \/ CreateChunkInfo(w) \/ MarkChunk(w)
    \/ MergeLookup(w) \/ MergeCheck(w) \/ Compose(w)
    \/ SetCompleted(w) \/ Produce(w) \/ Unmark(w)
    \/ \E i \in req[w].left : RemoveChunkObject(w, i)

Arrive(w) ==
    \E u \in User, f \in File :
        \/ \E i \in ChunkIds(f) \cup {0}, v \in Visibility, n \in Name :
               UploadChunk(w, u, f, i, v, n)
        \/ MergeChunks(w, u, f)

UploadNext ==
    \/ \E w \in Worker : Arrive(w) \/ Step(w) \/ CallError(w)
    \/ Crash

UploadSpec == UploadInit /\ [][UploadNext]_uploadVars

-----------------------------------------------------------------------------
(* Type invariant: every store and every request in flight has the shape   *)
(* its Go struct and its table give it.                                    *)
UploadTypeOK ==
    /\ StoresTypeOK
    /\ req \in [Worker -> Request]
    /\ checked \subseteq Key

(* A chunk that UploadChunk would skip as already uploaded has its row in  *)
(* chunk_info, whatever crashed, failed or was cleaned up in between: the  *)
(* bitmap never runs ahead of the table.                                   *)
MarkedRecorded ==
    \A u \in User, f \in File :
        \A i \in marks[<<u, f>>] : <<f, i>> \in chunkInfo

Recorded(f) == \A i \in ChunkIds(f) : <<f, i>> \in chunkInfo

(* A record that CheckFile and FastUpload answer "completed" for has every *)
(* chunk in chunk_info, also when the marks and the chunk objects that the *)
(* merge relied on are gone.                                               *)
CompletedRecorded ==
    \A u \in User, f \in File : fileUpload[<<u, f>>].status = 1 => Recorded(f)

(* The type check is made on chunk 0 alone, of the name that one request   *)
(* gives the file; chunks 1 and up are stored, and the record is created,  *)
(* whatever the name.  Still no upload is completed unless a chunk 0 of    *)
(* that user and that file went through under a supported name, and no     *)
(* empty file is, whose "0 of 0 chunks" passes the merge's count.  (The    *)
(* name in the record and in the task is another request's and may have    *)
(* any extension.)                                                         *)
CompletedChecked ==
    \A u \in User, f \in File :
        fileUpload[<<u, f>>].status = 1 => <<u, f>> \in checked /\ Chunks[f] > 0

(* The inductive invariant behind the last three.  Ids tell records apart; *)
(* a chunk 0 on its way, or marked, passed the check; a request about to   *)
(* set a bit has written the row; a merge past its check found every bit,  *)
(* hence every row, and holds the id of its own record or of one that is   *)
(* gone.                                                                   *)
IdsUnique ==
    /\ \A k \in Key : fileUpload[k].id < nextId
    /\ \A k, l \in Key : Present(fileUpload[k]) /\ fileUpload[k].id = fileUpload[l].id
                            => k = l

MarkedChecked ==
    \A u \in User, f \in File : 0 \in marks[<<u, f>>] => <<u, f>> \in checked

ChunkRequestOK(r) == r.pc \in ChunkPc =>
    /\ r.chunk = 0 => <<r.user, r.file>> \in checked
    /\ r.pc = "mark" => <<r.file, r.chunk>> \in chunkInfo

MergeRequestOK(r) ==
    /\ r.pc \in {"mergeCheck", "compose", "status"} =>
          /\ r.id \in 1 .. nextId - 1
          /\ \A k \in Key : fileUpload[k].id = r.id => k = <<r.user, r.file>>
    /\ r.pc \in {"compose", "status"} =>
          Recorded(r.file) /\ (Chunks[r.file] > 0 => <<r.user, r.file>> \in checked)
    /\ r.pc = "status" => Chunks[r.file] > 0

RequestsOK == \A w \in Worker : ChunkRequestOK(req[w]) /\ MergeRequestOK(req[w])

UploadInv ==
    /\ IdsUnique
    /\ MarkedRecorded
    /\ MarkedChecked
    /\ CompletedRecorded
    /\ CompletedChecked
    /\ RequestsOK

(* While no document is deleted, a completed record has its merged object. *)
CompletedStored ==
    \A u \in User, f \in File :
        fileUpload[<<u, f>>].status = 1 => f \in mergedObject

QueuedTasks == UNION {{topic[p][i] : i \in DOMAIN topic[p]} : p \in Partition}

(* While no document is deleted, the pipeline never receives a task before *)
(* the object it will download exists and the record it will update is     *)
(* completed, and the task carries the visibility of that record.          *)
TaskAfterMerge ==
    \A t \in QueuedTasks :
        /\ t.file \in mergedObject
        /\ fileUpload[<<t.user, t.file>>].status = 1
        /\ fileUpload[<<t.user, t.file>>].vis = t.vis

(* As long as Kafka accepts messages, the bitmap and the chunk objects are *)
(* thrown away only by a merge whose task is in the topic: a crash between *)
(* completing the record and sending the task leaves what a repeated merge *)
(* needs.                                                                  *)
CleanupAfterQueued ==
    \A w \in Worker : req[w].pc \in CleanupPc =>
        \E t \in QueuedTasks : t.user = req[w].user /\ t.file = req[w].file

(* Every chunk reported as uploaded is really stored, so that an upload    *)
(* resumed from the bitmap can be merged.                                  *)
ReportedChunkStored ==
    \A u \in User, f \in File :
        fileUpload[<<u, f>>].status = 0 =>
            \A i \in GetUploadedChunksFromRedis(u, f) : <<f, i>> \in chunkObject
=============================================================================
