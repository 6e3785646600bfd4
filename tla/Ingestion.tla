----------------------------- MODULE Ingestion ------------------------------
(***************************************************************************)
(* Upload, processing and deletion together: the server's upload and       *)
(* delete requests and the consumers interleave over the shared stores.    *)
(***************************************************************************)
EXTENDS Upload, Pipeline, Document

ingestionVars == <<storeVars, req, checked, consumerVars, deletion>>

IngestionInit == UploadInit /\ PipelineInit /\ DeletionInit

(* A server crash drops the deletions in flight with the uploads.          *)
ServerCrash ==
    /\ Crash
    /\ deletion' = [d \in Deleter |-> NoDeletion]
    /\ UNCHANGED consumerVars

ServerStep ==
    \/ /\ \E w \in Worker : Arrive(w) \/ Step(w) \/ CallError(w)
       /\ UNCHANGED <<consumerVars, deletion>>
    \/ DocumentNext /\ UNCHANGED <<req, checked, consumerVars>>
    \/ ServerCrash

IngestionNext ==
    \/ ServerStep
    \/ ConsumerNext /\ UNCHANGED <<req, checked, deletion>>

IngestionSpec == IngestionInit /\ [][IngestionNext]_ingestionVars

(* As in the pipeline alone: the loop over the goroutines goes on; that a  *)
(* call returns is not assumed but a premise of the property.              *)
FairIngestionSpec ==
    /\ IngestionSpec
    /\ \A c \in Consumer : WF_ingestionVars(Goes(c) /\ UNCHANGED <<req, checked, deletion>>)

TaskWaits(u, f) ==
    \E p \in Partition : \E o \in DOMAIN topic[p] :
        topic[p][o].user = u /\ topic[p][o].file = f /\ o \notin settled[p]

(* Unless a call of a consumer never returns, the knowledge base list does *)
(* not show a document as pending or processing for ever: a record whose   *)
(* task waits in the topic is eventually shown as processed or failed, or  *)
(* deleted, whatever crashes, deletions and repeated uploads happen        *)
(* meanwhile and whichever attempts fail.                                  *)
TaskAnswered ==
    CallsReturn =>
        \A u \in User, f \in File :
            TaskWaits(u, f) ~>
                \/ ~Present(fileUpload[<<u, f>>])
                \/ fileUpload[<<u, f>>].vstatus \in {"success", "failed"}

(* Nobody is working on a file any more: no upload, merge or cleanup, no   *)
(* deletion, no consumer, and every task for it is committed.              *)
Quiet(f) ==
    /\ \A w \in Worker : At(w, "idle") \/ req[w].file # f
    /\ ~Deleting(f)
    /\ \A u \in User, c \in Consumer : ~WorksOn(c, u, f)
    /\ \A p \in Partition : \A o \in DOMAIN topic[p] :
          topic[p][o].file = f => o <= committed[p]

(* The reference count in the presence of uploads: a completed record has  *)
(* its merged object.                                                      *)
CompletedObjectKept ==
    \A u \in User, f \in File :
        Quiet(f) /\ fileUpload[<<u, f>>].status = 1 => f \in mergedObject

(* The deletion cascade in the presence of the pipeline: nothing is stored *)
(* or searchable of a file without records that nobody works on.           *)
DeletionCascades ==
    \A f \in File : Quiet(f) /\ FindBatchByMD5s(f) = {} =>
        /\ \A u \in User : RowsOf(u, f) = {}
        /\ \A d \in es : d.file # f

(* From the upload to the index: whatever crashes, fails, is deleted or is *)
(* uploaded again meanwhile, nothing is stored in document_vectors or      *)
(* searchable but chunks of a file that was uploaded whole, as chunk_info  *)
(* says, and whose owner had a chunk 0 of it pass the type check; and each *)
(* carries the user and the visibility of a task that a merge of that file *)
(* sent.                                                                   *)
SearchableUploaded ==
    \A d \in DOMAIN vectors \cup es :
        /\ Recorded(d.file) /\ <<d.user, d.file>> \in checked
        /\ [user |-> d.user, file |-> d.file, vis |-> d.vis] \in QueuedTasks
=============================================================================
