------------------------------ MODULE Document ------------------------------
(***************************************************************************)
(* DeleteDocument: a user's upload record is deleted, then the records of  *)
(* the same MD5 are counted, and when none is left the merged object, the  *)
(* rows of document_vectors and the Elasticsearch documents of that MD5    *)
(* are removed, one store after the other.  Deletions of several users     *)
(* interleave.                                                             *)
(***************************************************************************)
EXTENDS Stores

CONSTANT Deleter     \* goroutines that serve DELETE requests

VARIABLE deletion    \* deletion[d]: the request d serves and where it is

documentVars == <<storeVars, deletion>>

NoDeletion == [pc |-> "none", user |-> CHOOSE u \in User : TRUE,
               file |-> CHOOSE f \in File : TRUE]

Deletes(d, pc) == deletion[d].pc = pc
DeletesNext(d, pc) == deletion' = [deletion EXCEPT ![d].pc = pc]
DeleteReturns(d) == deletion' = [deletion EXCEPT ![d] = NoDeletion]

(* The record is looked up by the caller's own id, so nobody deletes the   *)
(* document of another user.                                               *)
DeleteDocument(d, u, f) ==
    /\ Deletes(d, "none")
    /\ Present(GetFileUploadRecord(u, f))
    /\ deletion' = [deletion EXCEPT ![d] = [pc |-> "record", user |-> u, file |-> f]]
    /\ UNCHANGED storeVars

DeleteRecord(d) ==
    /\ Deletes(d, "record")
    /\ \/ /\ DeleteFileUploadRecord(deletion[d].user, deletion[d].file)
          /\ DeletesNext(d, "references")
       \/ MayFail("DeleteRecord") /\ DeleteReturns(d) /\ UNCHANGED fileUpload
    /\ UNCHANGED <<nextId, marks, chunkInfo, chunkObject, mergedObject, topic, vectors, es>>

(* Mutant: other references are not counted.                               *)
CountNothing(d) ==
    /\ Deletes(d, "references")
    /\ DeletesNext(d, "object")
    /\ UNCHANGED storeVars

(* An error of the count is logged and taken for "no reference left".      *)
CountReferences(d) ==
    /\ Deletes(d, "references")
    /\ \/ /\ FindBatchByMD5s(deletion[d].file) # {}
          /\ DeleteReturns(d)
       \/ /\ FindBatchByMD5s(deletion[d].file) = {} \/ MayFail("CountReferences")
          /\ DeletesNext(d, "object")
    /\ UNCHANGED storeVars

(* Errors of the three removals are logged and the next one is tried.      *)
RemoveMergedObject(d) ==
    /\ Deletes(d, "object")
    /\ \/ mergedObject' = mergedObject \ {deletion[d].file}
       \/ MayFail("Removal") /\ UNCHANGED mergedObject
    /\ DeletesNext(d, "vectors")
    /\ UNCHANGED <<uploadStores, topic, vectors, es>>

(* Mutant: only the rows of the deleting user are removed.                 *)
RemoveOwnVectors(d) ==
    /\ Deletes(d, "vectors")
    /\ DeleteByFileMD5AndUser(deletion[d].user, deletion[d].file)
    /\ DeletesNext(d, "index")
    /\ UNCHANGED <<uploadStores, mergedObject, topic, es>>

RemoveVectors(d) ==
    /\ Deletes(d, "vectors")
    /\ \/ DeleteByFileMD5(deletion[d].file)
       \/ MayFail("Removal") /\ UNCHANGED vectors
    /\ DeletesNext(d, "index")
    /\ UNCHANGED <<uploadStores, mergedObject, topic, es>>

RemoveIndex(d) ==
    /\ Deletes(d, "index")
    /\ \/ EsDeleteByFileMD5(deletion[d].file)
       \/ MayFail("Removal") /\ UNCHANGED es
    /\ DeleteReturns(d)
    /\ UNCHANGED <<uploadStores, mergedObject, topic, vectors>>

DeletionStep(d) ==
    \/ DeleteRecord(d) \/ CountReferences(d) \/ RemoveMergedObject(d)
    \/ RemoveVectors(d) \/ RemoveIndex(d)

DocumentNext ==
    \E d \in Deleter :
        \/ \E u \in User, f \in File : DeleteDocument(d, u, f)
        \/ DeletionStep(d)

-----------------------------------------------------------------------------
(* The document service alone starts from a library of processed documents *)
(* and nothing is uploaded: each user owns some of the files, each file    *)
(* that is owned is stored, and each owner's chunks are indexed.           *)
Processed(K) == {[user |-> k[1], file |-> k[2], chunk |-> 0, vis |-> NoRow.vis] : k \in K}

Ids == CHOOSE g \in [Key -> 1 .. MaxId] : \A k, l \in Key : g[k] = g[l] => k = l

Library(K) ==
    /\ fileUpload = [k \in Key |-> IF k \in K
          THEN [id |-> Ids[k], status |-> 1, vstatus |-> "success",
                vis |-> NoRow.vis, actual |-> 1]
          ELSE NoRow]
    /\ nextId = MaxId + 1
    /\ marks = [k \in Key |-> {}]
    /\ chunkInfo = {f \in File : \E u \in User : <<u, f>> \in K} \X {0}
    /\ chunkObject = {}
    /\ mergedObject = {f \in File : \E u \in User : <<u, f>> \in K}
    /\ topic = [p \in Partition |-> <<>>]
    /\ vectors = [r \in Processed(K) |-> 1]
    /\ es = Processed(K)

DeletionInit == deletion = [d \in Deleter |-> NoDeletion]

DocumentInit == DeletionInit /\ \E K \in SUBSET Key : Library(K)

DocumentSpec == DocumentInit /\ [][DocumentNext]_documentVars

-----------------------------------------------------------------------------
(* Reference counting keeps what is still needed, whoever else deletes the *)
(* file: while a user has a completed record of it, its merged object is   *)
(* there, for download, preview and reprocessing, and the user's own       *)
(* chunks stay stored and searchable.                                      *)
ReferencedKept ==
    \A u \in User, f \in File :
        /\ fileUpload[<<u, f>>].status = 1 => f \in mergedObject
        /\ fileUpload[<<u, f>>].vstatus = "success" =>
              RowsOf(u, f) # {} /\ RowsOf(u, f) \subseteq es

Deleting(f) == \E d \in Deleter : ~Deletes(d, "none") /\ deletion[d].file = f

(* Reference counting leaks nothing: when the last record of a file is     *)
(* deleted, by whichever of several concurrent requests, and the requests  *)
(* are over, no store holds anything derived from the file.                *)
UnreferencedRemoved ==
    \A f \in File : FindBatchByMD5s(f) = {} /\ ~Deleting(f) =>
        /\ f \notin mergedObject
        /\ \A u \in User : RowsOf(u, f) = {}
        /\ \A d \in es : d.file # f
=============================================================================
