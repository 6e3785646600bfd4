------------------------------ MODULE Pipeline ------------------------------
(***************************************************************************)
(* The consumers of the file processing topic (internal/infra/kafka) and   *)
(* the processor they run (internal/pipeline).  A consumer fetches one     *)
(* message, runs Process on it up to MaxAttempts times, and commits its    *)
(* offset whether the last attempt succeeded or not.  Process is split at  *)
(* every call to a store; its embedding goroutines run concurrently.       *)
(*                                                                         *)
(* The consumer group belongs to the broker and to kafka-go, which are     *)
(* not part of the repository: a partition has one owner, a new owner      *)
(* starts after the committed offset, and the consumer that lost the       *)
(* partition goes on with the message it holds.                            *)
(***************************************************************************)
EXTENDS Stores

CONSTANTS
    Consumer,          \* the consumers of the group, over all processes
    MaxAttempts,       \* attempts per message: 3 in the code
    EmbedConcurrency,  \* embedding goroutines at a time: 4 in the code
    TextChunks,        \* TextChunks[f]: chunks the text of f is split into
    Images,            \* Images[f]: images the layout parser finds in f
    MaxGeneration      \* bound: crashes, rebalances and exits

ASSUME PipelineAssumption ==
    /\ Partition # {}
    /\ MaxAttempts \in Nat \ {0}
    /\ EmbedConcurrency \in Nat \ {0}
    /\ TextChunks \in [File -> Nat]
    /\ Images \in [File -> Nat]
    /\ MaxGeneration \in Nat

VARIABLES
    owner,       \* owner[p]: the consumer partition p is assigned to
    position,    \* position[p]: last offset of p its owner has fetched
    committed,   \* committed[p]: the offset committed in p
    generation,  \* how often the group was rebalanced
    exited,      \* consumers that left their loop after a fetch error
    cons,        \* cons[c]: what consumer c is doing
    settled      \* history: offsets whose message was processed or given up

groupVars == <<owner, position, committed, generation, exited>>
consumerVars == <<groupVars, cons, settled>>
pipelineVars == <<storeVars, consumerVars>>

ProcessPc == {"start", "download", "parse", "chunk", "clean", "save", "read",
              "embed", "succeed", "fail"}

(* A goroutine of the embedding phase: the row it was given and which of   *)
(* the equal rows it is.                                                   *)
Goroutine == VectorRow \X Nat

Activity == [pc : {"fetch", "commit"} \cup ProcessPc, part : Partition,
             off : Nat, attempt : Nat, size : Nat, saved : Nat,
             todo : SUBSET Goroutine, inflight : SUBSET Goroutine,
             failed : BOOLEAN]

Fetching == [pc |-> "fetch", part |-> CHOOSE p \in Partition : TRUE, off |-> 0,
             attempt |-> 0, size |-> 0, saved |-> 0, todo |-> {},
             inflight |-> {}, failed |-> FALSE]

InProcess(c, pc) == cons[c].pc = pc
Holds(c) == cons[c].pc # "fetch"
TaskOf(c) == topic[cons[c].part][cons[c].off]
Advance(c, pc) == cons' = [cons EXCEPT ![c].pc = pc]

PipelineInit ==
    /\ owner \in [Partition -> Consumer]
    /\ position = [p \in Partition |-> 0]
    /\ committed = [p \in Partition |-> 0]
    /\ generation = 0
    /\ exited = {}
    /\ cons = [c \in Consumer |-> Fetching]
    /\ settled = [p \in Partition |-> {}]

-----------------------------------------------------------------------------
(* consume: fetch, attempts, commit *)
Fetch(c) ==
    /\ InProcess(c, "fetch") /\ c \notin exited
    /\ \E p \in Partition :
        /\ owner[p] = c
        /\ position[p] < Len(topic[p])
        /\ position' = [position EXCEPT ![p] = @ + 1]
        /\ cons' = [cons EXCEPT ![c] = [Fetching EXCEPT !.pc = "start",
                        !.part = p, !.off = position[p] + 1, !.attempt = 1]]
    /\ UNCHANGED <<storeVars, owner, committed, generation, exited, settled>>

(* The loop ends for good: nothing restarts the consumer.                  *)
FetchError(c) ==
    /\ MayFail("Fetch")
    /\ InProcess(c, "fetch") /\ c \notin exited
    /\ exited' = exited \cup {c}
    /\ UNCHANGED <<storeVars, owner, position, committed, generation, cons, settled>>

Settles(c) == settled' = [settled EXCEPT ![cons[c].part] = @ \cup {cons[c].off}]

(* Mutant: the offset committed is the next message's.                     *)
CommitNext(c) ==
    /\ InProcess(c, "commit")
    /\ committed' = [committed EXCEPT ![cons[c].part] = cons[c].off + 1]
    /\ cons' = [cons EXCEPT ![c] = Fetching]
    /\ UNCHANGED <<storeVars, owner, position, generation, exited, settled>>

(* Synchronous commit; its error is logged.  The broker checks that the    *)
(* committer is a member, not that it still owns the partition, so after a *)
(* rebalance a late commit is either refused or applied.                   *)
Commit(c) ==
    /\ InProcess(c, "commit")
    /\ \/ committed' = [committed EXCEPT ![cons[c].part] = cons[c].off]
       \/ /\ MayFail("Commit") \/ owner[cons[c].part] # c
          /\ UNCHANGED committed
    /\ cons' = [cons EXCEPT ![c] = Fetching]
    /\ UNCHANGED <<storeVars, owner, position, generation, exited, settled>>

-----------------------------------------------------------------------------
(* Process.  Errors of the status updates are discarded by the code.       *)
StatusUpdate(write) == write \/ (MayFail("StatusWrite") /\ UNCHANGED fileUpload)

Start(c) ==
    LET t == TaskOf(c) IN
    /\ InProcess(c, "start")
    /\ StatusUpdate(UpdateVectorizedStatus(t.user, t.file, "processing"))
    /\ Advance(c, "download")
    /\ UNCHANGED <<nextId, marks, chunkInfo, chunkObject, mergedObject, topic,
                   vectors, es, groupVars, settled>>

Download(c) ==
    /\ InProcess(c, "download")
    /\ \/ TaskOf(c).file \in mergedObject /\ Advance(c, "parse")
       \/ /\ TaskOf(c).file \notin mergedObject \/ MayFail("MinIO")
          /\ Advance(c, "fail")
    /\ UNCHANGED <<storeVars, groupVars, settled>>

Parse(c) ==
    LET t == TaskOf(c) IN
    /\ InProcess(c, "parse")
    /\ \/ /\ TextChunks[t.file] > 0
          /\ StatusUpdate(UpdateVectorized(t.user, t.file, "processing", 0))
          /\ Advance(c, "chunk")
       \/ /\ TextChunks[t.file] = 0 \/ MayFail("Parser")
          /\ Advance(c, "fail")
          /\ UNCHANGED fileUpload
    /\ UNCHANGED <<nextId, marks, chunkInfo, chunkObject, mergedObject, topic,
                   vectors, es, groupVars, settled>>

(* Chunks of the text, then one more for every image with a caption; an    *)
(* image whose caption fails is left out.                                  *)
Chunk(c) ==
    LET t == TaskOf(c) IN
    /\ InProcess(c, "chunk")
    /\ \E captions \in 0 .. Images[t.file] :
        /\ captions = Images[t.file] \/ MayFail("Vision")
        /\ cons' = [cons EXCEPT ![c].pc = "clean",
                                ![c].size = TextChunks[t.file] + captions]
    /\ StatusUpdate(UpdateVectorized(t.user, t.file, "processing", 0))
    /\ UNCHANGED <<nextId, marks, chunkInfo, chunkObject, mergedObject, topic,
                   vectors, es, groupVars, settled>>

(* Mutant: old rows are not deleted before new ones are written.           *)
CleanNothing(c) ==
    /\ InProcess(c, "clean")
    /\ Advance(c, "save")
    /\ UNCHANGED <<storeVars, groupVars, settled>>

(* An error of the cleanup is only logged.                                 *)
Clean(c) ==
    /\ InProcess(c, "clean")
    /\ \/ DeleteByFileMD5AndUser(TaskOf(c).user, TaskOf(c).file)
       \/ MayFail("CleanVectors") /\ UNCHANGED vectors
    /\ Advance(c, "save")
    /\ UNCHANGED <<uploadStores, mergedObject, topic, es, groupVars, settled>>

Save(c) ==
    LET t == TaskOf(c)
        rows == {[user |-> t.user, file |-> t.file, chunk |-> i, vis |-> t.vis]
                   : i \in 0 .. cons[c].size - 1}
    IN
    /\ InProcess(c, "save")
    /\ \/ BatchCreate(rows) /\ Advance(c, "read")
       \/ MayFail("MySQL") /\ Advance(c, "fail") /\ UNCHANGED vectors
    /\ UNCHANGED <<uploadStores, mergedObject, topic, es, groupVars, settled>>

Read(c) ==
    LET saved == FindByFileMD5AndUser(TaskOf(c).user, TaskOf(c).file)
        jobs  == UNION {{r} \X (1 .. saved[r]) : r \in DOMAIN saved}
    IN
    /\ InProcess(c, "read")
    /\ \/ cons' = [cons EXCEPT ![c].pc = "embed", ![c].todo = jobs,
                               ![c].saved = Cardinality(jobs)]
       \/ MayFail("MySQL") /\ Advance(c, "fail")
    /\ UNCHANGED <<storeVars, groupVars, settled>>

(* The semaphore lets EmbedConcurrency goroutines run at a time.           *)
Spawn(c, g) ==
    /\ InProcess(c, "embed") /\ g \in cons[c].todo
    /\ Cardinality(cons[c].inflight) < EmbedConcurrency
    /\ cons' = [cons EXCEPT ![c].todo = @ \ {g}, ![c].inflight = @ \cup {g}]
    /\ UNCHANGED <<storeVars, groupVars, settled>>

(* A goroutine embeds its chunk and indexes it; a failure of either call   *)
(* is reported and does not stop the others.                               *)
EmbedAndIndex(c, g) ==
    /\ InProcess(c, "embed") /\ g \in cons[c].inflight
    /\ \/ /\ IndexDocument(g[1])
          /\ cons' = [cons EXCEPT ![c].inflight = @ \ {g}]
       \/ /\ MayFail("Embed") /\ UNCHANGED es
          /\ cons' = [cons EXCEPT ![c].inflight = @ \ {g}, ![c].failed = TRUE]
    /\ UNCHANGED <<uploadStores, mergedObject, topic, vectors, groupVars, settled>>

(* Mutant: the error channel is not read.                                  *)
WaitErrorsIgnored(c) ==
    /\ InProcess(c, "embed") /\ cons[c].todo = {} /\ cons[c].inflight = {}
    /\ Advance(c, "succeed")
    /\ UNCHANGED <<storeVars, groupVars, settled>>

Wait(c) ==
    /\ InProcess(c, "embed") /\ cons[c].todo = {} /\ cons[c].inflight = {}
    /\ Advance(c, IF cons[c].failed THEN "fail" ELSE "succeed")
    /\ UNCHANGED <<storeVars, groupVars, settled>>

Succeed(c) ==
    LET t == TaskOf(c) IN
    /\ InProcess(c, "succeed")
    /\ StatusUpdate(UpdateVectorized(t.user, t.file, "success", cons[c].saved))
    /\ Advance(c, "commit")
    /\ Settles(c)
    /\ UNCHANGED <<nextId, marks, chunkInfo, chunkObject, mergedObject, topic,
                   vectors, es, groupVars>>

(* Mutant: no deferred failure status.                                     *)
FailSilently(c) ==
    /\ InProcess(c, "fail")
    /\ IF cons[c].attempt < MaxAttempts
       THEN /\ cons' = [cons EXCEPT ![c] = [Fetching EXCEPT !.pc = "start",
                    !.part = cons[c].part, !.off = cons[c].off,
                    !.attempt = cons[c].attempt + 1]]
            /\ UNCHANGED settled
       ELSE Advance(c, "commit") /\ Settles(c)
    /\ UNCHANGED <<storeVars, groupVars>>

(* Mutant: attempts are not counted, the message is retried for ever.      *)
FailForever(c) ==
    /\ InProcess(c, "fail")
    /\ StatusUpdate(UpdateVectorized(TaskOf(c).user, TaskOf(c).file, "failed", 0))
    /\ cons' = [cons EXCEPT ![c] = [Fetching EXCEPT !.pc = "start",
            !.part = cons[c].part, !.off = cons[c].off, !.attempt = 1]]
    /\ UNCHANGED <<nextId, marks, chunkInfo, chunkObject, mergedObject, topic,
                   vectors, es, groupVars, settled>>

(* The deferred failure status, then the next attempt after its backoff;   *)
(* after the last one the message is given up.                             *)
Fail(c) ==
    LET t == TaskOf(c)
        again == cons[c].attempt < MaxAttempts
    IN
    /\ InProcess(c, "fail")
    /\ StatusUpdate(UpdateVectorized(t.user, t.file, "failed", 0))
    /\ IF again
       THEN /\ cons' = [cons EXCEPT ![c] = [Fetching EXCEPT !.pc = "start",
                    !.part = cons[c].part, !.off = cons[c].off,
                    !.attempt = cons[c].attempt + 1]]
            /\ UNCHANGED settled
       ELSE Advance(c, "commit") /\ Settles(c)
    /\ UNCHANGED <<nextId, marks, chunkInfo, chunkObject, mergedObject, topic,
                   vectors, es, groupVars>>

-----------------------------------------------------------------------------
(* Mutant: a new owner starts at the end of the log.                       *)
AssignLatest(p, c) ==
    /\ c # owner[p] /\ c \notin exited
    /\ owner' = [owner EXCEPT ![p] = c]
    /\ position' = [position EXCEPT ![p] = Len(topic[p])]
    /\ UNCHANGED <<storeVars, committed, exited, cons, settled>>

(* The group.  A new owner of p starts after the committed offset; the     *)
(* consumer that owned p before keeps the message it holds.  The broker    *)
(* takes the partitions of a consumer that left, and may rebalance when    *)
(* another process joins.                                                  *)
Assign(p, c) ==
    /\ c # owner[p] /\ c \notin exited
    /\ owner' = [owner EXCEPT ![p] = c]
    /\ position' = [position EXCEPT ![p] = committed[p]]
    /\ UNCHANGED <<storeVars, committed, exited, cons, settled>>

Reassign(p, c) == owner[p] \in exited /\ Assign(p, c) /\ UNCHANGED generation

Rebalance(p, c) ==
    /\ MayFail("Group")
    /\ generation < MaxGeneration
    /\ generation' = generation + 1
    /\ Assign(p, c)

(* The process of c dies and is started again; it gets its partitions back *)
(* and the messages it had not committed.                                  *)
ConsumerCrash(c) ==
    /\ MayFail("Process")
    /\ generation < MaxGeneration
    /\ generation' = generation + 1
    /\ cons' = [cons EXCEPT ![c] = Fetching]
    /\ position' = [p \in Partition |->
                        IF owner[p] = c THEN committed[p] ELSE position[p]]
    /\ exited' = exited \ {c}
    /\ UNCHANGED <<storeVars, owner, committed, settled>>

ProcessStep(c) ==
    \/ Start(c) \/ Download(c) \/ Parse(c) \/ Chunk(c) \/ Clean(c) \/ Save(c)
    \/ Read(c) \/ Wait(c) \/ Succeed(c) \/ Fail(c)
    \/ \E g \in cons[c].todo : Spawn(c, g)
    \/ \E g \in cons[c].inflight : EmbedAndIndex(c, g)

ConsumerStep(c) == Fetch(c) \/ ProcessStep(c) \/ Commit(c)

GroupStep ==
    \/ \E c \in Consumer : FetchError(c) \/ ConsumerCrash(c)
    \/ \E p \in Partition, c \in Consumer : Reassign(p, c) \/ Rebalance(p, c)

ConsumerNext == (\E c \in Consumer : ConsumerStep(c)) \/ GroupStep

-----------------------------------------------------------------------------
(* The pipeline alone: the effect of a merge, as Upload details it, is one *)
(* step of the environment.  A merge of the same file may come again.      *)
Submit(u, f, v) ==
    /\ Present(fileUpload[<<u, f>>]) => fileUpload[<<u, f>>].vis = v
    /\ IF Present(fileUpload[<<u, f>>])
       THEN UNCHANGED <<fileUpload, nextId>>
       ELSE /\ nextId <= MaxId
            /\ nextId' = nextId + 1
            /\ fileUpload' = [fileUpload EXCEPT ![<<u, f>>] =
                   [id |-> nextId, status |-> 1, vstatus |-> "pending",
                    vis |-> v, actual |-> 0]]
    /\ mergedObject' = mergedObject \cup {f}
    /\ ProduceFileTask([user |-> u, file |-> f, vis |-> v])
    /\ UNCHANGED <<marks, chunkInfo, chunkObject, vectors, es, consumerVars>>

PipelineNext ==
    \/ \E u \in User, f \in File, v \in Visibility : Submit(u, f, v)
    \/ ConsumerNext

PipelineAloneInit == StoresInit /\ PipelineInit

PipelineSpec == PipelineAloneInit /\ [][PipelineNext]_pipelineVars

(* What the code and the broker guarantee by themselves: the loop that     *)
(* starts the embedding goroutines and waits for them goes on, and the     *)
(* broker reassigns the partitions of a consumer that left.  No call is    *)
(* assumed to return: Tika is called through http.DefaultClient, and       *)
(* MySQL, MinIO, Elasticsearch and Kafka without a deadline.               *)
Goes(c) == Wait(c) \/ \E g \in cons[c].todo : Spawn(c, g)

FairPipelineSpec ==
    /\ PipelineSpec
    /\ \A c \in Consumer : WF_pipelineVars(Goes(c))
    /\ \A p \in Partition :
          WF_pipelineVars(\E c \in Consumer : Reassign(p, c))

-----------------------------------------------------------------------------
PipelineTypeOK ==
    /\ StoresTypeOK
    /\ owner \in [Partition -> Consumer]
    /\ position \in [Partition -> Nat]
    /\ committed \in [Partition -> Nat]
    /\ generation \in Nat
    /\ exited \subseteq Consumer
    /\ cons \in [Consumer -> Activity]
    /\ settled \in [Partition -> SUBSET Nat]

(* A consumer works on a message only when every earlier message of its    *)
(* partition has been processed or given up, also after crashes, commits   *)
(* that failed and rebalances that left a message with its old consumer.   *)
InOrder ==
    \A c \in Consumer : Holds(c) => 1 .. cons[c].off - 1 \subseteq settled[cons[c].part]

(* The consumer group implements the task queue.                           *)
Queue == INSTANCE TaskQueue
    WITH topic <- topic, settled <- settled, committed <- committed
ImplementsQueue == Queue!QueueSpec

WorksOn(c, u, f) == Holds(c) /\ TaskOf(c).user = u /\ TaskOf(c).file = f

(* Nobody works on file f of user u, and every task for it is committed.   *)
Finished(u, f) ==
    /\ \A c \in Consumer : ~WorksOn(c, u, f)
    /\ \E p \in Partition, o \in 1 .. MaxTasks :
        o <= Len(topic[p]) /\ topic[p][o].user = u /\ topic[p][o].file = f
    /\ \A p \in Partition, o \in 1 .. MaxTasks :
        o <= Len(topic[p]) /\ topic[p][o].user = u /\ topic[p][o].file = f
            => o <= committed[p]

(* When its tasks are finished, a record shows success or failure: the     *)
(* knowledge base list never shows a finished document as processing.      *)
FinishedStatus ==
    \A u \in User, f \in File :
        Finished(u, f) /\ Present(fileUpload[<<u, f>>])
            => fileUpload[<<u, f>>].vstatus \in {"success", "failed"}

(* A document shown as successfully vectorised is searchable in full: each *)
(* of its rows has its Elasticsearch document, with the visibility of the  *)
(* upload record, and the number of chunks shown is the number of rows.    *)
SuccessIndexed ==
    \A u \in User, f \in File :
        Finished(u, f) /\ fileUpload[<<u, f>>].vstatus = "success" =>
            /\ RowsOf(u, f) # {}
            /\ \A r \in RowsOf(u, f) : r \in es /\ r.vis = fileUpload[<<u, f>>].vis
            /\ fileUpload[<<u, f>>].actual = Cardinality(RowsOf(u, f))

(* Reprocessing does not inflate: no chunk of a finished document is       *)
(* stored twice in document_vectors.                                       *)
NoDuplicateChunks ==
    \A u \in User, f \in File :
        Finished(u, f) => \A r \in RowsOf(u, f) : vectors[r] = 1

(* The premise of the liveness properties: no call of a consumer waits for *)
(* ever, neither the fetch of a message that is there, nor one of Process, *)
(* nor one of its goroutines, nor the commit.                              *)
Starved(c) ==
    /\ InProcess(c, "fetch") /\ c \notin exited
    /\ \E p \in Partition : owner[p] = c /\ position[p] < Len(topic[p])

CallPc == (ProcessPc \cup {"commit"}) \ {"embed"}

CallsReturn ==
    \A c \in Consumer :
        /\ []<>~Starved(c)
        /\ \A pc \in CallPc : []<>~InProcess(c, pc)
        /\ []<>(cons[c].inflight = {})

(* Unless some call never returns, every task sent to the topic is         *)
(* eventually processed or given up, as long as one consumer of the group  *)
(* is left: neither failing attempts nor lost commits, crashes and exits   *)
(* block a partition.  One call that hangs does, for ever.                 *)
TasksSettle ==
    CallsReturn =>
        \A p \in Partition : \A o \in 1 .. MaxTasks :
            (Len(topic[p]) >= o) ~> (o \in settled[p] \/ exited = Consumer)
=============================================================================
