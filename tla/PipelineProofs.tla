--------------------------- MODULE PipelineProofs ---------------------------
(***************************************************************************)
(* Theorems about Pipeline for any number of consumers, partitions, tasks, *)
(* attempts, crashes and rebalances, and any set of failing calls: its     *)
(* type invariant, that messages are worked on in order, and that the      *)
(* consumer group implements TaskQueue; and about what the pipeline leaves *)
(* behind: the status that a finished document shows, and its rows and its *)
(* documents in the index.                                                 *)
(***************************************************************************)
EXTENDS Pipeline, StoresProofs

-----------------------------------------------------------------------------
(* Types.  TaskOf is a task only if the offset a consumer holds is in the  *)
(* log, and the number of goroutines is a number only if the table of the  *)
(* chunks is finite, so the type invariant needs both beside it.           *)
OffsetsInLog ==
    /\ \A p \in Partition : position[p] <= Len(topic[p]) /\ committed[p] <= Len(topic[p])
    /\ \A c \in Consumer : Holds(c) => cons[c].off \in 1 .. Len(topic[cons[c].part])

StoresOK == StoresTypeOK /\ IsFiniteSet(DOMAIN vectors)

TypeInv == PipelineTypeOK /\ StoresOK /\ OffsetsInLog

LEMMA FetchingTyped == Fetching \in Activity /\ Fetching.pc = "fetch"
  BY PipelineAssumption DEF Fetching, Activity, ProcessPc

LEMMA TypeInvInit == PipelineAloneInit => TypeInv
  <1> SUFFICES ASSUME PipelineAloneInit PROVE TypeInv
    OBVIOUS
  <1>1. StoresTypeOK
    BY NoRowTyped DEF PipelineAloneInit, StoresInit, StoresTypeOK
  <1>2. cons \in [Consumer -> Activity] /\ \A c \in Consumer : ~Holds(c)
    BY FetchingTyped DEF PipelineAloneInit, PipelineInit, Holds
  <1>3. IsFiniteSet(DOMAIN vectors)
    BY FS_EmptySet DEF PipelineAloneInit, StoresInit
  <1> QED
    BY <1>1, <1>2, <1>3 DEF PipelineAloneInit, PipelineInit, StoresInit, TypeInv,
                      StoresOK, PipelineTypeOK, OffsetsInLog

(* The task a consumer holds.                                              *)
LEMMA TaskTyped ==
    ASSUME TypeInv, NEW c \in Consumer, Holds(c)
    PROVE  /\ cons[c] \in Activity /\ cons[c].part \in Partition
           /\ cons[c].off \in 1 .. Len(topic[cons[c].part])
           /\ TaskOf(c) \in Task
           /\ TaskOf(c).user \in User /\ TaskOf(c).file \in File /\ TaskOf(c).vis \in Visibility
  <1>1. cons[c] \in Activity /\ cons[c].off \in 1 .. Len(topic[cons[c].part])
    BY DEF TypeInv, PipelineTypeOK, OffsetsInLog
  <1>2. cons[c].part \in Partition
    BY <1>1 DEF Activity
  <1>3. topic[cons[c].part] \in Seq(Task)
    BY <1>2 DEF TypeInv, PipelineTypeOK, StoresTypeOK
  <1>4. TaskOf(c) \in Task
    BY <1>1, <1>3 DEF TaskOf
  <1> QED
    BY <1>1, <1>2, <1>4 DEF Task

(* What consumer c holds does not change, and the others do nothing.       *)
SameMessage(c) ==
    /\ cons' \in [Consumer -> Activity]
    /\ cons'[c].part = cons[c].part /\ cons'[c].off = cons[c].off
    /\ \A d \in Consumer \ {c} : cons'[d] = cons[d]

LEMMA Advances ==
    ASSUME cons \in [Consumer -> Activity], NEW c \in Consumer,
           NEW pc \in {"commit"} \cup ProcessPc, Advance(c, pc)
    PROVE  /\ SameMessage(c)
           /\ cons'[c] = [cons[c] EXCEPT !.pc = pc]
           /\ cons'[c].pc = pc
  <1> DEFINE next == [cons[c] EXCEPT !.pc = pc]
  <1>1. next \in Activity /\ next.pc = pc /\ next.part = cons[c].part /\ next.off = cons[c].off
    BY DEF Activity
  <1>2. cons' = [cons EXCEPT ![c] = next]
    BY DEF Advance
  <1> HIDE DEF next
  <1>3. cons' \in [Consumer -> Activity] /\ cons'[c] = next
    BY <1>1, <1>2
  <1>4. \A d \in Consumer \ {c} : cons'[d] = cons[d]
    BY <1>2
  <1> QED
    BY <1>1, <1>3, <1>4 DEF SameMessage, next

(* A consumer that begins an attempt.                                      *)
Attempt(p, o, n) == [Fetching EXCEPT !.pc = "start", !.part = p, !.off = o, !.attempt = n]

LEMMA AttemptTyped ==
    ASSUME NEW p \in Partition, NEW o \in Nat, NEW n \in Nat
    PROVE  /\ Attempt(p, o, n) \in Activity
           /\ Attempt(p, o, n).pc = "start"
           /\ Attempt(p, o, n).part = p /\ Attempt(p, o, n).off = o
  BY FetchingTyped DEF Attempt, Activity, ProcessPc

-----------------------------------------------------------------------------
(* A step of Process goes on with the message, or ends its last attempt.   *)
GoesOn(c) ==
    /\ cons[c].pc \in ProcessPc /\ cons'[c].pc \in ProcessPc
    /\ SameMessage(c)
    /\ UNCHANGED <<topic, groupVars, settled>>

Finishes(c) ==
    /\ cons[c].pc \in {"succeed", "fail"} /\ cons'[c].pc = "commit"
    /\ SameMessage(c)
    /\ Settles(c)
    /\ UNCHANGED <<topic, groupVars>>

LEMMA StatusStep ==
    ASSUME TypeInv, NEW c \in Consumer, Holds(c), NEW vst \in VStatus, NEW n \in Nat,
           \/ StatusUpdate(UpdateVectorizedStatus(TaskOf(c).user, TaskOf(c).file, vst))
           \/ StatusUpdate(UpdateVectorized(TaskOf(c).user, TaskOf(c).file, vst, n))
    PROVE  fileUpload' \in [Key -> Row]
  <1>1. fileUpload \in [Key -> Row]
    BY DEF TypeInv, PipelineTypeOK, StoresOK, StoresTypeOK
  <1> QED
    BY <1>1, TaskTyped, VectorizedStatusUpdate, VectorizedUpdate DEF StatusUpdate

LEMMA StartTyped ==
    ASSUME TypeInv, NEW c \in Consumer, Start(c)
    PROVE  GoesOn(c) /\ StoresOK'
  <1>1. cons \in [Consumer -> Activity] /\ StoresOK
    BY DEF TypeInv, PipelineTypeOK
  <1>2. Holds(c) /\ cons[c].pc = "start" /\ Advance(c, "download")
    BY DEF Start, InProcess, Holds
  <1>3. SameMessage(c) /\ cons'[c].pc = "download"
    BY <1>1, <1>2, Advances DEF ProcessPc
  <1>4. fileUpload' \in [Key -> Row]
    BY <1>2, StatusStep DEF Start, VStatus
  <1> QED
    BY <1>1, <1>2, <1>3, <1>4 DEF Start, GoesOn, StoresOK, StoresTypeOK, ProcessPc

LEMMA DownloadTyped ==
    ASSUME TypeInv, NEW c \in Consumer, Download(c)
    PROVE  GoesOn(c) /\ StoresOK'
  <1>1. cons \in [Consumer -> Activity] /\ StoresOK
    BY DEF TypeInv, PipelineTypeOK
  <1>2. cons[c].pc = "download" /\ (Advance(c, "parse") \/ Advance(c, "fail"))
    BY DEF Download, InProcess
  <1>3. SameMessage(c) /\ cons'[c].pc \in {"parse", "fail"}
    BY <1>1, <1>2, Advances DEF ProcessPc
  <1> QED
    BY <1>1, <1>2, <1>3 DEF Download, GoesOn, StoresOK, StoresTypeOK, ProcessPc, storeVars, uploadStores

LEMMA ParseTyped ==
    ASSUME TypeInv, NEW c \in Consumer, Parse(c)
    PROVE  GoesOn(c) /\ StoresOK'
  <1>1. cons \in [Consumer -> Activity] /\ StoresOK
    BY DEF TypeInv, PipelineTypeOK
  <1>2. Holds(c) /\ cons[c].pc = "parse" /\ (Advance(c, "chunk") \/ Advance(c, "fail"))
    BY DEF Parse, InProcess, Holds
  <1>3. SameMessage(c) /\ cons'[c].pc \in {"chunk", "fail"}
    BY <1>1, <1>2, Advances DEF ProcessPc
  <1>4. fileUpload' \in [Key -> Row]
    BY <1>1, <1>2, StatusStep DEF Parse, VStatus, StoresOK, StoresTypeOK
  <1> QED
    BY <1>1, <1>2, <1>3, <1>4 DEF Parse, GoesOn, StoresOK, StoresTypeOK, ProcessPc

LEMMA ChunkTyped ==
    ASSUME TypeInv, NEW c \in Consumer, Chunk(c)
    PROVE  GoesOn(c) /\ StoresOK'
  <1>1. cons \in [Consumer -> Activity] /\ StoresOK
    BY DEF TypeInv, PipelineTypeOK
  <1>2. Holds(c) /\ cons[c].pc = "chunk"
    BY DEF Chunk, InProcess, Holds
  <1>3. TextChunks[TaskOf(c).file] \in Nat /\ Images[TaskOf(c).file] \in Nat
    BY <1>2, TaskTyped, PipelineAssumption
  <1>4. PICK n \in 0 .. Images[TaskOf(c).file] :
            cons' = [cons EXCEPT ![c].pc = "clean", ![c].size = TextChunks[TaskOf(c).file] + n]
    BY DEF Chunk
  <1> DEFINE size == TextChunks[TaskOf(c).file] + n
             next == [cons[c] EXCEPT !.pc = "clean", !.size = size]
  <1>5. /\ next \in Activity /\ next.pc = "clean"
        /\ next.part = cons[c].part /\ next.off = cons[c].off
    <2>1. size \in Nat
      BY <1>3
    <2> HIDE DEF size
    <2> QED
      BY <1>1, <2>1 DEF Activity, ProcessPc
  <1>6. cons' = [cons EXCEPT ![c] = next]
    BY <1>1, <1>4 DEF Activity
  <1> HIDE DEF next
  <1>7. SameMessage(c) /\ cons'[c].pc = "clean"
    BY <1>1, <1>5, <1>6 DEF SameMessage
  <1>8. fileUpload' \in [Key -> Row]
    BY <1>2, StatusStep DEF Chunk, VStatus
  <1> QED
    BY <1>1, <1>2, <1>7, <1>8 DEF Chunk, GoesOn, StoresOK, StoresTypeOK, ProcessPc

LEMMA CleanTyped ==
    ASSUME TypeInv, NEW c \in Consumer, Clean(c)
    PROVE  GoesOn(c) /\ StoresOK'
  <1>1. cons \in [Consumer -> Activity] /\ StoresOK
    BY DEF TypeInv, PipelineTypeOK
  <1>2. cons[c].pc = "clean" /\ Advance(c, "save")
    BY DEF Clean, InProcess
  <1>3. SameMessage(c) /\ cons'[c].pc = "save"
    BY <1>1, <1>2, Advances DEF ProcessPc
  <1>4. Table'
    <2>1. Table
      BY DEF TypeInv, PipelineTypeOK, StoresOK, StoresTypeOK, Table
    <2>2. CASE DeleteByFileMD5AndUser(TaskOf(c).user, TaskOf(c).file)
      BY <2>1, <2>2, UserRowsDeleted
    <2>3. CASE UNCHANGED vectors
      BY <2>1, <2>3 DEF Table
    <2> QED
      BY <2>2, <2>3 DEF Clean
  <1> QED
    BY <1>1, <1>2, <1>3, <1>4 DEF Clean, GoesOn, StoresOK, StoresTypeOK, ProcessPc, Table, uploadStores

(* The rows that Process saves.                                            *)
NewRows(c) ==
    {[user |-> TaskOf(c).user, file |-> TaskOf(c).file, chunk |-> i, vis |-> TaskOf(c).vis]
        : i \in 0 .. cons[c].size - 1}

LEMMA NewRowsTyped ==
    ASSUME TypeInv, NEW c \in Consumer, Holds(c)
    PROVE  NewRows(c) \in SUBSET VectorRow /\ IsFiniteSet(NewRows(c))
  <1> DEFINE row(i) == [user |-> TaskOf(c).user, file |-> TaskOf(c).file, chunk |-> i,
                        vis |-> TaskOf(c).vis]
             g == [i \in 0 .. cons[c].size - 1 |-> row(i)]
  <1>1. cons[c].size \in Nat
    BY TaskTyped DEF Activity
  <1>2. IsFiniteSet(0 .. cons[c].size - 1)
    BY <1>1, FS_Interval
  <1>3. /\ g \in [0 .. cons[c].size - 1 -> NewRows(c)]
        /\ \A r \in NewRows(c) : \E i \in 0 .. cons[c].size - 1 : g[i] = r
    BY DEF NewRows
  <1>4. IsFiniteSet(NewRows(c))
    <2> HIDE DEF g
    <2> QED
      BY <1>2, <1>3, FiniteImage
  <1> QED
    BY <1>4, TaskTyped DEF NewRows, VectorRow

LEMMA SaveTyped ==
    ASSUME TypeInv, NEW c \in Consumer, Save(c)
    PROVE  GoesOn(c) /\ StoresOK'
  <1>1. cons \in [Consumer -> Activity] /\ StoresOK
    BY DEF TypeInv, PipelineTypeOK
  <1>2. Holds(c) /\ cons[c].pc = "save" /\ (Advance(c, "read") \/ Advance(c, "fail"))
    BY DEF Save, InProcess, Holds
  <1>3. SameMessage(c) /\ cons'[c].pc \in {"read", "fail"}
    BY <1>1, <1>2, Advances DEF ProcessPc
  <1>4. BatchCreate(NewRows(c)) \/ UNCHANGED vectors
    BY DEF Save, NewRows
  <1>5. Table'
    BY <1>1, <1>2, <1>4, NewRowsTyped, RowsCreated DEF Table, StoresOK, StoresTypeOK, TypeInv
  <1> QED
    BY <1>1, <1>2, <1>3, <1>5 DEF Save, GoesOn, StoresOK, StoresTypeOK, ProcessPc, Table, uploadStores

(* The goroutines of the embedding phase: one for each row that was read.  *)
JobsOf(u, f) == UNION {{r} \X (1 .. FindByFileMD5AndUser(u, f)[r]) : r \in DOMAIN FindByFileMD5AndUser(u, f)}

LEMMA JobsTyped ==
    ASSUME Table, NEW u, NEW f
    PROVE  /\ JobsOf(u, f) = UNION {{r} \X (1 .. vectors[r]) : r \in RowsOf(u, f)}
           /\ JobsOf(u, f) \in SUBSET Goroutine
           /\ IsFiniteSet(JobsOf(u, f)) /\ Cardinality(JobsOf(u, f)) \in Nat
  <1>1. DOMAIN FindByFileMD5AndUser(u, f) = RowsOf(u, f)
        /\ \A r \in RowsOf(u, f) : FindByFileMD5AndUser(u, f)[r] = vectors[r]
    BY DEF FindByFileMD5AndUser
  <1>2. JobsOf(u, f) = UNION {{r} \X (1 .. vectors[r]) : r \in RowsOf(u, f)}
    BY <1>1 DEF JobsOf
  <1>3. \A r \in RowsOf(u, f) : r \in VectorRow /\ 1 .. vectors[r] \subseteq Nat
    BY DEF RowsOf, Table
  <1>4. JobsOf(u, f) \in SUBSET Goroutine
    BY <1>2, <1>3 DEF Goroutine
  <1>5. IsFiniteSet(JobsOf(u, f))
    <2> DEFINE copies == [r \in RowsOf(u, f) |-> {r} \X (1 .. vectors[r])]
               all == {copies[r] : r \in RowsOf(u, f)}
    <2>1. IsFiniteSet(RowsOf(u, f))
      BY FS_Subset DEF RowsOf, Table
    <2>2. /\ copies \in [RowsOf(u, f) -> all]
          /\ \A t \in all : \E r \in RowsOf(u, f) : copies[r] = t
      OBVIOUS
    <2>3. ASSUME NEW r \in RowsOf(u, f) PROVE IsFiniteSet(copies[r])
      <3>1. vectors[r] \in Nat
        BY DEF RowsOf, Table
      <3>2. IsFiniteSet(1 .. vectors[r])
        BY <3>1, FS_Interval
      <3>3. IsFiniteSet({r})
        BY FS_Singleton, Zenon
      <3>4. IsFiniteSet({r} \X (1 .. vectors[r]))
        BY <3>2, <3>3, FS_Product
      <3> QED
        BY <3>4
    <2>4. JobsOf(u, f) = UNION all
      BY <1>2
    <2>5. \A t \in all : IsFiniteSet(t)
      BY <2>3
    <2> HIDE DEF copies, all
    <2>6. IsFiniteSet(all)
      BY <2>1, <2>2, FiniteImage
    <2> QED
      BY <2>4, <2>5, <2>6, FS_UNION
  <1> QED
    BY <1>2, <1>4, <1>5, FS_CardinalityType

LEMMA ReadTyped ==
    ASSUME TypeInv, NEW c \in Consumer, Read(c)
    PROVE  GoesOn(c) /\ StoresOK'
  <1> DEFINE jobs == JobsOf(TaskOf(c).user, TaskOf(c).file)
             next == [cons[c] EXCEPT !.pc = "embed", !.todo = jobs, !.saved = Cardinality(jobs)]
  <1>1. cons \in [Consumer -> Activity] /\ StoresOK /\ Table
    BY DEF TypeInv, PipelineTypeOK, StoresOK, StoresTypeOK, Table
  <1>2. cons[c].pc = "read"
    BY DEF Read, InProcess
  <1>3. SameMessage(c) /\ cons'[c].pc \in {"embed", "fail"}
    <2>1. CASE Advance(c, "fail")
      BY <1>1, <2>1, Advances DEF ProcessPc
    <2>2. CASE cons' = [cons EXCEPT ![c].pc = "embed", ![c].todo = jobs,
                                    ![c].saved = Cardinality(jobs)]
      <3>1. jobs \in SUBSET Goroutine
        BY <1>1, JobsTyped
      <3>2. Cardinality(jobs) \in Nat
        BY <1>1, JobsTyped
      <3> HIDE DEF jobs
      <3>3. /\ next \in Activity /\ next.pc = "embed"
            /\ next.part = cons[c].part /\ next.off = cons[c].off
        BY <1>1, <3>1, <3>2 DEF Activity, ProcessPc
      <3>4. cons' = [cons EXCEPT ![c] = next]
        BY <1>1, <2>2 DEF Activity
      <3> HIDE DEF next
      <3> QED
        BY <1>1, <3>3, <3>4 DEF SameMessage
    <2> QED
      BY <2>1, <2>2 DEF Read, JobsOf
  <1> QED
    BY <1>1, <1>2, <1>3 DEF Read, GoesOn, StoresOK, StoresTypeOK, ProcessPc, storeVars, uploadStores

LEMMA SpawnTyped ==
    ASSUME TypeInv, NEW c \in Consumer, NEW g \in cons[c].todo, Spawn(c, g)
    PROVE  GoesOn(c) /\ StoresOK'
  <1> DEFINE next == [cons[c] EXCEPT !.todo = @ \ {g}, !.inflight = @ \cup {g}]
  <1>1. cons \in [Consumer -> Activity] /\ StoresOK
    BY DEF TypeInv, PipelineTypeOK
  <1>2. cons[c].pc = "embed"
    BY DEF Spawn, InProcess
  <1>3. /\ next \in Activity /\ next.pc = "embed"
        /\ next.part = cons[c].part /\ next.off = cons[c].off
    BY <1>1, <1>2 DEF Activity
  <1>4. cons' = [cons EXCEPT ![c] = next]
    BY <1>1 DEF Spawn, Activity
  <1> HIDE DEF next
  <1>5. SameMessage(c) /\ cons'[c].pc = "embed"
    BY <1>1, <1>3, <1>4 DEF SameMessage
  <1> QED
    BY <1>1, <1>2, <1>5 DEF Spawn, GoesOn, StoresOK, StoresTypeOK, ProcessPc, storeVars, uploadStores

LEMMA EmbedAndIndexTyped ==
    ASSUME TypeInv, NEW c \in Consumer, NEW g \in cons[c].inflight, EmbedAndIndex(c, g)
    PROVE  GoesOn(c) /\ StoresOK'
  <1> DEFINE done == [cons[c] EXCEPT !.inflight = @ \ {g}]
             failed == [cons[c] EXCEPT !.inflight = @ \ {g}, !.failed = TRUE]
  <1>1. cons \in [Consumer -> Activity] /\ StoresOK
    BY DEF TypeInv, PipelineTypeOK
  <1>2. cons[c].pc = "embed" /\ g[1] \in VectorRow
    BY <1>1 DEF EmbedAndIndex, InProcess, Activity, Goroutine
  <1>3. /\ {done, failed} \subseteq Activity /\ \A a \in {done, failed} : a.pc = "embed"
        /\ \A a \in {done, failed} : a.part = cons[c].part /\ a.off = cons[c].off
    <2>1. done \in Activity /\ failed \in Activity
      BY <1>1 DEF Activity
    <2>2. done.pc = "embed" /\ failed.pc = "embed"
      BY <1>1, <1>2 DEF Activity
    <2>3. /\ done.part = cons[c].part /\ done.off = cons[c].off
          /\ failed.part = cons[c].part /\ failed.off = cons[c].off
      BY <1>1 DEF Activity
    <2> HIDE DEF done, failed
    <2> QED
      BY <2>1, <2>2, <2>3
  <1>4. cons' = [cons EXCEPT ![c] = done] \/ cons' = [cons EXCEPT ![c] = failed]
    BY <1>1 DEF EmbedAndIndex, Activity
  <1> HIDE DEF done, failed
  <1>5. SameMessage(c) /\ cons'[c].pc = "embed"
    BY <1>1, <1>3, <1>4 DEF SameMessage
  <1>6. es' \subseteq VectorRow
    BY <1>1, <1>2 DEF EmbedAndIndex, IndexDocument, StoresOK, StoresTypeOK
  <1> QED
    BY <1>1, <1>2, <1>5, <1>6 DEF EmbedAndIndex, GoesOn, StoresOK, StoresTypeOK, ProcessPc, uploadStores

LEMMA WaitTyped ==
    ASSUME TypeInv, NEW c \in Consumer, Wait(c)
    PROVE  GoesOn(c) /\ StoresOK'
  <1>1. cons \in [Consumer -> Activity] /\ StoresOK
    BY DEF TypeInv, PipelineTypeOK
  <1>2. cons[c].pc = "embed" /\ (Advance(c, "succeed") \/ Advance(c, "fail"))
    BY DEF Wait, InProcess
  <1>3. SameMessage(c) /\ cons'[c].pc \in {"succeed", "fail"}
    BY <1>1, <1>2, Advances DEF ProcessPc
  <1> QED
    BY <1>1, <1>2, <1>3 DEF Wait, GoesOn, StoresOK, StoresTypeOK, ProcessPc, storeVars, uploadStores

LEMMA SucceedTyped ==
    ASSUME TypeInv, NEW c \in Consumer, Succeed(c)
    PROVE  Finishes(c) /\ StoresOK'
  <1>1. cons \in [Consumer -> Activity] /\ StoresOK
    BY DEF TypeInv, PipelineTypeOK
  <1>2. Holds(c) /\ cons[c].pc = "succeed" /\ Advance(c, "commit")
    BY DEF Succeed, InProcess, Holds
  <1>3. SameMessage(c) /\ cons'[c].pc = "commit"
    BY <1>1, <1>2, Advances
  <1>4. fileUpload' \in [Key -> Row]
    <2>1. cons[c].saved \in Nat
      BY <1>1 DEF Activity
    <2> QED
      BY <1>2, <2>1, StatusStep DEF Succeed, VStatus
  <1> QED
    BY <1>1, <1>2, <1>3, <1>4 DEF Succeed, Finishes, StoresOK, StoresTypeOK

LEMMA FailTyped ==
    ASSUME TypeInv, NEW c \in Consumer, Fail(c)
    PROVE  (GoesOn(c) \/ Finishes(c)) /\ StoresOK'
  <1> DEFINE next == Attempt(cons[c].part, cons[c].off, cons[c].attempt + 1)
  <1>1. cons \in [Consumer -> Activity] /\ StoresOK
    BY DEF TypeInv, PipelineTypeOK
  <1>2. Holds(c) /\ cons[c].pc = "fail"
    BY DEF Fail, InProcess, Holds
  <1>3. fileUpload' \in [Key -> Row]
    BY <1>2, StatusStep DEF Fail, VStatus
  <1>4. StoresOK'
    BY <1>1, <1>3 DEF Fail, StoresOK, StoresTypeOK
  <1>5. CASE Advance(c, "commit") /\ Settles(c)
    <2>1. SameMessage(c) /\ cons'[c].pc = "commit"
      BY <1>1, <1>5, Advances
    <2> QED
      BY <1>2, <1>4, <1>5, <2>1 DEF Fail, Finishes
  <1>6. CASE cons' = [cons EXCEPT ![c] = next] /\ UNCHANGED settled
    <2>1. cons[c].part \in Partition /\ cons[c].off \in Nat /\ cons[c].attempt + 1 \in Nat
      BY <1>1 DEF Activity
    <2>2. /\ next \in Activity /\ next.pc = "start"
          /\ next.part = cons[c].part /\ next.off = cons[c].off
      BY <2>1, AttemptTyped
    <2> HIDE DEF next
    <2>3. SameMessage(c) /\ cons'[c].pc = "start"
      BY <1>1, <1>6, <2>2 DEF SameMessage
    <2> QED
      BY <1>2, <1>4, <1>6, <2>3 DEF Fail, GoesOn, ProcessPc
  <1> QED
    BY <1>5, <1>6 DEF Fail, Attempt

LEMMA ProcessStepTyped ==
    ASSUME TypeInv, NEW c \in Consumer, ProcessStep(c)
    PROVE  (GoesOn(c) \/ Finishes(c)) /\ StoresOK'
  BY StartTyped, DownloadTyped, ParseTyped, ChunkTyped, CleanTyped, SaveTyped, ReadTyped,
     SpawnTyped, EmbedAndIndexTyped, WaitTyped, SucceedTyped, FailTyped DEF ProcessStep

(* So is a step of Process as a whole.                                     *)
LEMMA ProcessStepType ==
    ASSUME TypeInv, NEW c \in Consumer, ProcessStep(c)
    PROVE  TypeInv'
  <1>1. StoresOK' /\ (GoesOn(c) \/ Finishes(c))
    BY ProcessStepTyped
  <1>2. SameMessage(c) /\ UNCHANGED <<topic, groupVars>> /\ Holds(c)
    BY <1>1 DEF GoesOn, Finishes, Holds, ProcessPc
  <1>3. cons' \in [Consumer -> Activity]
    BY <1>2 DEF SameMessage
  <1>4. settled' \in [Partition -> SUBSET Nat]
    <2>1. settled \in [Partition -> SUBSET Nat] /\ cons[c].off \in Nat
      BY <1>2, TaskTyped DEF TypeInv, PipelineTypeOK, Activity
    <2> QED
      BY <1>1, <2>1 DEF GoesOn, Finishes, Settles
  <1>5. PipelineTypeOK'
    BY <1>1, <1>2, <1>3, <1>4 DEF TypeInv, PipelineTypeOK, StoresOK, groupVars
  <1>6. OffsetsInLog'
    BY <1>2 DEF TypeInv, OffsetsInLog, SameMessage, Holds, groupVars
  <1> QED
    BY <1>1, <1>5, <1>6 DEF TypeInv

(* A step that leaves the stores alone and changes what one consumer holds.*)
LEMMA FetchType ==
    ASSUME TypeInv, NEW c \in Consumer, Fetch(c)
    PROVE  TypeInv'
  <1>1. PICK p \in Partition :
            /\ owner[p] = c /\ position[p] < Len(topic[p])
            /\ position' = [position EXCEPT ![p] = @ + 1]
            /\ cons' = [cons EXCEPT ![c] = Attempt(p, position[p] + 1, 1)]
    BY DEF Fetch, Attempt
  <1>2. PipelineTypeOK /\ position[p] \in Nat /\ topic[p] \in Seq(Task)
    BY DEF TypeInv, PipelineTypeOK, StoresTypeOK
  <1>3. /\ Attempt(p, position[p] + 1, 1) \in Activity
        /\ Attempt(p, position[p] + 1, 1).part = p
        /\ Attempt(p, position[p] + 1, 1).off = position[p] + 1
    BY <1>2, AttemptTyped
  <1>4. StoresOK' /\ UNCHANGED <<topic, owner, committed, generation, exited, settled>>
    BY DEF Fetch, TypeInv, StoresOK, StoresTypeOK, storeVars, uploadStores
  <1>5. PipelineTypeOK'
    BY <1>1, <1>2, <1>3, <1>4 DEF PipelineTypeOK, StoresOK
  <1>6. OffsetsInLog'
    <2>1. \A q \in Partition : position'[q] <= Len(topic'[q]) /\ committed'[q] <= Len(topic'[q])
      <3> TAKE q \in Partition
      <3>1. Len(topic[p]) \in Nat
        BY <1>2
      <3> QED
        BY <1>1, <1>2, <1>4, <3>1 DEF TypeInv, OffsetsInLog, PipelineTypeOK
    <2>2. \A d \in Consumer : (Holds(d) => cons[d].off \in 1 .. Len(topic[cons[d].part]))'
      <3> TAKE d \in Consumer
      <3>1. CASE d = c
        BY <1>1, <1>2, <1>3, <1>4, <3>1 DEF PipelineTypeOK
      <3>2. CASE d # c
        BY <1>1, <1>2, <1>4, <3>2 DEF TypeInv, OffsetsInLog, PipelineTypeOK, Holds
      <3> QED
        BY <3>1, <3>2
    <2> QED
      BY <2>1, <2>2 DEF OffsetsInLog
  <1> QED
    BY <1>4, <1>5, <1>6 DEF TypeInv

LEMMA CommitType ==
    ASSUME TypeInv, NEW c \in Consumer, Commit(c)
    PROVE  TypeInv'
  <1>1. PipelineTypeOK /\ Holds(c)
    BY DEF TypeInv, Commit, InProcess, Holds
  <1>2. cons[c].part \in Partition /\ cons[c].off \in 1 .. Len(topic[cons[c].part])
    BY <1>1, TaskTyped
  <1>3. /\ cons' \in [Consumer -> Activity] /\ ~Holds(c)'
        /\ \A d \in Consumer \ {c} : cons'[d] = cons[d]
    BY <1>1, FetchingTyped DEF Commit, PipelineTypeOK, Holds
  <1>4. committed' \in [Partition -> Nat] /\ \A p \in Partition : committed'[p] <= Len(topic[p])
    <2>1. /\ committed \in [Partition -> Nat]
          /\ \A p \in Partition : committed[p] <= Len(topic[p])
      BY <1>1 DEF PipelineTypeOK, TypeInv, OffsetsInLog
    <2>2. CASE committed' = [committed EXCEPT ![cons[c].part] = cons[c].off]
      <3>1. cons[c].off \in Nat /\ cons[c].off <= Len(topic[cons[c].part])
        BY <1>1, <1>2, TaskTyped DEF Activity
      <3> QED
        BY <1>2, <2>1, <2>2, <3>1
    <2>3. CASE UNCHANGED committed
      BY <2>1, <2>3
    <2> QED
      BY <2>2, <2>3 DEF Commit
  <1>5. StoresOK' /\ UNCHANGED <<topic, owner, position, generation, exited, settled>>
    BY DEF Commit, TypeInv, StoresOK, StoresTypeOK, storeVars, uploadStores
  <1>6. PipelineTypeOK'
    BY <1>1, <1>3, <1>4, <1>5 DEF PipelineTypeOK, StoresOK
  <1>7. OffsetsInLog'
    BY <1>3, <1>4, <1>5 DEF TypeInv, OffsetsInLog, Holds
  <1> QED
    BY <1>5, <1>6, <1>7 DEF TypeInv

LEMMA GroupStepType ==
    ASSUME TypeInv, GroupStep
    PROVE  TypeInv'
  <1>1. PipelineTypeOK /\ OffsetsInLog /\ Fetching \in Activity /\ Fetching.pc = "fetch"
    BY FetchingTyped DEF TypeInv
  <1>2. StoresOK' /\ UNCHANGED <<topic, committed, settled>>
    BY DEF GroupStep, FetchError, ConsumerCrash, Reassign, Rebalance, Assign, TypeInv,
           StoresOK, StoresTypeOK, storeVars, uploadStores
  <1>3. ASSUME NEW c \in Consumer, FetchError(c) PROVE TypeInv'
    BY <1>1, <1>2, <1>3 DEF FetchError, TypeInv, PipelineTypeOK, StoresOK, OffsetsInLog, Holds
  <1>4. ASSUME NEW c \in Consumer, ConsumerCrash(c) PROVE TypeInv'
    <2>1. /\ cons' \in [Consumer -> Activity] /\ ~Holds(c)'
          /\ \A d \in Consumer \ {c} : cons'[d] = cons[d]
      BY <1>1, <1>4 DEF ConsumerCrash, PipelineTypeOK, Holds
    <2>2. position' \in [Partition -> Nat] /\ \A p \in Partition : position'[p] <= Len(topic[p])
      BY <1>1, <1>4 DEF ConsumerCrash, PipelineTypeOK, OffsetsInLog
    <2>3. generation' \in Nat /\ exited' \subseteq Consumer /\ UNCHANGED owner
      BY <1>1, <1>4 DEF ConsumerCrash, PipelineTypeOK
    <2> QED
      BY <1>1, <1>2, <2>1, <2>2, <2>3 DEF TypeInv, PipelineTypeOK, StoresOK, OffsetsInLog, Holds
  <1>5. ASSUME NEW p \in Partition, NEW c \in Consumer, Reassign(p, c) \/ Rebalance(p, c)
        PROVE  TypeInv'
    <2>1. Assign(p, c) /\ generation' \in Nat
      BY <1>1, <1>5 DEF Reassign, Rebalance, PipelineTypeOK
    <2>2. /\ owner' \in [Partition -> Consumer] /\ position' \in [Partition -> Nat]
          /\ \A q \in Partition : position'[q] <= Len(topic[q])
          /\ UNCHANGED <<exited, cons>>
      BY <1>1, <2>1 DEF Assign, PipelineTypeOK, OffsetsInLog
    <2> QED
      BY <1>1, <1>2, <2>1, <2>2 DEF TypeInv, PipelineTypeOK, StoresOK, OffsetsInLog, Holds
  <1> QED
    BY <1>3, <1>4, <1>5 DEF GroupStep

(* Logs only grow, and keep what they hold.                                *)
LEMMA SubmitGrows ==
    ASSUME TypeInv, NEW u \in User, NEW f \in File, NEW v \in Visibility, Submit(u, f, v)
    PROVE  \E p \in Partition :
              /\ topic' = [topic EXCEPT ![p] = Append(@, [user |-> u, file |-> f, vis |-> v])]
              /\ topic' \in [Partition -> Seq(Task)]
              /\ topic'[p][Len(topic[p]) + 1] = [user |-> u, file |-> f, vis |-> v]
              /\ Len(topic'[p]) = Len(topic[p]) + 1
              /\ \A o \in 1 .. Len(topic[p]) : topic'[p][o] = topic[p][o]
              /\ \A q \in Partition \ {p} : topic'[q] = topic[q]
  <1>1. [user |-> u, file |-> f, vis |-> v] \in Task
    BY DEF Task
  <1>2. topic \in [Partition -> Seq(Task)]
    BY DEF TypeInv, PipelineTypeOK, StoresTypeOK
  <1>3. ProduceFileTask([user |-> u, file |-> f, vis |-> v])
    BY DEF Submit
  <1> QED
    BY <1>1, <1>2, <1>3, TaskProduced

LEMMA SubmitType ==
    ASSUME TypeInv, NEW u \in User, NEW f \in File, NEW v \in Visibility, Submit(u, f, v)
    PROVE  TypeInv'
  <1>1. PipelineTypeOK /\ StoresOK /\ OffsetsInLog
    BY DEF TypeInv
  <1>2. fileUpload' \in [Key -> Row] /\ nextId' \in Nat \ {0}
    <2> DEFINE new == [id |-> nextId, status |-> 1, vstatus |-> "pending", vis |-> v, actual |-> 0]
    <2>1. new \in Row
      BY <1>1 DEF Row, VStatus, StoresOK, StoresTypeOK
    <2> HIDE DEF new
    <2>2. \/ UNCHANGED <<fileUpload, nextId>>
          \/ nextId' = nextId + 1 /\ fileUpload' = [fileUpload EXCEPT ![<<u, f>>] = new]
      BY DEF Submit, new
    <2>3. fileUpload \in [Key -> Row] /\ nextId \in Nat \ {0}
      BY <1>1 DEF StoresOK, StoresTypeOK
    <2> QED
      BY <2>1, <2>2, <2>3
  <1>3. PICK p \in Partition :
            /\ topic' \in [Partition -> Seq(Task)]
            /\ Len(topic'[p]) = Len(topic[p]) + 1
            /\ \A q \in Partition \ {p} : topic'[q] = topic[q]
    BY SubmitGrows
  <1>4. StoresOK' /\ UNCHANGED consumerVars
    BY <1>1, <1>2, <1>3 DEF Submit, StoresOK, StoresTypeOK
  <1>5. \A q \in Partition : Len(topic[q]) \in Nat /\ Len(topic'[q]) \in Nat /\ Len(topic[q]) <= Len(topic'[q])
    <2>1. \A q \in Partition : topic[q] \in Seq(Task) /\ topic'[q] \in Seq(Task)
      BY <1>1, <1>3 DEF StoresOK, StoresTypeOK
    <2>2. \A q \in Partition : Len(topic[q]) \in Nat /\ Len(topic'[q]) \in Nat
      BY <2>1
    <2>3. Len(topic[p]) <= Len(topic'[p])
      BY <1>3, <2>2
    <2>4. \A q \in Partition \ {p} : Len(topic[q]) <= Len(topic'[q])
      BY <1>3, <2>2
    <2> QED
      BY <2>2, <2>3, <2>4
  <1>6. OffsetsInLog'
    <2>1. \A q \in Partition : position[q] \in Nat /\ committed[q] \in Nat
      BY <1>1 DEF PipelineTypeOK
    <2>2. \A c \in Consumer : cons[c].part \in Partition /\ cons[c].off \in Nat
      BY <1>1 DEF PipelineTypeOK, Activity
    <2> QED
      BY <1>1, <1>4, <1>5, <2>1, <2>2 DEF OffsetsInLog, Holds, consumerVars, groupVars
  <1>7. PipelineTypeOK'
    BY <1>1, <1>4 DEF PipelineTypeOK, StoresOK, consumerVars, groupVars
  <1> QED
    BY <1>4, <1>6, <1>7 DEF TypeInv

LEMMA TypeInvStep == TypeInv /\ [PipelineNext]_pipelineVars => TypeInv'
  <1> SUFFICES ASSUME TypeInv, [PipelineNext]_pipelineVars PROVE TypeInv'
    OBVIOUS
  <1>1. CASE UNCHANGED pipelineVars
    BY <1>1 DEF pipelineVars, consumerVars, groupVars, storeVars, uploadStores, TypeInv,
                PipelineTypeOK, StoresOK, StoresTypeOK, OffsetsInLog, Holds
  <1>2. CASE PipelineNext
    BY <1>2, SubmitType, FetchType, ProcessStepType, CommitType, GroupStepType
       DEF PipelineNext, ConsumerNext, ConsumerStep
  <1> QED
    BY <1>1, <1>2

LEMMA TypeInvariant == PipelineSpec => []TypeInv
  BY TypeInvInit, TypeInvStep, PTL DEF PipelineSpec

(* Every store, the group and every consumer keep their types, whatever    *)
(* fails, crashes and is rebalanced.                                       *)
THEOREM PipelineTypeCorrect == PipelineSpec => []PipelineTypeOK
  <1>1. TypeInv => PipelineTypeOK
    BY DEF TypeInv
  <1> QED
    BY <1>1, TypeInvariant, PTL

-----------------------------------------------------------------------------
(* The order of messages.  InOrder is inductive only together with what    *)
(* the group knows: everything up to a committed offset is settled; a      *)
(* consumer about to commit has settled its message; and everything its    *)
(* owner has fetched of a partition is settled, but for the last message   *)
(* while the owner still holds it.                                         *)
CommittedSettled == \A p \in Partition : 1 .. committed[p] \subseteq settled[p]

CommitsSettled ==
    \A c \in Consumer : cons[c].pc = "commit" => cons[c].off \in settled[cons[c].part]

HoldsLast(p) ==
    /\ Holds(owner[p])
    /\ cons[owner[p]].part = p /\ cons[owner[p]].off = position[p]

FetchedSettled ==
    \A p \in Partition : 1 .. position[p] \subseteq settled[p] \/ HoldsLast(p)

OrderInv == InOrder /\ CommittedSettled /\ CommitsSettled /\ FetchedSettled

LEMMA OrderInit == PipelineAloneInit => OrderInv
  <1> SUFFICES ASSUME PipelineAloneInit PROVE OrderInv
    OBVIOUS
  <1>1. /\ \A c \in Consumer : cons[c].pc = "fetch"
        /\ \A p \in Partition : committed[p] = 0 /\ position[p] = 0 /\ settled[p] = {}
    BY FetchingTyped DEF PipelineAloneInit, PipelineInit
  <1> QED
    BY <1>1 DEF OrderInv, InOrder, CommittedSettled, CommitsSettled, FetchedSettled, Holds

(* A message is settled when every earlier one is.                         *)
LEMMA UpTo ==
    ASSUME NEW n \in Nat, NEW S, 1 .. n - 1 \subseteq S, n \in S
    PROVE  1 .. n \subseteq S
  OBVIOUS

LEMMA GoesOnOrder ==
    ASSUME TypeInv, OrderInv, NEW c \in Consumer, GoesOn(c)
    PROVE  OrderInv'
  <1>1. /\ \A d \in Consumer : cons'[d].part = cons[d].part /\ cons'[d].off = cons[d].off
        /\ \A d \in Consumer : Holds(d)' <=> Holds(d)
        /\ \A d \in Consumer : cons'[d].pc = "commit" <=> cons[d].pc = "commit"
    BY DEF GoesOn, SameMessage, Holds, ProcessPc
  <1>2. UNCHANGED <<owner, position, committed, settled>>
    BY DEF GoesOn, groupVars
  <1>3. owner \in [Partition -> Consumer]
    BY DEF TypeInv, PipelineTypeOK
  <1> QED
    BY <1>1, <1>2, <1>3 DEF OrderInv, InOrder, CommittedSettled, CommitsSettled, FetchedSettled,
                       HoldsLast

LEMMA FinishesOrder ==
    ASSUME TypeInv, OrderInv, NEW c \in Consumer, Finishes(c)
    PROVE  OrderInv'
  <1>1. /\ \A d \in Consumer : cons'[d].part = cons[d].part /\ cons'[d].off = cons[d].off
        /\ \A d \in Consumer : Holds(d)' <=> Holds(d)
        /\ \A d \in Consumer \ {c} : cons'[d].pc = "commit" <=> cons[d].pc = "commit"
    BY DEF Finishes, SameMessage, Holds
  <1>2. UNCHANGED <<owner, position, committed>>
    BY DEF Finishes, groupVars
  <1>3. /\ owner \in [Partition -> Consumer]
        /\ settled \in [Partition -> SUBSET Nat] /\ cons[c].part \in Partition
    BY DEF TypeInv, PipelineTypeOK, Activity
  <1>4. /\ \A p \in Partition : settled[p] \subseteq settled'[p]
        /\ cons[c].off \in settled'[cons[c].part]
    BY <1>3 DEF Finishes, Settles
  <1>5. \A d \in Consumer : cons[d].part \in Partition
    BY DEF TypeInv, PipelineTypeOK, Activity
  <1> QED
    BY <1>1, <1>2, <1>3, <1>4, <1>5 DEF OrderInv, InOrder, CommittedSettled, CommitsSettled,
                            FetchedSettled, HoldsLast

LEMMA FetchOrder ==
    ASSUME TypeInv, OrderInv, NEW c \in Consumer, Fetch(c)
    PROVE  OrderInv'
  <1>1. PICK p \in Partition :
            /\ owner[p] = c /\ position' = [position EXCEPT ![p] = @ + 1]
            /\ cons' = [cons EXCEPT ![c] = Attempt(p, position[p] + 1, 1)]
    BY DEF Fetch, Attempt
  <1>2. PipelineTypeOK /\ position[p] \in Nat
    BY DEF TypeInv, PipelineTypeOK
  <1>3. ~Holds(c) /\ UNCHANGED <<owner, committed, settled>>
    BY DEF Fetch, InProcess, Holds
  <1>4. /\ cons'[c].pc = "start" /\ cons'[c].part = p /\ cons'[c].off = position[p] + 1
        /\ \A d \in Consumer \ {c} : cons'[d] = cons[d]
    BY <1>1, <1>2, AttemptTyped DEF PipelineTypeOK
  <1>5. \A q \in Partition : owner[q] = c => 1 .. position[q] \subseteq settled[q]
    BY <1>3 DEF OrderInv, FetchedSettled, HoldsLast
  <1>6. InOrder'
    <2>1. 1 .. (position[p] + 1) - 1 \subseteq settled[p]
      BY <1>1, <1>2, <1>5
    <2> QED
      BY <1>3, <1>4, <2>1 DEF OrderInv, InOrder, Holds
  <1>7. FetchedSettled'
    <2> SUFFICES ASSUME NEW q \in Partition
                 PROVE  1 .. position'[q] \subseteq settled'[q] \/ HoldsLast(q)'
      BY DEF FetchedSettled
    <2>1. CASE q = p
      BY <1>1, <1>2, <1>3, <1>4, <2>1 DEF HoldsLast, Holds, PipelineTypeOK
    <2>2. CASE q # p /\ owner[q] = c
      BY <1>1, <1>2, <1>3, <1>5, <2>2 DEF PipelineTypeOK
    <2>3. CASE q # p /\ owner[q] # c
      <3>1. owner[q] \in Consumer \ {c} /\ position'[q] = position[q]
        BY <1>1, <1>2, <2>3 DEF PipelineTypeOK
      <3> QED
        BY <1>3, <1>4, <3>1 DEF OrderInv, FetchedSettled, HoldsLast, Holds
    <2> QED
      BY <2>1, <2>2, <2>3
  <1>8. CommittedSettled' /\ CommitsSettled'
    BY <1>3, <1>4 DEF OrderInv, CommittedSettled, CommitsSettled
  <1> QED
    BY <1>6, <1>7, <1>8 DEF OrderInv

LEMMA CommitOrder ==
    ASSUME TypeInv, OrderInv, NEW c \in Consumer, Commit(c)
    PROVE  OrderInv'
  <1>1. PipelineTypeOK /\ cons[c].pc = "commit" /\ Holds(c)
    BY DEF TypeInv, Commit, InProcess, Holds
  <1>2. /\ cons'[c].pc = "fetch" /\ \A d \in Consumer \ {c} : cons'[d] = cons[d]
        /\ UNCHANGED <<owner, position, settled>>
    BY <1>1, FetchingTyped DEF Commit, PipelineTypeOK
  <1>3. cons[c].part \in Partition /\ cons[c].off \in Nat
    BY <1>1 DEF PipelineTypeOK, Activity
  <1>4. 1 .. cons[c].off \subseteq settled[cons[c].part]
    BY <1>1, <1>3, UpTo DEF OrderInv, InOrder, CommitsSettled
  <1>5. CommittedSettled'
    <2>1. CASE UNCHANGED committed
      BY <1>2, <2>1 DEF OrderInv, CommittedSettled
    <2>2. CASE committed' = [committed EXCEPT ![cons[c].part] = cons[c].off]
      BY <1>1, <1>2, <1>4, <2>2 DEF OrderInv, CommittedSettled, PipelineTypeOK
    <2> QED
      BY <2>1, <2>2 DEF Commit
  <1>6. FetchedSettled'
    <2> SUFFICES ASSUME NEW p \in Partition
                 PROVE  1 .. position[p] \subseteq settled[p] \/ HoldsLast(p)'
      BY <1>2 DEF FetchedSettled
    <2>1. CASE HoldsLast(p) /\ owner[p] = c
      BY <1>4, <2>1 DEF HoldsLast
    <2>2. CASE HoldsLast(p) /\ owner[p] # c
      <3>1. owner[p] \in Consumer \ {c}
        BY <1>1, <2>2 DEF PipelineTypeOK
      <3> QED
        BY <1>2, <2>2, <3>1 DEF HoldsLast, Holds
    <2> QED
      BY <2>1, <2>2 DEF OrderInv, FetchedSettled
  <1>7. InOrder' /\ CommitsSettled'
    BY <1>2 DEF OrderInv, InOrder, CommitsSettled, Holds
  <1> QED
    BY <1>5, <1>6, <1>7 DEF OrderInv

LEMMA GroupStepOrder ==
    ASSUME TypeInv, OrderInv, GroupStep
    PROVE  OrderInv'
  <1>1. PipelineTypeOK /\ UNCHANGED <<committed, settled>>
    BY DEF TypeInv, GroupStep, FetchError, ConsumerCrash, Reassign, Rebalance, Assign
  <1>2. ASSUME NEW c \in Consumer, FetchError(c) PROVE OrderInv'
    BY <1>1, <1>2 DEF FetchError, OrderInv, InOrder, CommittedSettled, CommitsSettled,
                      FetchedSettled, HoldsLast, Holds
  <1>3. ASSUME NEW c \in Consumer, ConsumerCrash(c) PROVE OrderInv'
    <2>1. /\ cons'[c].pc = "fetch" /\ \A d \in Consumer \ {c} : cons'[d] = cons[d]
          /\ UNCHANGED owner
      BY <1>1, <1>3, FetchingTyped DEF ConsumerCrash, PipelineTypeOK
    <2>2. FetchedSettled'
      <3> SUFFICES ASSUME NEW p \in Partition
                   PROVE  1 .. position'[p] \subseteq settled[p] \/ HoldsLast(p)'
        BY <1>1 DEF FetchedSettled
      <3>1. CASE owner[p] = c
        BY <1>3, <3>1 DEF ConsumerCrash, OrderInv, CommittedSettled
      <3>2. CASE owner[p] # c
        <4>1. owner[p] \in Consumer \ {c} /\ position'[p] = position[p]
          BY <1>1, <1>3, <3>2 DEF ConsumerCrash, PipelineTypeOK
        <4> QED
          BY <2>1, <4>1 DEF OrderInv, FetchedSettled, HoldsLast, Holds
      <3> QED
        BY <3>1, <3>2
    <2> QED
      BY <1>1, <2>1, <2>2 DEF OrderInv, InOrder, CommittedSettled, CommitsSettled, Holds
  <1>4. ASSUME NEW p \in Partition, NEW c \in Consumer, Reassign(p, c) \/ Rebalance(p, c)
        PROVE  OrderInv'
    <2>1. Assign(p, c)
      BY <1>4 DEF Reassign, Rebalance
    <2>2. FetchedSettled'
      <3> SUFFICES ASSUME NEW q \in Partition
                   PROVE  1 .. position'[q] \subseteq settled[q] \/ HoldsLast(q)'
        BY <1>1 DEF FetchedSettled
      <3>1. CASE q = p
        BY <1>1, <2>1, <3>1 DEF Assign, OrderInv, CommittedSettled, PipelineTypeOK
      <3>2. CASE q # p
        BY <1>1, <2>1, <3>2 DEF Assign, OrderInv, FetchedSettled, HoldsLast, Holds, PipelineTypeOK
      <3> QED
        BY <3>1, <3>2
    <2> QED
      BY <1>1, <2>1, <2>2 DEF Assign, OrderInv, InOrder, CommittedSettled, CommitsSettled, Holds
  <1> QED
    BY <1>2, <1>3, <1>4 DEF GroupStep

LEMMA OrderStep == TypeInv /\ OrderInv /\ [PipelineNext]_pipelineVars => OrderInv'
  <1> SUFFICES ASSUME TypeInv, OrderInv, [PipelineNext]_pipelineVars PROVE OrderInv'
    OBVIOUS
  <1>1. CASE UNCHANGED consumerVars
    BY <1>1 DEF consumerVars, groupVars, OrderInv, InOrder, CommittedSettled, CommitsSettled,
                FetchedSettled, HoldsLast, Holds
  <1>2. ASSUME NEW u \in User, NEW f \in File, NEW v \in Visibility, Submit(u, f, v)
        PROVE  OrderInv'
    BY <1>1, <1>2 DEF Submit
  <1>3. ASSUME NEW c \in Consumer, ProcessStep(c) PROVE OrderInv'
    BY <1>3, ProcessStepTyped, GoesOnOrder, FinishesOrder
  <1> QED
    BY <1>1, <1>2, <1>3, FetchOrder, CommitOrder, GroupStepOrder
       DEF PipelineNext, ConsumerNext, ConsumerStep, pipelineVars

LEMMA OrderInvariant == PipelineSpec => []OrderInv
  BY TypeInvInit, TypeInvStep, OrderInit, OrderStep, PTL DEF PipelineSpec

(* A consumer works on a message only when every earlier message of its    *)
(* partition is settled: neither a crash, nor a commit that fails or comes *)
(* late, nor a rebalance makes the group skip a message.                   *)
THEOREM MessagesInOrder == PipelineSpec => []InOrder
  <1>1. OrderInv => InOrder
    BY DEF OrderInv
  <1> QED
    BY <1>1, OrderInvariant, PTL

-----------------------------------------------------------------------------
(* The refinement: each step settles one message, commits an offset or     *)
(* publishes a task, or changes nothing that TaskQueue knows of.           *)
LEMMA SubmitPublishes ==
    ASSUME TypeInv, NEW u \in User, NEW f \in File, NEW v \in Visibility, Submit(u, f, v)
    PROVE  Queue!QueueNext
  <1>1. PICK p \in Partition :
            topic' = [topic EXCEPT ![p] = Append(@, [user |-> u, file |-> f, vis |-> v])]
    BY SubmitGrows
  <1>2. [user |-> u, file |-> f, vis |-> v] \in Task
    BY DEF Task
  <1>3. Queue!Publish(p, [user |-> u, file |-> f, vis |-> v])
    BY <1>1 DEF Queue!Publish, Submit, consumerVars, groupVars
  <1> QED
    BY <1>2, <1>3 DEF Queue!QueueNext

LEMMA FinishesSettles ==
    ASSUME TypeInv, OrderInv, NEW c \in Consumer, Finishes(c)
    PROVE  Queue!QueueNext
  <1>1. Holds(c)
    BY DEF Finishes, Holds
  <1>2. cons[c].part \in Partition /\ cons[c].off \in 1 .. Len(topic[cons[c].part])
    BY <1>1, TaskTyped
  <1>3. cons[c].off \in DOMAIN topic[cons[c].part]
    BY <1>2 DEF TypeInv, PipelineTypeOK, StoresTypeOK
  <1>4. Queue!Settle(cons[c].part, cons[c].off)
    BY <1>1, <1>3 DEF Queue!Settle, Finishes, Settles, groupVars, OrderInv, InOrder
  <1> QED
    BY <1>2, <1>4 DEF Queue!QueueNext

LEMMA CommitCommits ==
    ASSUME TypeInv, OrderInv, NEW c \in Consumer, Commit(c)
    PROVE  [Queue!QueueNext]_Queue!queueVars
  <1>1. cons[c].pc = "commit" /\ Holds(c) /\ UNCHANGED <<topic, settled>>
    BY DEF Commit, InProcess, Holds, storeVars
  <1>2. cons[c].part \in Partition /\ cons[c].off \in 1 .. Len(topic[cons[c].part])
    BY <1>1, TaskTyped
  <1>3. 1 .. cons[c].off \subseteq settled[cons[c].part]
    BY <1>1, <1>2, UpTo DEF OrderInv, InOrder, CommitsSettled
  <1>4. CASE UNCHANGED committed
    BY <1>1, <1>4 DEF Queue!queueVars
  <1>5. CASE committed' = [committed EXCEPT ![cons[c].part] = cons[c].off]
    <2>1. Queue!CommitTo(cons[c].part, cons[c].off)
      BY <1>1, <1>3, <1>5 DEF Queue!CommitTo
    <2> QED
      BY <1>2, <2>1 DEF Queue!QueueNext
  <1> QED
    BY <1>4, <1>5 DEF Commit

LEMMA QueueStep ==
    TypeInv /\ OrderInv /\ [PipelineNext]_pipelineVars => [Queue!QueueNext]_Queue!queueVars
  <1> SUFFICES ASSUME TypeInv, OrderInv, [PipelineNext]_pipelineVars
               PROVE  [Queue!QueueNext]_Queue!queueVars
    OBVIOUS
  <1>1. CASE UNCHANGED <<topic, settled, committed>>
    BY <1>1 DEF Queue!queueVars
  <1>2. ASSUME UNCHANGED pipelineVars \/ GroupStep \/ (\E c \in Consumer : Fetch(c) \/ GoesOn(c))
        PROVE  UNCHANGED <<topic, settled, committed>>
    BY <1>2 DEF pipelineVars, consumerVars, groupVars, storeVars, GroupStep, FetchError,
                ConsumerCrash, Reassign, Rebalance, Assign, Fetch, GoesOn
  <1>3. ASSUME NEW c \in Consumer, ProcessStep(c) PROVE GoesOn(c) \/ Finishes(c)
    BY <1>3, ProcessStepTyped
  <1> QED
    BY <1>1, <1>2, <1>3, SubmitPublishes, FinishesSettles, CommitCommits
       DEF PipelineNext, ConsumerNext, ConsumerStep

(* The consumer group implements the task queue: whatever crashes, fails   *)
(* or is rebalanced, tasks are settled in order and an offset is committed *)
(* only when all tasks up to it are settled.                               *)
THEOREM PipelineImplementsQueue == PipelineSpec => ImplementsQueue
  <1>1. PipelineAloneInit => Queue!QueueInit
    BY DEF PipelineAloneInit, StoresInit, PipelineInit, Queue!QueueInit
  <1> QED
    BY <1>1, TypeInvariant, OrderInvariant, QueueStep, PTL
       DEF PipelineSpec, ImplementsQueue, Queue!QueueSpec

-----------------------------------------------------------------------------
(* What the pipeline leaves.  It depends on the faults and on the number   *)
(* of partitions: these conditions are assumptions of each theorem, and    *)
(* the violation runs and the README show that each is needed.             *)
NoRebalance == "Group" \notin Faulty
StatusesWritten == "StatusWrite" \notin Faulty
RowsCleaned == "CleanVectors" \notin Faulty
OnePartition == \A p, q \in Partition : p = q

-----------------------------------------------------------------------------
(* Without rebalances a message is with the owner of its partition, who    *)
(* fetched it last; what is worked on is not yet committed.                *)
OwnersHold ==
    /\ \A c \in exited : ~Holds(c)
    /\ NoRebalance =>
          /\ \A p \in Partition : committed[p] <= position[p]
          /\ \A c \in Consumer : Holds(c) =>
                /\ owner[cons[c].part] = c
                /\ cons[c].off = position[cons[c].part]
                /\ cons[c].pc \in ProcessPc => committed[cons[c].part] < cons[c].off

LogsBounded ==
    \A p \in Partition : Len(topic[p]) <= MaxTasks /\ settled[p] \subseteq 1 .. Len(topic[p])

(* The offset o of p holds a task for file f of user u.                    *)
TaskAt(p, o, u, f) ==
    o \in 1 .. Len(topic[p]) /\ topic[p][o].user = u /\ topic[p][o].file = f

Processes(c, p, o) == cons[c].pc \in ProcessPc /\ cons[c].part = p /\ cons[c].off = o

(* A task that will still be processed: a consumer is at it, or it will be *)
(* fetched.  A consumer that holds a message may lose it by a crash, so    *)
(* "will be fetched" is about committed offsets too; without crashes it    *)
(* is never a message that was settled before.                             *)
Outstanding(p, o) ==
    \/ \E c \in Consumer : Processes(c, p, o)
    \/ /\ o > position[p] /\ o > committed[p]
       /\ "Process" \notin Faulty => o \notin settled[p]

(* A document for which a task was sent and whose status is not final has  *)
(* a task behind it that will make it so.                                  *)
Tasked(u, f) == \E p \in Partition : \E o \in 1 .. Len(topic[p]) : TaskAt(p, o, u, f)

NotFinal(u, f) ==
    /\ Tasked(u, f)
    /\ Present(fileUpload[<<u, f>>])
    /\ fileUpload[<<u, f>>].vstatus \notin {"success", "failed"}

Behind(u, f, p, o) == o \in 1 .. Len(topic[p]) /\ TaskAt(p, o, u, f) /\ Outstanding(p, o)

StatusPending ==
    \A u \in User, f \in File : NotFinal(u, f) =>
        \E p \in Partition : \E o \in 1 .. Len(topic[p]) : Behind(u, f, p, o)

StatusInv == OwnersHold /\ LogsBounded /\ StatusPending

RecordOf(c) == <<TaskOf(c).user, TaskOf(c).file>>

(* A step of Process writes to no record but its task's, and the last one  *)
(* writes a final status.                                                  *)
LEMMA WritesItsRecord ==
    ASSUME TypeInv, NEW c \in Consumer, ProcessStep(c)
    PROVE  /\ \A k \in Key : /\ fileUpload'[k].id = fileUpload[k].id
                             /\ fileUpload'[k].vis = fileUpload[k].vis
                             /\ fileUpload'[k].status = fileUpload[k].status
           /\ \A k \in Key \ {RecordOf(c)} : fileUpload'[k] = fileUpload[k]
           /\ StatusesWritten /\ cons'[c].pc = "commit" /\ Present(fileUpload[RecordOf(c)])
                 => fileUpload'[RecordOf(c)].vstatus \in {"success", "failed"}
  <1> DEFINE Same(fu) == \A k \in Key : /\ fu[k].id = fileUpload[k].id
                                        /\ fu[k].vis = fileUpload[k].vis
                                        /\ fu[k].status = fileUpload[k].status
             Others(fu) == \A k \in Key \ {RecordOf(c)} : fu[k] = fileUpload[k]
             Final(fu) == fu[RecordOf(c)].vstatus \in {"success", "failed"}
  <1>1. fileUpload \in [Key -> Row] /\ cons \in [Consumer -> Activity]
    BY DEF TypeInv, PipelineTypeOK, StoresTypeOK
  <1>2. Holds(c)
    BY ProcessStepTyped DEF GoesOn, Finishes, Holds, ProcessPc
  <1>3. TaskOf(c).user \in User /\ TaskOf(c).file \in File
    BY <1>2, TaskTyped
  <1>4. ASSUME NEW vst \in VStatus, NEW n \in Nat,
               UpdateVectorized(TaskOf(c).user, TaskOf(c).file, vst, n)
        PROVE  /\ Same(fileUpload') /\ Others(fileUpload')
               /\ Present(fileUpload[RecordOf(c)]) => fileUpload'[RecordOf(c)].vstatus = vst
    BY <1>1, <1>3, <1>4, VectorizedUpdate DEF RecordOf
  <1>5. CASE Start(c)
    <2>1. StatusUpdate(UpdateVectorizedStatus(TaskOf(c).user, TaskOf(c).file, "processing"))
      BY <1>5 DEF Start
    <2>2. Same(fileUpload') /\ Others(fileUpload')
      BY <1>1, <1>3, <2>1, VectorizedStatusUpdate DEF RecordOf, StatusUpdate, VStatus
    <2>3. cons'[c].pc # "commit"
      BY <1>5, StartTyped DEF GoesOn, ProcessPc
    <2> QED
      BY <2>2, <2>3
  <1>6. CASE Parse(c) \/ Chunk(c)
    <2>1. \/ StatusUpdate(UpdateVectorized(TaskOf(c).user, TaskOf(c).file, "processing", 0))
          \/ UNCHANGED fileUpload
      BY <1>6 DEF Parse, Chunk
    <2>2. Same(fileUpload') /\ Others(fileUpload')
      BY <1>4, <2>1 DEF StatusUpdate, VStatus
    <2>3. cons'[c].pc # "commit"
      BY <1>6, ParseTyped, ChunkTyped DEF GoesOn, ProcessPc
    <2> QED
      BY <2>2, <2>3
  <1>7. CASE Succeed(c) \/ Fail(c)
    <2>1. PICK vst \in {"success", "failed"}, n \in Nat :
              StatusUpdate(UpdateVectorized(TaskOf(c).user, TaskOf(c).file, vst, n))
      <3>1. cons[c].saved \in Nat
        BY <1>1 DEF Activity
      <3> QED
        BY <1>7, <3>1 DEF Succeed, Fail
    <2>2. Same(fileUpload') /\ Others(fileUpload')
      BY <1>4, <2>1 DEF StatusUpdate, VStatus
    <2>3. StatusesWritten /\ Present(fileUpload[RecordOf(c)]) => Final(fileUpload')
      BY <1>4, <2>1 DEF StatusUpdate, VStatus, StatusesWritten, MayFail
    <2> QED
      BY <2>2, <2>3
  <1>8. CASE UNCHANGED fileUpload /\ cons'[c].pc # "commit"
    BY <1>8
  <1>9. ASSUME Download(c) \/ Clean(c) \/ Save(c) \/ Read(c) \/ Wait(c)
               \/ (\E g \in cons[c].todo : Spawn(c, g))
               \/ (\E g \in cons[c].inflight : EmbedAndIndex(c, g))
        PROVE  UNCHANGED fileUpload /\ cons'[c].pc # "commit"
    <2>1. UNCHANGED fileUpload
      BY <1>9 DEF Download, Clean, Save, Read, Wait, Spawn, EmbedAndIndex, storeVars, uploadStores
    <2>2. GoesOn(c)
      BY <1>9, DownloadTyped, CleanTyped, SaveTyped, ReadTyped, WaitTyped, SpawnTyped,
         EmbedAndIndexTyped
    <2> QED
      BY <2>1, <2>2 DEF GoesOn, ProcessPc
  <1> QED
    BY <1>5, <1>6, <1>7, <1>8, <1>9 DEF ProcessStep

(* What the steps of Process have in common.                               *)
LEMMA ProcessFrame ==
    ASSUME TypeInv, NEW c \in Consumer, ProcessStep(c)
    PROVE  /\ cons[c].pc \in ProcessPc /\ cons'[c].pc \in {"commit"} \cup ProcessPc
           /\ Holds(c) /\ Holds(c)'
           /\ SameMessage(c)
           /\ UNCHANGED <<topic, owner, position, committed, exited>>
           /\ \/ cons'[c].pc \in ProcessPc /\ UNCHANGED settled
              \/ cons'[c].pc = "commit" /\ Settles(c)
  BY ProcessStepTyped DEF GoesOn, Finishes, Holds, ProcessPc, groupVars

-----------------------------------------------------------------------------
LEMMA ProcessOwners ==
    ASSUME TypeInv, OwnersHold, NEW c \in Consumer, ProcessStep(c)
    PROVE  OwnersHold'
  <1>1. \A d \in Consumer : /\ Holds(d)' <=> Holds(d)
                            /\ cons'[d].part = cons[d].part /\ cons'[d].off = cons[d].off
                            /\ cons'[d].pc \in ProcessPc => cons[d].pc \in ProcessPc
    BY ProcessFrame DEF SameMessage, Holds
  <1>2. exited \subseteq Consumer
    BY DEF TypeInv, PipelineTypeOK
  <1> QED
    BY <1>1, <1>2, ProcessFrame DEF OwnersHold

LEMMA FetchOwners ==
    ASSUME TypeInv, OwnersHold, NEW c \in Consumer, Fetch(c)
    PROVE  OwnersHold'
  <1>1. PICK p \in Partition :
            /\ owner[p] = c /\ position' = [position EXCEPT ![p] = @ + 1]
            /\ cons' = [cons EXCEPT ![c] = Attempt(p, position[p] + 1, 1)]
    BY DEF Fetch, Attempt
  <1>2. PipelineTypeOK /\ position[p] \in Nat /\ committed[p] \in Nat
    BY DEF TypeInv, PipelineTypeOK
  <1>3. ~Holds(c) /\ c \notin exited /\ UNCHANGED <<owner, committed, exited>>
    BY DEF Fetch, InProcess, Holds
  <1>4. /\ cons'[c].pc = "start" /\ cons'[c].part = p /\ cons'[c].off = position[p] + 1
        /\ \A d \in Consumer \ {c} : cons'[d] = cons[d]
    BY <1>1, <1>2, AttemptTyped DEF PipelineTypeOK
  <1>5. position'[p] = position[p] + 1 /\ \A q \in Partition \ {p} : position'[q] = position[q]
    BY <1>1, <1>2 DEF PipelineTypeOK
  <1>6. \A d \in exited : ~Holds(d)'
    BY <1>2, <1>3, <1>4 DEF OwnersHold, PipelineTypeOK, Holds
  <1>7. ASSUME NoRebalance
        PROVE  \A d \in Consumer : Holds(d)' =>
                  /\ owner[cons'[d].part] = d
                  /\ cons'[d].off = position'[cons'[d].part]
                  /\ cons'[d].pc \in ProcessPc => committed[cons'[d].part] < cons'[d].off
    <2> TAKE d \in Consumer
    <2>1. CASE d = c
      BY <1>1, <1>2, <1>4, <1>5, <1>7, <2>1 DEF OwnersHold
    <2>2. CASE d # c
      <3>1. cons[d].part \in Partition
        BY <1>2 DEF PipelineTypeOK, Activity
      <3>2. Holds(d) => cons[d].part # p
        BY <1>1, <1>7, <2>2 DEF OwnersHold
      <3> QED
        BY <1>4, <1>5, <1>7, <2>2, <3>1, <3>2 DEF OwnersHold, Holds
    <2> QED
      BY <2>1, <2>2
  <1>8. NoRebalance => \A q \in Partition : committed[q] <= position'[q]
    BY <1>2, <1>5 DEF OwnersHold, PipelineTypeOK
  <1> QED
    BY <1>3, <1>6, <1>7, <1>8 DEF OwnersHold

LEMMA CommitOwners ==
    ASSUME TypeInv, OwnersHold, NEW c \in Consumer, Commit(c)
    PROVE  OwnersHold'
  <1>1. PipelineTypeOK /\ Holds(c)
    BY DEF TypeInv, Commit, InProcess, Holds
  <1>2. /\ cons'[c].pc = "fetch" /\ \A d \in Consumer \ {c} : cons'[d] = cons[d]
        /\ UNCHANGED <<owner, position, exited>>
    BY <1>1, FetchingTyped DEF Commit, PipelineTypeOK
  <1>3. cons[c].part \in Partition
    BY <1>1 DEF PipelineTypeOK, Activity
  <1>4. /\ committed' \in [Partition -> Nat]
        /\ committed'[cons[c].part] \in {committed[cons[c].part], cons[c].off}
        /\ \A q \in Partition \ {cons[c].part} : committed'[q] = committed[q]
    <2>1. committed \in [Partition -> Nat] /\ cons[c].off \in Nat
      BY <1>1 DEF PipelineTypeOK, Activity
    <2> QED
      BY <1>3, <2>1 DEF Commit
  <1>5. exited \subseteq Consumer /\ \A d \in exited : ~Holds(d)'
    BY <1>1, <1>2 DEF OwnersHold, PipelineTypeOK, Holds
  <1>6. ASSUME NoRebalance PROVE \A q \in Partition : committed'[q] <= position[q]
    <2>1. cons[c].off = position[cons[c].part] /\ position \in [Partition -> Nat]
      BY <1>1, <1>6 DEF OwnersHold, PipelineTypeOK
    <2> QED
      BY <1>3, <1>4, <1>6, <2>1 DEF OwnersHold
  <1>7. ASSUME NoRebalance, NEW d \in Consumer, Holds(d)'
        PROVE  /\ owner[cons'[d].part] = d /\ cons'[d].off = position[cons'[d].part]
               /\ cons'[d].pc \in ProcessPc => committed'[cons'[d].part] < cons'[d].off
    <2>1. d # c /\ cons'[d] = cons[d] /\ Holds(d)
      BY <1>2, <1>7 DEF Holds
    <2>2. cons[d].part \in Partition /\ cons[d].part # cons[c].part
      BY <1>1, <1>7, <2>1 DEF OwnersHold, PipelineTypeOK, Activity
    <2> QED
      BY <1>4, <1>7, <2>1, <2>2 DEF OwnersHold
  <1> QED
    BY <1>2, <1>5, <1>6, <1>7 DEF OwnersHold

LEMMA GroupOwners ==
    ASSUME TypeInv, OwnersHold, GroupStep
    PROVE  OwnersHold'
  <1>1. PipelineTypeOK /\ UNCHANGED committed
    BY DEF TypeInv, GroupStep, FetchError, ConsumerCrash, Reassign, Rebalance, Assign
  <1>2. \A d \in Consumer : cons[d].part \in Partition
    BY <1>1 DEF PipelineTypeOK, Activity
  <1>3. ASSUME NEW c \in Consumer, FetchError(c) PROVE OwnersHold'
    BY <1>1, <1>3 DEF FetchError, InProcess, OwnersHold, Holds
  <1>4. ASSUME NEW c \in Consumer, ConsumerCrash(c) PROVE OwnersHold'
    <2>1. /\ cons'[c].pc = "fetch" /\ \A d \in Consumer \ {c} : cons'[d] = cons[d]
          /\ exited' = exited \ {c} /\ UNCHANGED owner
      BY <1>1, <1>4, FetchingTyped DEF ConsumerCrash, PipelineTypeOK
    <2>2. \A q \in Partition : position'[q] = IF owner[q] = c THEN committed[q] ELSE position[q]
      BY <1>4 DEF ConsumerCrash
    <2>3. exited \subseteq Consumer /\ \A q \in Partition : committed[q] \in Nat
      BY <1>1 DEF PipelineTypeOK
    <2>4. \A d \in exited' : ~Holds(d)'
      BY <2>1, <2>3 DEF OwnersHold, Holds
    <2>5. NoRebalance => \A q \in Partition : committed[q] <= position'[q]
      BY <2>2, <2>3 DEF OwnersHold
    <2>6. ASSUME NoRebalance, NEW d \in Consumer, Holds(d)'
          PROVE  /\ owner[cons'[d].part] = d /\ cons'[d].off = position'[cons'[d].part]
                 /\ cons'[d].pc \in ProcessPc => committed[cons'[d].part] < cons'[d].off
      <3>1. d # c /\ cons'[d] = cons[d] /\ Holds(d)
        BY <2>1, <2>6 DEF Holds
      <3> QED
        BY <1>2, <2>2, <2>6, <3>1 DEF OwnersHold
    <2> QED
      BY <1>1, <2>1, <2>4, <2>5, <2>6 DEF OwnersHold
  <1>5. ASSUME NEW p \in Partition, NEW c \in Consumer, Reassign(p, c) PROVE OwnersHold'
    <2>1. /\ owner[p] \in exited /\ UNCHANGED <<exited, cons>>
          /\ owner' = [owner EXCEPT ![p] = c] /\ position' = [position EXCEPT ![p] = committed[p]]
      BY <1>5 DEF Reassign, Assign
    <2>2. \A q \in Partition : committed[q] \in Nat
      BY <1>1 DEF PipelineTypeOK
    <2>3. NoRebalance => \A d \in Consumer : Holds(d) => cons[d].part # p
      BY <2>1 DEF OwnersHold
    <2>4. NoRebalance => \A q \in Partition : committed[q] <= position'[q]
      BY <1>1, <2>1, <2>2 DEF OwnersHold, PipelineTypeOK
    <2> QED
      BY <1>1, <1>2, <2>1, <2>3, <2>4 DEF OwnersHold, Holds, PipelineTypeOK
  <1>6. ASSUME NEW p \in Partition, NEW c \in Consumer, Rebalance(p, c) PROVE OwnersHold'
    BY <1>6 DEF Rebalance, Assign, MayFail, NoRebalance, OwnersHold, Holds
  <1> QED
    BY <1>3, <1>4, <1>5, <1>6 DEF GroupStep

LEMMA OwnersStep == TypeInv /\ OwnersHold /\ [PipelineNext]_pipelineVars => OwnersHold'
  <1> SUFFICES ASSUME TypeInv, OwnersHold, [PipelineNext]_pipelineVars PROVE OwnersHold'
    OBVIOUS
  <1>1. CASE UNCHANGED consumerVars
    BY <1>1 DEF consumerVars, groupVars, OwnersHold, Holds
  <1>2. ASSUME NEW u \in User, NEW f \in File, NEW v \in Visibility, Submit(u, f, v)
        PROVE  OwnersHold'
    BY <1>1, <1>2 DEF Submit
  <1> QED
    BY <1>1, <1>2, ProcessOwners, FetchOwners, CommitOwners, GroupOwners
       DEF PipelineNext, ConsumerNext, ConsumerStep, pipelineVars

LEMMA OwnersInit == PipelineAloneInit => OwnersHold
  BY FetchingTyped DEF PipelineAloneInit, PipelineInit, OwnersHold, Holds

-----------------------------------------------------------------------------
LEMMA LogsStep == TypeInv /\ LogsBounded /\ [PipelineNext]_pipelineVars => LogsBounded'
  <1> SUFFICES ASSUME TypeInv, LogsBounded, [PipelineNext]_pipelineVars PROVE LogsBounded'
    OBVIOUS
  <1>1. CASE UNCHANGED <<topic, settled>>
    BY <1>1 DEF LogsBounded
  <1>2. ASSUME NEW u \in User, NEW f \in File, NEW v \in Visibility, Submit(u, f, v)
        PROVE  LogsBounded'
    <2> DEFINE task == [user |-> u, file |-> f, vis |-> v]
    <2>1. PICK p \in Partition :
              Len(topic[p]) < MaxTasks /\ topic' = [topic EXCEPT ![p] = Append(@, task)]
      BY <1>2 DEF Submit, ProduceFileTask
    <2>2. topic \in [Partition -> Seq(Task)] /\ task \in Task /\ MaxTasks \in Nat
      BY BoundAssumption DEF TypeInv, PipelineTypeOK, StoresTypeOK, Task
    <2> HIDE DEF task
    <2>3. \A q \in Partition : Len(topic[q]) \in Nat
      BY <2>2
    <2>4. /\ Len(topic'[p]) = Len(topic[p]) + 1
          /\ \A q \in Partition \ {p} : topic'[q] = topic[q]
      BY <2>1, <2>2
    <2>5. UNCHANGED settled
      BY <1>2 DEF Submit, consumerVars
    <2> QED
      BY <2>1, <2>2, <2>3, <2>4, <2>5 DEF LogsBounded
  <1>3. ASSUME NEW c \in Consumer, ProcessStep(c) PROVE LogsBounded'
    <2>1. cons[c].part \in Partition /\ cons[c].off \in 1 .. Len(topic[cons[c].part])
      BY <1>3, ProcessFrame, TaskTyped
    <2>2. settled \in [Partition -> SUBSET Nat]
      BY DEF TypeInv, PipelineTypeOK
    <2> QED
      BY <1>1, <1>3, <2>1, <2>2, ProcessFrame DEF Settles, LogsBounded
  <1>4. ASSUME UNCHANGED pipelineVars \/ GroupStep \/ (\E c \in Consumer : Fetch(c) \/ Commit(c))
        PROVE  UNCHANGED <<topic, settled>>
    BY <1>4 DEF pipelineVars, consumerVars, groupVars, storeVars, GroupStep, FetchError,
                ConsumerCrash, Reassign, Rebalance, Assign, Fetch, Commit
  <1> QED
    BY <1>1, <1>2, <1>3, <1>4 DEF PipelineNext, ConsumerNext, ConsumerStep

LEMMA LogsInit == PipelineAloneInit => LogsBounded
  BY BoundAssumption DEF PipelineAloneInit, StoresInit, PipelineInit, LogsBounded

-----------------------------------------------------------------------------
(* StatusPending, action by action.  A status that a step makes or leaves  *)
(* not final keeps the task behind it.  A new task is behind the status of *)
(* its own record, and of no other.                                        *)
LEMMA PublishPending ==
    ASSUME TypeInv, LogsBounded, StatusPending, UNCHANGED consumerVars,
           NEW u \in User, NEW f \in File, NEW v, NEW p \in Partition,
           Len(topic'[p]) = Len(topic[p]) + 1,
           topic'[p][Len(topic[p]) + 1] = [user |-> u, file |-> f, vis |-> v],
           \A o \in 1 .. Len(topic[p]) : topic'[p][o] = topic[p][o],
           \A q \in Partition \ {p} : topic'[q] = topic[q],
           \A k \in Key \ {<<u, f>>} : fileUpload'[k] = fileUpload[k]
    PROVE  StatusPending'
  <1>1. \A q \in Partition :
            /\ topic[q] \in Seq(Task) /\ Len(topic[q]) \in Nat
            /\ position[q] \in Nat /\ committed[q] \in Nat
            /\ position[q] <= Len(topic[q]) /\ committed[q] <= Len(topic[q])
            /\ settled[q] \subseteq 1 .. Len(topic[q])
    BY DEF TypeInv, OffsetsInLog, PipelineTypeOK, StoresTypeOK, LogsBounded
  <1>2. \A q \in Partition, o \in Nat : Outstanding(q, o) => Outstanding(q, o)'
    BY DEF Outstanding, Processes, consumerVars, groupVars
  <1>3. \A q \in Partition, o \in Nat, x \in User, y \in File :
            Behind(x, y, q, o) => Behind(x, y, q, o)'
    BY <1>1, <1>2 DEF Behind, TaskAt
  <1>4. PICK last \in Nat : last = Len(topic[p]) + 1
    BY <1>1
  <1>5. Behind(u, f, p, last)'
    <2>1. Outstanding(p, last)'
      BY <1>1, <1>4 DEF Outstanding, consumerVars, groupVars
    <2> QED
      BY <1>1, <1>4, <2>1 DEF Behind, TaskAt
  <1> SUFFICES ASSUME NEW x \in User, NEW y \in File, NotFinal(x, y)'
               PROVE  \E q \in Partition : \E o \in 1 .. Len(topic'[q]) : Behind(x, y, q, o)'
    BY DEF StatusPending
  <1>6. CASE x = u /\ y = f
    BY <1>1, <1>5, <1>6 DEF Behind
  <1>7. CASE ~(x = u /\ y = f)
    <2>1. Tasked(x, y)
      <3>1. PICK q \in Partition, o \in Nat : TaskAt(q, o, x, y)'
        BY DEF NotFinal, Tasked
      <3>2. ~(q = p /\ o = last)
        BY <1>4, <1>7, <3>1 DEF TaskAt
      <3>3. o \in 1 .. Len(topic[q]) /\ topic'[q][o] = topic[q][o]
        BY <1>1, <1>4, <3>1, <3>2 DEF TaskAt
      <3> QED
        BY <3>1, <3>3 DEF Tasked, TaskAt
    <2>2. NotFinal(x, y)
      BY <1>7, <2>1 DEF NotFinal, Key
    <2>3. PICK q \in Partition, o \in Nat : Behind(x, y, q, o)
      BY <2>2 DEF StatusPending, Behind
    <2> QED
      BY <1>3, <2>3 DEF Behind
  <1> QED
    BY <1>6, <1>7

LEMMA SubmitPending ==
    ASSUME TypeInv, LogsBounded, StatusPending,
           NEW u \in User, NEW f \in File, NEW v \in Visibility, Submit(u, f, v)
    PROVE  StatusPending'
  <1>1. PICK p \in Partition :
            /\ Len(topic'[p]) = Len(topic[p]) + 1
            /\ topic'[p][Len(topic[p]) + 1] = [user |-> u, file |-> f, vis |-> v]
            /\ \A o \in 1 .. Len(topic[p]) : topic'[p][o] = topic[p][o]
            /\ \A q \in Partition \ {p} : topic'[q] = topic[q]
    BY SubmitGrows
  <1>2. UNCHANGED consumerVars /\ \A k \in Key \ {<<u, f>>} : fileUpload'[k] = fileUpload[k]
    BY DEF Submit, TypeInv, PipelineTypeOK, StoresTypeOK
  <1> QED
    BY <1>1, <1>2, PublishPending

LEMMA ProcessPending ==
    ASSUME TypeInv, StatusPending, StatusesWritten, NEW c \in Consumer, ProcessStep(c)
    PROVE  StatusPending'
  <1>0. PICK p0 \in Partition, o0 \in Nat : p0 = cons[c].part /\ o0 = cons[c].off
    BY ProcessFrame, TaskTyped DEF Activity
  <1>1. /\ o0 \in 1 .. Len(topic[p0])
        /\ TaskOf(c).user \in User /\ TaskOf(c).file \in File
    BY <1>0, ProcessFrame, TaskTyped
  <1>2. TaskAt(p0, o0, TaskOf(c).user, TaskOf(c).file) /\ UNCHANGED topic
    BY <1>0, <1>1, ProcessFrame DEF TaskAt, TaskOf
  <1>3. settled \in [Partition -> SUBSET Nat]
    BY DEF TypeInv, PipelineTypeOK
  <1>4. \A p \in Partition, o \in Nat :
            Outstanding(p, o) /\ ~(p = p0 /\ o = o0) => Outstanding(p, o)'
    <2> SUFFICES ASSUME NEW p \in Partition, NEW o \in Nat, Outstanding(p, o), ~(p = p0 /\ o = o0)
                 PROVE  Outstanding(p, o)'
      OBVIOUS
    <2>1. CASE \E d \in Consumer : Processes(d, p, o)
      <3>1. PICK d \in Consumer : Processes(d, p, o)
        BY <2>1
      <3>2. d # c
        BY <1>0, <3>1 DEF Processes
      <3> QED
        BY <3>1, <3>2, ProcessFrame DEF SameMessage, Processes, Outstanding
    <2>2. CASE o > position[p] /\ o > committed[p] /\ ("Process" \notin Faulty => o \notin settled[p])
      BY <1>0, <1>1, <1>3, <2>2, ProcessFrame DEF Outstanding, Settles
    <2> QED
      BY <2>1, <2>2 DEF Outstanding
  <1> SUFFICES ASSUME NEW x \in User, NEW y \in File, NotFinal(x, y)'
               PROVE  \E q \in Partition : \E o \in 1 .. Len(topic'[q]) : Behind(x, y, q, o)'
    BY DEF StatusPending, Behind
  <1>5. <<x, y>> \in Key
    BY DEF Key
  <1>6. CASE <<x, y>> = RecordOf(c)
    <2>1. x = TaskOf(c).user /\ y = TaskOf(c).file
      BY <1>6 DEF RecordOf
    <2>2. cons'[c].pc \in ProcessPc
      BY <1>5, <1>6, WritesItsRecord, ProcessFrame DEF NotFinal, Present
    <2>3. Outstanding(p0, o0)'
      BY <1>0, <2>2, ProcessFrame DEF SameMessage, Outstanding, Processes
    <2> QED
      BY <1>1, <1>2, <2>1, <2>3 DEF Behind, TaskAt
  <1>7. CASE <<x, y>> # RecordOf(c)
    <2>1. NotFinal(x, y)
      BY <1>2, <1>5, <1>7, WritesItsRecord DEF NotFinal, Tasked, TaskAt
    <2>2. PICK q \in Partition, o \in Nat : Behind(x, y, q, o)
      BY <2>1 DEF StatusPending, Behind
    <2>3. ~(q = p0 /\ o = o0)
      BY <1>2, <1>7, <2>2 DEF Behind, TaskAt, RecordOf
    <2>4. o \in Nat
      BY <2>2
    <2>5. Outstanding(q, o)'
      BY <1>4, <2>2, <2>3, <2>4 DEF Behind
    <2> QED
      BY <1>2, <2>2, <2>5 DEF Behind, TaskAt
  <1> QED
    BY <1>6, <1>7

(* The other steps change no log, and make no status one that is not       *)
(* final.                                                                  *)
LEMMA QuietPending ==
    ASSUME StatusPending, UNCHANGED topic,
           \A u \in User, f \in File : NotFinal(u, f)' => NotFinal(u, f),
           \A p \in Partition : \A o \in 1 .. Len(topic[p]) : Outstanding(p, o) => Outstanding(p, o)'
    PROVE  StatusPending'
  <1> SUFFICES ASSUME NEW x \in User, NEW y \in File, NotFinal(x, y)'
               PROVE  \E q \in Partition : \E o \in 1 .. Len(topic'[q]) : Behind(x, y, q, o)'
    BY DEF StatusPending
  <1>1. PICK q \in Partition, o \in Nat : Behind(x, y, q, o)
    BY DEF StatusPending, Behind
  <1> QED
    BY <1>1 DEF Behind, TaskAt

LEMMA KeepsPending ==
    ASSUME StatusPending, UNCHANGED <<fileUpload, topic>>,
           \A p \in Partition : \A o \in 1 .. Len(topic[p]) : Outstanding(p, o) => Outstanding(p, o)'
    PROVE  StatusPending'
  <1>1. \A u \in User, f \in File : NotFinal(u, f)' => NotFinal(u, f)
    BY DEF NotFinal, Tasked, TaskAt
  <1> QED
    BY <1>1, QuietPending

LEMMA FetchPending ==
    ASSUME TypeInv, StatusPending, NEW c \in Consumer, Fetch(c)
    PROVE  StatusPending'
  <1>1. PICK p \in Partition :
            /\ position' = [position EXCEPT ![p] = @ + 1]
            /\ cons' = [cons EXCEPT ![c] = Attempt(p, position[p] + 1, 1)]
    BY DEF Fetch, Attempt
  <1>2. PipelineTypeOK /\ \A q \in Partition : position[q] \in Nat
    BY DEF TypeInv, PipelineTypeOK
  <1>3. /\ cons'[c].pc = "start" /\ cons'[c].part = p /\ cons'[c].off = position[p] + 1
        /\ \A d \in Consumer \ {c} : cons'[d] = cons[d]
    BY <1>1, <1>2, AttemptTyped DEF PipelineTypeOK
  <1>4. cons[c].pc = "fetch" /\ UNCHANGED <<committed, settled, fileUpload, topic>>
    BY DEF Fetch, InProcess, storeVars, uploadStores
  <1>5. position'[p] = position[p] + 1 /\ \A q \in Partition \ {p} : position'[q] = position[q]
    BY <1>1, <1>2 DEF PipelineTypeOK
  <1>6. ASSUME NEW q \in Partition, NEW o \in 1 .. Len(topic[q]), Outstanding(q, o)
        PROVE  Outstanding(q, o)'
    <2>0. o \in Int
      BY <1>2
    <2>1. CASE \E d \in Consumer : Processes(d, q, o)
      <3>1. PICK d \in Consumer : Processes(d, q, o)
        BY <2>1
      <3>2. d # c
        BY <1>4, <3>1 DEF Processes, ProcessPc
      <3> QED
        BY <1>3, <3>1, <3>2 DEF Processes, Outstanding
    <2>2. CASE q = p /\ o = position[p] + 1
      BY <1>3, <2>2 DEF Outstanding, Processes, ProcessPc
    <2>3. CASE /\ ~(q = p /\ o = position[p] + 1)
               /\ o > position[q] /\ o > committed[q] /\ ("Process" \notin Faulty => o \notin settled[q])
      BY <1>2, <1>4, <1>5, <2>0, <2>3 DEF Outstanding
    <2> QED
      BY <1>6, <2>1, <2>2, <2>3 DEF Outstanding
  <1> QED
    BY <1>4, <1>6, KeepsPending

LEMMA CommitPending ==
    ASSUME TypeInv, OrderInv, OwnersHold, StatusPending, NoRebalance \/ "Process" \notin Faulty,
           NEW c \in Consumer, Commit(c)
    PROVE  StatusPending'
  <1>1. PipelineTypeOK /\ cons[c].pc = "commit" /\ Holds(c)
    BY DEF TypeInv, Commit, InProcess, Holds
  <1>2. /\ \A d \in Consumer \ {c} : cons'[d] = cons[d]
        /\ UNCHANGED <<position, settled, fileUpload, topic>>
    BY <1>1 DEF Commit, PipelineTypeOK, storeVars, uploadStores
  <1>3. cons[c].part \in Partition /\ cons[c].off \in Nat
    BY <1>1 DEF PipelineTypeOK, Activity
  <1>4. 1 .. cons[c].off \subseteq settled[cons[c].part]
    BY <1>1, <1>3, UpTo DEF OrderInv, InOrder, CommitsSettled
  <1>5. committed \in [Partition -> Nat] /\ position \in [Partition -> Nat]
    BY <1>1 DEF PipelineTypeOK
  <1>6. ASSUME NEW q \in Partition, NEW o \in 1 .. Len(topic[q]), Outstanding(q, o)
        PROVE  Outstanding(q, o)'
    <2>1. CASE \E d \in Consumer : Processes(d, q, o)
      <3>1. PICK d \in Consumer : Processes(d, q, o)
        BY <2>1
      <3>2. d # c
        BY <1>1, <3>1 DEF Processes, ProcessPc
      <3> QED
        BY <1>2, <3>1, <3>2 DEF Processes, Outstanding
    <2>2. CASE o > position[q] /\ o > committed[q] /\ ("Process" \notin Faulty => o \notin settled[q])
      <3>1. o \in Nat /\ o >= 1
        OBVIOUS
      <3>2. CASE q # cons[c].part \/ UNCHANGED committed
        BY <1>2, <1>3, <1>5, <2>2, <3>2 DEF Commit, Outstanding
      <3>3. CASE q = cons[c].part
        <4>1. o > cons[c].off
          <5>1. CASE NoRebalance
            BY <1>1, <1>3, <1>5, <2>2, <3>1, <3>3, <5>1 DEF OwnersHold
          <5>2. CASE "Process" \notin Faulty
            BY <1>3, <1>4, <2>2, <3>1, <3>3, <5>2
          <5> QED
            BY <5>1, <5>2
        <4> QED
          BY <1>2, <1>3, <1>5, <2>2, <3>3, <4>1 DEF Commit, Outstanding
      <3> QED
        BY <3>2, <3>3
    <2> QED
      BY <1>6, <2>1, <2>2 DEF Outstanding
  <1> QED
    BY <1>2, <1>6, KeepsPending

LEMMA GroupPending ==
    ASSUME TypeInv, OwnersHold, StatusPending, NoRebalance \/ "Process" \notin Faulty, GroupStep
    PROVE  StatusPending'
  <1>1. PipelineTypeOK /\ UNCHANGED <<committed, settled, fileUpload, topic>>
    BY DEF TypeInv, GroupStep, FetchError, ConsumerCrash, Reassign, Rebalance, Assign,
           storeVars, uploadStores
  <1>2. ASSUME NEW c \in Consumer, FetchError(c) PROVE UNCHANGED <<position, cons>>
    BY <1>2 DEF FetchError
  <1>3. ASSUME UNCHANGED cons,
               \A q \in Partition : position'[q] \in {position[q], committed[q]}
        PROVE  StatusPending'
    <2>1. \A q \in Partition : \A o \in 1 .. Len(topic[q]) : Outstanding(q, o) => Outstanding(q, o)'
      BY <1>1, <1>3 DEF Outstanding, Processes
    <2> QED
      BY <1>1, <2>1, KeepsPending
  <1>4. ASSUME NEW c \in Consumer, ConsumerCrash(c) PROVE StatusPending'
    <2>1. "Process" \in Faulty /\ NoRebalance
      BY <1>4 DEF ConsumerCrash, MayFail
    <2>2. \A d \in Consumer \ {c} : cons'[d] = cons[d]
      BY <1>1, <1>4 DEF ConsumerCrash, PipelineTypeOK
    <2>3. \A q \in Partition : position'[q] = IF owner[q] = c THEN committed[q] ELSE position[q]
      BY <1>4 DEF ConsumerCrash
    <2>4. ASSUME NEW q \in Partition, NEW o \in 1 .. Len(topic[q]), Outstanding(q, o)
          PROVE  Outstanding(q, o)'
      <3>1. CASE \E d \in Consumer \ {c} : Processes(d, q, o)
        BY <2>2, <3>1 DEF Processes, Outstanding
      <3>2. CASE Processes(c, q, o)
        <4>1. owner[q] = c /\ committed[q] < o
          BY <2>1, <3>2 DEF Processes, OwnersHold, Holds, ProcessPc
        <4> QED
          BY <1>1, <2>1, <2>3, <4>1 DEF Outstanding
      <3>3. CASE o > position[q] /\ o > committed[q]
        BY <1>1, <2>1, <2>3, <3>3 DEF Outstanding
      <3> QED
        BY <2>4, <3>1, <3>2, <3>3 DEF Outstanding
    <2> QED
      BY <1>1, <2>4, KeepsPending
  <1>5. ASSUME NEW p \in Partition, NEW c \in Consumer, Reassign(p, c) \/ Rebalance(p, c)
        PROVE  UNCHANGED cons /\ \A q \in Partition : position'[q] \in {position[q], committed[q]}
    BY <1>1, <1>5 DEF Reassign, Rebalance, Assign, PipelineTypeOK
  <1> QED
    BY <1>2, <1>3, <1>4, <1>5 DEF GroupStep

LEMMA PendingStep ==
    ASSUME StatusesWritten, NoRebalance \/ "Process" \notin Faulty
    PROVE  TypeInv /\ OrderInv /\ OwnersHold /\ LogsBounded /\ StatusPending
             /\ [PipelineNext]_pipelineVars => StatusPending'
  <1> SUFFICES ASSUME TypeInv, OrderInv, OwnersHold, LogsBounded, StatusPending,
                      [PipelineNext]_pipelineVars
               PROVE  StatusPending'
    OBVIOUS
  <1>1. CASE UNCHANGED pipelineVars
    BY <1>1 DEF pipelineVars, consumerVars, groupVars, storeVars, uploadStores, StatusPending,
                Behind, NotFinal, Tasked, TaskAt, Outstanding, Processes
  <1> QED
    BY <1>1, SubmitPending, ProcessPending, FetchPending, CommitPending, GroupPending
       DEF PipelineNext, ConsumerNext, ConsumerStep

LEMMA PendingInit == PipelineAloneInit => StatusPending
  BY NoRowTyped DEF PipelineAloneInit, StoresInit, StatusPending, NotFinal, Key

LEMMA StatusInvariant ==
    ASSUME StatusesWritten, NoRebalance \/ "Process" \notin Faulty
    PROVE  PipelineSpec => []StatusInv
  <1>1. TypeInv /\ OrderInv /\ StatusInv /\ [PipelineNext]_pipelineVars => StatusInv'
    BY OwnersStep, LogsStep, PendingStep DEF StatusInv
  <1> QED
    BY PendingInit, <1>1, OwnersInit, LogsInit, TypeInvariant, OrderInvariant, PTL
       DEF PipelineSpec, StatusInv

LEMMA StatusDecided == TypeInv /\ StatusInv => FinishedStatus
  <1> SUFFICES ASSUME TypeInv, StatusInv, NEW u \in User, NEW f \in File,
                      Finished(u, f), NotFinal(u, f)
               PROVE  FALSE
    <2>1. \A u \in User, f \in File : Finished(u, f) => Tasked(u, f)
      <3> SUFFICES ASSUME NEW u \in User, NEW f \in File, Finished(u, f) PROVE Tasked(u, f)
        OBVIOUS
      <3>1. PICK p \in Partition, o \in 1 .. MaxTasks :
                o <= Len(topic[p]) /\ topic[p][o].user = u /\ topic[p][o].file = f
        BY DEF Finished
      <3>2. o \in 1 .. Len(topic[p])
        BY <3>1, BoundAssumption DEF TypeInv, PipelineTypeOK, StoresTypeOK
      <3> QED
        BY <3>1, <3>2 DEF Tasked, TaskAt
    <2> QED
      BY <2>1 DEF FinishedStatus, NotFinal
  <1>1. PICK p \in Partition, o \in Nat : Behind(u, f, p, o)
    BY DEF StatusInv, StatusPending, Behind
  <1>2. Len(topic[p]) \in Nat /\ Len(topic[p]) <= MaxTasks /\ committed[p] \in Nat
    BY DEF TypeInv, PipelineTypeOK, StoresTypeOK, StatusInv, LogsBounded
  <1>3. o \in 1 .. MaxTasks /\ o <= Len(topic[p])
    BY <1>1, <1>2, BoundAssumption DEF Behind
  <1>4. o <= committed[p]
    BY <1>1, <1>3 DEF Behind, TaskAt, Finished
  <1>5. PICK c \in Consumer : Processes(c, p, o)
    BY <1>1, <1>2, <1>3, <1>4 DEF Behind, Outstanding
  <1>6. WorksOn(c, u, f)
    BY <1>1, <1>5 DEF Processes, WorksOn, Holds, TaskOf, Behind, TaskAt, ProcessPc
  <1> QED
    BY <1>6 DEF Finished

(* A document whose tasks are finished is never shown as processing, when  *)
(* the status updates succeed (the code drops their errors) and when not   *)
(* both happen: a rebalance leaves a message to two consumers, and the     *)
(* process of one of them dies after the other has committed.              *)
THEOREM FinishedDocumentsDecided ==
    ASSUME StatusesWritten, NoRebalance \/ "Process" \notin Faulty
    PROVE  PipelineSpec => []FinishedStatus
  BY StatusDecided, TypeInvariant, StatusInvariant, PTL

-----------------------------------------------------------------------------
(* The rows of a document, when one consumer works at a time.              *)
OneWorker == \A c, d \in Consumer : Holds(c) /\ Holds(d) => c = d

LEMMA WorksAlone ==
    ASSUME TypeInv, OwnersHold, OnePartition, NoRebalance
    PROVE  OneWorker
  <1>1. \A c \in Consumer : cons[c].part \in Partition
    BY DEF TypeInv, PipelineTypeOK, Activity
  <1>2. ASSUME NEW c \in Consumer, NEW d \in Consumer, Holds(c), Holds(d) PROVE c = d
    <2>1. cons[c].part = cons[d].part
      BY <1>1 DEF OnePartition
    <2> QED
      BY <1>2, <2>1 DEF OwnersHold
  <1> QED
    BY <1>2 DEF OneWorker

(* Where each step of Process leaves its consumer.                         *)
LEMMA PcAfter ==
    ASSUME TypeInv, NEW c \in Consumer
    PROVE  /\ Start(c) => cons'[c].pc = "download"
           /\ Download(c) => cons'[c].pc \in {"parse", "fail"}
           /\ Parse(c) => cons'[c].pc \in {"chunk", "fail"}
           /\ Chunk(c) => cons'[c].pc = "clean"
           /\ Clean(c) => cons'[c].pc = "save"
           /\ Save(c) => cons'[c].pc \in {"read", "fail"}
           /\ Read(c) => cons'[c].pc \in {"embed", "fail"}
           /\ Wait(c) => cons'[c].pc \in {"succeed", "fail"}
           /\ Succeed(c) => cons'[c].pc = "commit"
           /\ Fail(c) => cons'[c].pc \in {"start", "commit"}
           /\ \A g : Spawn(c, g) \/ EmbedAndIndex(c, g) => cons'[c].pc = "embed"
  <1>1. cons \in [Consumer -> Activity] /\ cons[c] \in Activity
    BY DEF TypeInv, PipelineTypeOK
  <1>2. \A pc \in {"commit"} \cup ProcessPc : Advance(c, pc) => cons'[c].pc = pc
    BY <1>1, Advances
  <1>3. /\ Start(c) => cons'[c].pc = "download"
        /\ Download(c) => cons'[c].pc \in {"parse", "fail"}
        /\ Parse(c) => cons'[c].pc \in {"chunk", "fail"}
        /\ Clean(c) => cons'[c].pc = "save"
        /\ Save(c) => cons'[c].pc \in {"read", "fail"}
        /\ Wait(c) => cons'[c].pc \in {"succeed", "fail"}
        /\ Succeed(c) => cons'[c].pc = "commit"
    BY <1>2 DEF Start, Download, Parse, Clean, Save, Wait, Succeed, ProcessPc
  <1>4. Chunk(c) => cons'[c].pc = "clean"
    BY <1>1 DEF Chunk, Activity
  <1>5. ASSUME Read(c) PROVE cons'[c].pc \in {"embed", "fail"}
    <2>1. CASE Advance(c, "fail")
      BY <1>2, <2>1 DEF ProcessPc
    <2>2. CASE \E jobs, n : cons' = [cons EXCEPT ![c].pc = "embed", ![c].todo = jobs, ![c].saved = n]
      BY <1>1, <2>2 DEF Activity
    <2> QED
      BY <1>5, <2>1, <2>2 DEF Read
  <1>6. \A g : Spawn(c, g) \/ EmbedAndIndex(c, g) => cons'[c].pc = "embed"
    BY <1>1 DEF Spawn, EmbedAndIndex, InProcess, Activity
  <1>7. ASSUME Fail(c) PROVE cons'[c].pc \in {"start", "commit"}
    <2>1. CASE Advance(c, "commit")
      BY <1>2, <2>1
    <2>2. CASE cons' = [cons EXCEPT ![c] = Attempt(cons[c].part, cons[c].off, cons[c].attempt + 1)]
      <3>1. Attempt(cons[c].part, cons[c].off, cons[c].attempt + 1).pc = "start"
        BY <1>1, AttemptTyped DEF Activity
      <3> QED
        BY <1>1, <2>2, <3>1
    <2> QED
      BY <1>7, <2>1, <2>2 DEF Fail, Attempt
  <1> QED
    BY <1>3, <1>4, <1>5, <1>6, <1>7

(* The task a consumer holds stays the same while it holds it.             *)
LEMMA SameTask ==
    ASSUME TypeInv, NEW c \in Consumer, Holds(c), [PipelineNext]_pipelineVars,
           cons'[c].part = cons[c].part, cons'[c].off = cons[c].off
    PROVE  TaskOf(c)' = TaskOf(c)
  <1>1. cons[c].part \in Partition /\ cons[c].off \in 1 .. Len(topic[cons[c].part])
    BY TaskTyped
  <1>2. CASE UNCHANGED topic
    BY <1>2 DEF TaskOf
  <1>3. ASSUME NEW u \in User, NEW f \in File, NEW v \in Visibility, Submit(u, f, v)
        PROVE  TaskOf(c)' = TaskOf(c)
    <2>1. PICK p \in Partition :
              /\ \A o \in 1 .. Len(topic[p]) : topic'[p][o] = topic[p][o]
              /\ \A q \in Partition \ {p} : topic'[q] = topic[q]
      BY <1>3, SubmitGrows
    <2>2. topic'[cons[c].part][cons[c].off] = topic[cons[c].part][cons[c].off]
      BY <1>1, <2>1
    <2> QED
      BY <2>2 DEF TaskOf
  <1>4. ASSUME NEW d \in Consumer, ProcessStep(d) PROVE UNCHANGED topic
    BY <1>4, ProcessFrame
  <1>5. ASSUME UNCHANGED pipelineVars \/ GroupStep \/ (\E d \in Consumer : Fetch(d) \/ Commit(d))
        PROVE  UNCHANGED topic
    BY <1>5 DEF pipelineVars, storeVars, GroupStep, FetchError, ConsumerCrash, Reassign, Rebalance,
                Assign, Fetch, Commit
  <1> QED
    BY <1>2, <1>3, <1>4, <1>5 DEF PipelineNext, ConsumerNext, ConsumerStep

(* The steps that write no row.                                            *)
LEMMA RowsUnchanged ==
    ASSUME TypeInv, [PipelineNext]_pipelineVars, \A c \in Consumer : ~Clean(c) /\ ~Save(c)
    PROVE  /\ UNCHANGED vectors
           /\ \A c \in Consumer : cons'[c].pc = "save" => cons'[c] = cons[c]
  <1>1. PipelineTypeOK
    BY DEF TypeInv
  <1>2. CASE UNCHANGED <<vectors, cons>>
    BY <1>2
  <1>3. ASSUME NEW c \in Consumer, ProcessStep(c)
        PROVE  /\ UNCHANGED vectors /\ cons'[c].pc # "save"
               /\ \A d \in Consumer \ {c} : cons'[d] = cons[d]
    <2>1. SameMessage(c)
      BY <1>3, ProcessFrame
    <2>2. UNCHANGED vectors
      BY <1>3 DEF ProcessStep, Start, Download, Parse, Chunk, Read, Wait, Succeed, Fail, Spawn,
                  EmbedAndIndex, storeVars
    <2>3. cons'[c].pc # "save"
      BY <1>3, PcAfter DEF ProcessStep
    <2> QED
      BY <2>1, <2>2, <2>3 DEF SameMessage
  <1>4. ASSUME NEW c \in Consumer, Fetch(c) \/ Commit(c) \/ ConsumerCrash(c)
        PROVE  /\ UNCHANGED vectors /\ cons'[c].pc # "save"
               /\ \A d \in Consumer \ {c} : cons'[d] = cons[d]
    <2>1. PICK next : cons' = [cons EXCEPT ![c] = next] /\ next.pc # "save"
      <3>1. CASE Fetch(c)
        <4>1. PICK p \in Partition : cons' = [cons EXCEPT ![c] = Attempt(p, position[p] + 1, 1)]
          BY <3>1 DEF Fetch, Attempt
        <4>2. position[p] + 1 \in Nat
          BY <1>1 DEF PipelineTypeOK
        <4> QED
          BY <4>1, <4>2, AttemptTyped
      <3> QED
        BY <1>4, <3>1, FetchingTyped DEF Commit, ConsumerCrash
    <2> QED
      BY <1>1, <1>4, <2>1 DEF PipelineTypeOK, Fetch, Commit, ConsumerCrash, storeVars
  <1>5. ASSUME \/ \E u \in User, f \in File, v \in Visibility : Submit(u, f, v)
               \/ \E c \in Consumer : FetchError(c)
               \/ \E p \in Partition, c \in Consumer : Reassign(p, c) \/ Rebalance(p, c)
               \/ UNCHANGED pipelineVars
        PROVE  UNCHANGED <<vectors, cons>>
    BY <1>5 DEF Submit, FetchError, Reassign, Rebalance, Assign, pipelineVars, consumerVars,
                storeVars
  <1> QED
    BY <1>2, <1>3, <1>4, <1>5 DEF PipelineNext, ConsumerNext, ConsumerStep, GroupStep

(* Every row of document_vectors is there once, and a cleaned document has *)
(* no row until the new ones are written.                                  *)
RowsOnce ==
    /\ \A r \in DOMAIN vectors : vectors[r] = 1
    /\ \A c \in Consumer : cons[c].pc = "save" => RowsOf(TaskOf(c).user, TaskOf(c).file) = {}

LEMMA RowsOnceStep ==
    ASSUME RowsCleaned
    PROVE  TypeInv /\ OneWorker /\ RowsOnce /\ [PipelineNext]_pipelineVars => RowsOnce'
  <1> SUFFICES ASSUME TypeInv, OneWorker, RowsOnce, [PipelineNext]_pipelineVars PROVE RowsOnce'
    OBVIOUS
  <1>1. Table
    BY DEF TypeInv, PipelineTypeOK, StoresOK, StoresTypeOK, Table
  <1>2. ASSUME NEW c \in Consumer, Clean(c) \/ Save(c)
        PROVE  /\ Holds(c) /\ TaskOf(c)' = TaskOf(c)
               /\ \A d \in Consumer \ {c} : cons'[d].pc # "save"
    <2>1. ProcessStep(c)
      BY <1>2 DEF ProcessStep
    <2>2. Holds(c) /\ SameMessage(c)
      BY <2>1, ProcessFrame
    <2>3. TaskOf(c)' = TaskOf(c)
      BY <2>2, SameTask DEF SameMessage
    <2> QED
      BY <2>2, <2>3 DEF SameMessage, OneWorker, Holds
  <1>3. ASSUME NEW c \in Consumer, Clean(c) PROVE RowsOnce'
    <2>1. DeleteByFileMD5AndUser(TaskOf(c).user, TaskOf(c).file)
      BY <1>3 DEF Clean, MayFail, RowsCleaned
    <2>2. /\ DOMAIN vectors' = DOMAIN vectors \ RowsOf(TaskOf(c).user, TaskOf(c).file)
          /\ \A r \in DOMAIN vectors' : vectors'[r] = vectors[r]
      BY <1>1, <2>1, UserRowsDeleted
    <2>3. RowsOf(TaskOf(c).user, TaskOf(c).file)' = {}
      BY <1>2, <1>3, <2>2 DEF RowsOf
    <2> QED
      BY <1>2, <1>3, <2>2, <2>3 DEF RowsOnce
  <1>4. ASSUME NEW c \in Consumer, Save(c) PROVE RowsOnce'
    <2>1. cons'[c].pc # "save"
      BY <1>4, PcAfter
    <2>2. CASE BatchCreate(NewRows(c))
      <3>1. /\ DOMAIN vectors' = DOMAIN vectors \cup NewRows(c)
            /\ \A r \in NewRows(c) \ DOMAIN vectors : vectors'[r] = 1
            /\ \A r \in DOMAIN vectors \ NewRows(c) : vectors'[r] = vectors[r]
        BY <1>1, <1>2, <1>4, <2>2, NewRowsTyped, RowsCreated
      <3>2. RowsOf(TaskOf(c).user, TaskOf(c).file) = {}
        BY <1>4 DEF RowsOnce, Save, InProcess
      <3>3. NewRows(c) \cap DOMAIN vectors = {}
        BY <3>2 DEF NewRows, RowsOf
      <3> QED
        BY <1>2, <1>4, <2>1, <3>1, <3>3 DEF RowsOnce
    <2>3. CASE UNCHANGED vectors
      BY <1>2, <1>4, <2>1, <2>3 DEF RowsOnce
    <2> QED
      BY <1>4, <2>2, <2>3 DEF Save, NewRows
  <1>5. CASE \A c \in Consumer : ~Clean(c) /\ ~Save(c)
    <2>1. ASSUME NEW c \in Consumer, cons'[c].pc = "save"
          PROVE  RowsOf(TaskOf(c).user, TaskOf(c).file)' = {}
      <3>1. UNCHANGED vectors /\ cons'[c] = cons[c]
        BY <1>5, <2>1, RowsUnchanged
      <3>2. TaskOf(c)' = TaskOf(c)
        BY <2>1, <3>1, SameTask DEF Holds
      <3> QED
        BY <2>1, <3>1, <3>2 DEF RowsOnce, RowsOf
    <2>2. UNCHANGED vectors
      BY <1>5, RowsUnchanged
    <2> QED
      BY <2>1, <2>2 DEF RowsOnce
  <1> QED
    BY <1>3, <1>4, <1>5

LEMMA OwnersInvariant == PipelineSpec => []OwnersHold
  BY TypeInvariant, OwnersInit, OwnersStep, PTL DEF PipelineSpec

LEMMA RowsOnceInit == PipelineAloneInit => RowsOnce
  BY FetchingTyped DEF PipelineAloneInit, StoresInit, PipelineInit, RowsOnce

LEMMA RowsOnceInvariant ==
    ASSUME OnePartition, NoRebalance, RowsCleaned
    PROVE  PipelineSpec => []RowsOnce
  <1>1. TypeInv /\ OwnersHold => OneWorker
    BY WorksAlone
  <1> QED
    BY RowsOnceInit, <1>1, TypeInvariant, OwnersInvariant, RowsOnceStep, PTL DEF PipelineSpec

(* Retries, crashes and further tasks of a document store no chunk twice,  *)
(* with one partition, without rebalances, and if old rows are cleaned.    *)
THEOREM ChunksStoredOnce ==
    ASSUME OnePartition, NoRebalance, RowsCleaned
    PROVE  PipelineSpec => []NoDuplicateChunks
  <1>1. RowsOnce => NoDuplicateChunks
    BY DEF RowsOnce, NoDuplicateChunks, RowsOf
  <1> QED
    BY <1>1, RowsOnceInvariant, PTL

-----------------------------------------------------------------------------
(* What a document shown as successful has in the index.                   *)
Indexed(u, f) ==
    /\ RowsOf(u, f) # {}
    /\ \A r \in RowsOf(u, f) : r \in es /\ r.vis = fileUpload[<<u, f>>].vis
    /\ fileUpload[<<u, f>>].actual = Cardinality(RowsOf(u, f))

(* The record of a task is there, with the visibility the task carries.    *)
TasksRecorded ==
    \A p \in Partition : \A o \in 1 .. Len(topic[p]) :
        /\ Present(fileUpload[<<topic[p][o].user, topic[p][o].file>>])
        /\ fileUpload[<<topic[p][o].user, topic[p][o].file>>].vis = topic[p][o].vis

(* How far an attempt has come: the rows it works on, those among them     *)
(* that a goroutine has still to index, and the status while it runs.      *)
TaskRows(c) == RowsOf(TaskOf(c).user, TaskOf(c).file)
Jobs(c) == cons[c].todo \cup cons[c].inflight

RowsSaved(c) == TaskRows(c) # {} /\ \A r \in TaskRows(c) : r.vis = TaskOf(c).vis

RowsRead(c) == RowsSaved(c) /\ cons[c].saved = Cardinality(TaskRows(c))

Indexing(c) ==
    /\ Jobs(c) \subseteq TaskRows(c) \X {1}
    /\ cons[c].failed \/ \A r \in TaskRows(c) : r \in es \/ <<r, 1>> \in Jobs(c)

Progress(c) ==
    /\ cons[c].pc \in ProcessPc \ {"start"} => fileUpload[RecordOf(c)].vstatus = "processing"
    /\ cons[c].pc \in {"start", "download", "parse", "chunk", "clean", "save", "read"} =>
          cons[c].inflight = {}
    /\ cons[c].pc = "chunk" => TextChunks[TaskOf(c).file] > 0
    /\ cons[c].pc \in {"clean", "save"} => cons[c].size > 0
    /\ cons[c].pc = "read" => RowsSaved(c)
    /\ cons[c].pc = "embed" => RowsRead(c) /\ Indexing(c)
    /\ cons[c].pc = "succeed" => RowsRead(c) /\ \A r \in TaskRows(c) : r \in es

SuccessInv ==
    /\ TasksRecorded
    /\ \A c \in Consumer : Holds(c) => Progress(c)
    /\ \A u \in User, f \in File : fileUpload[<<u, f>>].vstatus = "success" => Indexed(u, f)

LEMMA TaskRecorded ==
    ASSUME TypeInv, TasksRecorded, NEW c \in Consumer, Holds(c)
    PROVE  /\ RecordOf(c) \in Key /\ Present(fileUpload[RecordOf(c)])
           /\ fileUpload[RecordOf(c)].vis = TaskOf(c).vis
  <1>1. cons[c].part \in Partition /\ cons[c].off \in 1 .. Len(topic[cons[c].part])
        /\ TaskOf(c).user \in User /\ TaskOf(c).file \in File
    BY TaskTyped
  <1> QED
    BY <1>1 DEF TasksRecorded, RecordOf, TaskOf, Key

LEMMA StepRecord ==
    ASSUME TypeInv, TasksRecorded, NEW c \in Consumer, ProcessStep(c)
    PROVE  /\ Holds(c) /\ TaskOf(c)' = TaskOf(c) /\ RecordOf(c)' = RecordOf(c)
           /\ RecordOf(c) \in Key /\ Present(fileUpload[RecordOf(c)])
           /\ fileUpload[RecordOf(c)].vis = TaskOf(c).vis
           /\ cons \in [Consumer -> Activity] /\ cons[c] \in Activity
  <1>1. Holds(c) /\ SameMessage(c)
    BY ProcessFrame
  <1>2. [PipelineNext]_pipelineVars
    BY DEF PipelineNext, ConsumerNext, ConsumerStep
  <1>3. TaskOf(c)' = TaskOf(c)
    BY <1>1, <1>2, SameTask DEF SameMessage
  <1> QED
    BY <1>1, <1>3, TaskRecorded DEF RecordOf, TypeInv, PipelineTypeOK

(* The status updates of a task write what they say.                       *)
LEMMA StatusAfter ==
    ASSUME TypeInv, TasksRecorded, StatusesWritten, NEW c \in Consumer, Holds(c)
    PROVE  /\ \A vst \in VStatus :
                  StatusUpdate(UpdateVectorizedStatus(TaskOf(c).user, TaskOf(c).file, vst))
                    => fileUpload'[RecordOf(c)].vstatus = vst
           /\ \A vst \in VStatus, n \in Nat :
                  StatusUpdate(UpdateVectorized(TaskOf(c).user, TaskOf(c).file, vst, n))
                    => /\ fileUpload'[RecordOf(c)].vstatus = vst
                       /\ fileUpload'[RecordOf(c)].actual = n
  <1>1. fileUpload \in [Key -> Row] /\ TaskOf(c).user \in User /\ TaskOf(c).file \in File
        /\ Present(fileUpload[<<TaskOf(c).user, TaskOf(c).file>>])
    BY TaskTyped, TaskRecorded DEF TypeInv, PipelineTypeOK, StoresTypeOK, RecordOf
  <1>2. ASSUME NEW vst \in VStatus,
               StatusUpdate(UpdateVectorizedStatus(TaskOf(c).user, TaskOf(c).file, vst))
        PROVE  fileUpload'[RecordOf(c)].vstatus = vst
    BY <1>1, <1>2, VectorizedStatusUpdate DEF StatusUpdate, StatusesWritten, MayFail, RecordOf
  <1>3. ASSUME NEW vst \in VStatus, NEW n \in Nat,
               StatusUpdate(UpdateVectorized(TaskOf(c).user, TaskOf(c).file, vst, n))
        PROVE  fileUpload'[RecordOf(c)].vstatus = vst /\ fileUpload'[RecordOf(c)].actual = n
    BY <1>1, <1>3, VectorizedUpdate DEF StatusUpdate, StatusesWritten, MayFail, RecordOf
  <1> QED
    BY <1>2, <1>3

LEMMA AdvanceKeeps ==
    ASSUME cons \in [Consumer -> Activity], NEW c \in Consumer,
           NEW pc \in {"commit"} \cup ProcessPc, Advance(c, pc)
    PROVE  /\ cons'[c].pc = pc /\ cons'[c].size = cons[c].size
           /\ cons'[c].saved = cons[c].saved /\ cons'[c].inflight = cons[c].inflight
  <1>1. cons'[c] = [cons[c] EXCEPT !.pc = pc]
    BY Advances
  <1>2. cons[c] \in Activity
    OBVIOUS
  <1> QED
    BY <1>1, <1>2 DEF Activity

(* What a step of Process must leave of its own document.                  *)
Outcome(c) ==
    /\ Progress(c)'
    /\ fileUpload'[RecordOf(c)].vstatus = "success" => Indexed(TaskOf(c).user, TaskOf(c).file)'

LEMMA PreparationProgress ==
    ASSUME TypeInv, TasksRecorded, StatusesWritten, NEW c \in Consumer, Progress(c),
           Start(c) \/ Download(c) \/ Parse(c) \/ Chunk(c) \/ Clean(c)
    PROVE  Outcome(c)
  <1>1. ProcessStep(c)
    BY DEF ProcessStep
  <1>2. /\ Holds(c) /\ TaskOf(c)' = TaskOf(c) /\ RecordOf(c)' = RecordOf(c)
        /\ cons \in [Consumer -> Activity] /\ cons[c] \in Activity
    BY <1>1, StepRecord
  <1>3. \A pc \in {"commit"} \cup ProcessPc :
            Advance(c, pc) => /\ cons'[c].pc = pc /\ cons'[c].inflight = cons[c].inflight
                              /\ cons'[c].size = cons[c].size
    BY <1>2, AdvanceKeeps
  <1>4. cons[c].inflight = {} /\ cons[c].pc # "start" => fileUpload[RecordOf(c)].vstatus = "processing"
    BY DEF Progress, Start, Download, Parse, Chunk, Clean, InProcess, ProcessPc
  <1>5. CASE Start(c)
    <2>1. fileUpload'[RecordOf(c)].vstatus = "processing"
      BY <1>2, <1>5, StatusAfter DEF Start, VStatus
    <2>2. cons'[c].pc = "download" /\ cons'[c].inflight = {}
      BY <1>3, <1>5 DEF Start, Progress, InProcess, ProcessPc
    <2> QED
      BY <1>2, <2>1, <2>2 DEF Outcome, Progress
  <1>6. CASE Download(c)
    <2>1. cons'[c].pc \in {"parse", "fail"} /\ cons'[c].inflight = {}
      BY <1>3, <1>6 DEF Download, Progress, InProcess, ProcessPc
    <2>2. fileUpload'[RecordOf(c)].vstatus = "processing"
      BY <1>6 DEF Download, storeVars, uploadStores, Progress, InProcess, ProcessPc
    <2> QED
      BY <1>2, <2>1, <2>2 DEF Outcome, Progress
  <1>7. CASE Parse(c)
    <2>1. /\ cons'[c].pc \in {"chunk", "fail"} /\ cons'[c].inflight = {}
          /\ cons'[c].pc = "chunk" => TextChunks[TaskOf(c).file] > 0
      BY <1>3, <1>7 DEF Parse, Progress, InProcess, ProcessPc
    <2>2. fileUpload'[RecordOf(c)].vstatus = "processing"
      <3>1. fileUpload[RecordOf(c)].vstatus = "processing"
        BY <1>7 DEF Parse, Progress, InProcess, ProcessPc
      <3> QED
        BY <1>2, <1>7, <3>1, StatusAfter DEF Parse, VStatus
    <2> QED
      BY <1>2, <2>1, <2>2 DEF Outcome, Progress
  <1>8. CASE Chunk(c)
    <2>1. /\ cons'[c].pc = "clean" /\ cons'[c].inflight = {} /\ cons'[c].size > 0
      <3>0. TaskOf(c).file \in File /\ TextChunks[TaskOf(c).file] > 0
        BY <1>2, <1>8, TaskTyped DEF Chunk, Progress, InProcess
      <3>1. TextChunks[TaskOf(c).file] \in Nat \ {0} /\ Images[TaskOf(c).file] \in Nat
        BY <3>0, PipelineAssumption
      <3>2. PICK n \in 0 .. Images[TaskOf(c).file] :
                cons' = [cons EXCEPT ![c].pc = "clean", ![c].size = TextChunks[TaskOf(c).file] + n]
        BY <1>8 DEF Chunk
      <3>3. TextChunks[TaskOf(c).file] + n \in Nat \ {0}
        BY <3>1
      <3>4. cons[c].inflight = {}
        BY <1>8 DEF Chunk, Progress, InProcess
      <3> QED
        BY <1>2, <3>2, <3>3, <3>4 DEF Activity
    <2>2. fileUpload'[RecordOf(c)].vstatus = "processing"
      BY <1>2, <1>8, StatusAfter DEF Chunk, VStatus
    <2> QED
      BY <1>2, <2>1, <2>2 DEF Outcome, Progress
  <1>9. CASE Clean(c)
    <2>1. cons'[c].pc = "save" /\ cons'[c].inflight = {} /\ cons'[c].size > 0
      BY <1>3, <1>9 DEF Clean, Progress, InProcess, ProcessPc
    <2>2. fileUpload'[RecordOf(c)].vstatus = "processing"
      BY <1>9 DEF Clean, uploadStores, Progress, InProcess, ProcessPc
    <2> QED
      BY <1>2, <2>1, <2>2 DEF Outcome, Progress
  <1> QED
    BY <1>5, <1>6, <1>7, <1>8, <1>9

LEMMA SaveProgress ==
    ASSUME TypeInv, TasksRecorded, RowsOnce, NEW c \in Consumer, Progress(c), Save(c)
    PROVE  Outcome(c)
  <1>1. ProcessStep(c) /\ cons[c].pc = "save"
    BY DEF ProcessStep, Save, InProcess
  <1>2. /\ Holds(c) /\ TaskOf(c)' = TaskOf(c) /\ RecordOf(c)' = RecordOf(c)
        /\ cons \in [Consumer -> Activity] /\ cons[c] \in Activity
    BY <1>1, StepRecord
  <1>3. \A pc \in {"read", "fail"} :
            Advance(c, pc) => cons'[c].pc = pc /\ cons'[c].inflight = cons[c].inflight
    BY <1>2, AdvanceKeeps DEF ProcessPc
  <1>4. /\ fileUpload'[RecordOf(c)].vstatus = "processing"
        /\ cons[c].inflight = {} /\ cons[c].size > 0
    BY <1>1 DEF Save, uploadStores, Progress, ProcessPc
  <1>5. CASE Advance(c, "fail")
    BY <1>2, <1>3, <1>4, <1>5 DEF Outcome, Progress
  <1>6. CASE BatchCreate(NewRows(c)) /\ Advance(c, "read")
    <2>1. DOMAIN vectors' = DOMAIN vectors \cup NewRows(c)
      BY <1>6 DEF BatchCreate
    <2>2. TaskRows(c) = {}
      BY <1>1 DEF RowsOnce, TaskRows
    <2>3. \A r \in NewRows(c) : /\ r.user = TaskOf(c).user /\ r.file = TaskOf(c).file
                                /\ r.vis = TaskOf(c).vis
      BY DEF NewRows
    <2>4. TaskRows(c)' = NewRows(c)
      BY <1>2, <2>1, <2>2, <2>3 DEF TaskRows, RowsOf
    <2>5. NewRows(c) # {}
      <3>1. 0 \in 0 .. cons[c].size - 1
        BY <1>2, <1>4 DEF Activity
      <3> QED
        BY <3>1 DEF NewRows
    <2>6. RowsSaved(c)'
      BY <1>2, <2>3, <2>4, <2>5 DEF RowsSaved
    <2> QED
      BY <1>2, <1>3, <1>4, <1>6, <2>6 DEF Outcome, Progress
  <1> QED
    BY <1>5, <1>6 DEF Save, NewRows

(* With every row there once, the goroutines are as many as the rows.      *)
LEMMA JobPerRow ==
    ASSUME Table, NEW u, NEW f, \A r \in DOMAIN vectors : vectors[r] = 1
    PROVE  /\ JobsOf(u, f) = RowsOf(u, f) \X {1}
           /\ Cardinality(JobsOf(u, f)) = Cardinality(RowsOf(u, f))
  <1>1. RowsOf(u, f) \subseteq DOMAIN vectors /\ IsFiniteSet(RowsOf(u, f))
    BY FS_Subset DEF RowsOf, Table
  <1>2. \A r \in RowsOf(u, f) : 1 .. vectors[r] = {1}
    BY <1>1
  <1>3. JobsOf(u, f) = RowsOf(u, f) \X {1}
    BY <1>2, JobsTyped
  <1> DEFINE job == [r \in RowsOf(u, f) |-> <<r, 1>>]
  <1>4. /\ job \in [RowsOf(u, f) -> RowsOf(u, f) \X {1}]
        /\ \A r, s \in RowsOf(u, f) : job[r] = job[s] => r = s
        /\ \A g \in RowsOf(u, f) \X {1} : \E r \in RowsOf(u, f) : job[r] = g
    OBVIOUS
  <1>5. ExistsBijection(RowsOf(u, f), RowsOf(u, f) \X {1})
    <2> HIDE DEF job
    <2>1. job \in Bijection(RowsOf(u, f), RowsOf(u, f) \X {1})
      BY <1>4 DEF Bijection, Injection, Surjection, IsInjective
    <2> QED
      BY <2>1 DEF ExistsBijection
  <1> QED
    BY <1>1, <1>3, <1>5, FS_Bijection

LEMMA ReadProgress ==
    ASSUME TypeInv, TasksRecorded, RowsOnce, NEW c \in Consumer, Progress(c), Read(c)
    PROVE  Outcome(c)
  <1> DEFINE jobs == JobsOf(TaskOf(c).user, TaskOf(c).file)
  <1>1. ProcessStep(c) /\ cons[c].pc = "read" /\ UNCHANGED <<fileUpload, vectors, es>>
    BY DEF ProcessStep, Read, InProcess, storeVars, uploadStores
  <1>2. /\ Holds(c) /\ TaskOf(c)' = TaskOf(c) /\ RecordOf(c)' = RecordOf(c)
        /\ cons \in [Consumer -> Activity] /\ cons[c] \in Activity
    BY <1>1, StepRecord
  <1>3. fileUpload'[RecordOf(c)].vstatus = "processing" /\ cons[c].inflight = {} /\ RowsSaved(c)
    BY <1>1 DEF Progress, ProcessPc
  <1>4. TaskRows(c)' = TaskRows(c)
    BY <1>1, <1>2 DEF TaskRows, RowsOf
  <1>5. CASE Advance(c, "fail")
    <2>1. cons'[c].pc = "fail"
      BY <1>2, <1>5, Advances DEF ProcessPc
    <2> QED
      BY <1>2, <1>3, <2>1 DEF Outcome, Progress
  <1>6. CASE cons' = [cons EXCEPT ![c].pc = "embed", ![c].todo = jobs, ![c].saved = Cardinality(jobs)]
    <2>1. jobs = TaskRows(c) \X {1} /\ Cardinality(jobs) = Cardinality(TaskRows(c))
      <3>1. Table
        BY DEF TypeInv, PipelineTypeOK, StoresOK, StoresTypeOK, Table
      <3> QED
        BY <3>1, JobPerRow DEF RowsOnce, TaskRows
    <2> HIDE DEF jobs
    <2>2. /\ cons'[c].pc = "embed" /\ cons'[c].todo = jobs /\ cons'[c].inflight = {}
          /\ cons'[c].saved = Cardinality(jobs)
      BY <1>2, <1>3, <1>6 DEF Activity
    <2>3. RowsRead(c)'
      BY <1>2, <1>3, <1>4, <2>1, <2>2 DEF RowsRead, RowsSaved
    <2>4. Indexing(c)'
      BY <1>4, <2>1, <2>2 DEF Indexing, Jobs
    <2> QED
      BY <1>2, <1>3, <2>2, <2>3, <2>4 DEF Outcome, Progress
  <1> QED
    BY <1>5, <1>6 DEF Read, JobsOf

LEMMA EmbeddingProgress ==
    ASSUME TypeInv, TasksRecorded, NEW c \in Consumer, Progress(c), NEW g,
           \/ g \in cons[c].todo /\ Spawn(c, g)
           \/ g \in cons[c].inflight /\ EmbedAndIndex(c, g)
    PROVE  Outcome(c)
  <1>1. ProcessStep(c) /\ cons[c].pc = "embed" /\ UNCHANGED <<fileUpload, vectors>>
    BY DEF ProcessStep, Spawn, EmbedAndIndex, InProcess, storeVars, uploadStores
  <1>2. /\ Holds(c) /\ TaskOf(c)' = TaskOf(c) /\ RecordOf(c)' = RecordOf(c)
        /\ cons \in [Consumer -> Activity] /\ cons[c] \in Activity
    BY <1>1, StepRecord
  <1>3. fileUpload'[RecordOf(c)].vstatus = "processing" /\ RowsRead(c) /\ Indexing(c)
    BY <1>1 DEF Progress, ProcessPc
  <1>4. TaskRows(c)' = TaskRows(c)
    BY <1>1, <1>2 DEF TaskRows, RowsOf
  <1>5. cons'[c].saved = cons[c].saved /\ cons'[c].pc = "embed"
    BY <1>1, <1>2 DEF Spawn, EmbedAndIndex, Activity
  <1>6. RowsRead(c)'
    BY <1>2, <1>3, <1>4, <1>5 DEF RowsRead, RowsSaved
  <1>7. Indexing(c)'
    <2>1. CASE g \in cons[c].todo /\ Spawn(c, g)
      <3>1. /\ cons'[c].todo = cons[c].todo \ {g} /\ cons'[c].inflight = cons[c].inflight \cup {g}
            /\ cons'[c].failed = cons[c].failed
        BY <1>2, <2>1 DEF Spawn, Activity
      <3>2. Jobs(c)' = Jobs(c) /\ UNCHANGED es
        BY <2>1, <3>1 DEF Jobs, Spawn, storeVars
      <3> QED
        BY <1>3, <1>4, <3>1, <3>2 DEF Indexing
    <2>2. CASE g \in cons[c].inflight /\ EmbedAndIndex(c, g)
      <3>1. /\ cons'[c].todo = cons[c].todo /\ cons'[c].inflight = cons[c].inflight \ {g}
            /\ \/ IndexDocument(g[1]) /\ cons'[c].failed = cons[c].failed
               \/ cons'[c].failed = TRUE
        BY <1>2, <2>2 DEF EmbedAndIndex, Activity
      <3>2. Jobs(c) \ {g} \subseteq Jobs(c)' /\ Jobs(c)' \subseteq Jobs(c)
        BY <3>1 DEF Jobs
      <3>3. g \in TaskRows(c) \X {1}
        BY <1>3, <2>2 DEF Indexing, Jobs
      <3>4. CASE cons'[c].failed = TRUE
        BY <1>3, <1>4, <3>2, <3>4 DEF Indexing
      <3>5. CASE IndexDocument(g[1]) /\ cons'[c].failed = cons[c].failed
        <4>1. ASSUME NEW r \in TaskRows(c), r \in es \/ <<r, 1>> \in Jobs(c)
              PROVE  r \in es' \/ <<r, 1>> \in Jobs(c)'
          <5>1. CASE r = g[1]
            BY <3>5, <5>1 DEF IndexDocument
          <5>2. CASE r # g[1] /\ r \in es
            <6>1. \A x \in TaskRows(c) : /\ x \in VectorRow /\ x.user = TaskOf(c).user
                                         /\ x.file = TaskOf(c).file /\ x.vis = TaskOf(c).vis
              BY <1>3 DEF RowsRead, RowsSaved, TaskRows, RowsOf, TypeInv, PipelineTypeOK, StoresTypeOK
            <6>2. r.chunk # g[1].chunk
              BY <3>3, <5>2, <6>1 DEF VectorRow
            <6> QED
              BY <3>5, <5>2, <6>2 DEF IndexDocument
          <5>3. CASE r # g[1] /\ <<r, 1>> \in Jobs(c)
            BY <3>2, <5>3
          <5> QED
            BY <4>1, <5>1, <5>2, <5>3
        <4> QED
          BY <1>3, <1>4, <3>2, <3>5, <4>1 DEF Indexing
      <3> QED
        BY <3>1, <3>4, <3>5
    <2> QED
      BY <2>1, <2>2
  <1> QED
    BY <1>2, <1>3, <1>5, <1>6, <1>7 DEF Outcome, Progress

LEMMA EndProgress ==
    ASSUME TypeInv, TasksRecorded, StatusesWritten, NEW c \in Consumer, Progress(c),
           Wait(c) \/ Succeed(c) \/ Fail(c)
    PROVE  Outcome(c)
  <1>1. ProcessStep(c) /\ UNCHANGED <<vectors, es>>
    BY DEF ProcessStep, Wait, Succeed, Fail, storeVars, uploadStores
  <1>2. /\ Holds(c) /\ TaskOf(c)' = TaskOf(c) /\ RecordOf(c)' = RecordOf(c)
        /\ cons \in [Consumer -> Activity] /\ cons[c] \in Activity
        /\ fileUpload[RecordOf(c)].vis = TaskOf(c).vis /\ RecordOf(c) \in Key
    BY <1>1, StepRecord
  <1>3. TaskRows(c)' = TaskRows(c)
    BY <1>1, <1>2 DEF TaskRows, RowsOf
  <1>4. CASE Wait(c)
    <2>1. cons[c].pc = "embed" /\ Jobs(c) = {} /\ UNCHANGED fileUpload
      BY <1>4 DEF Wait, InProcess, Jobs, storeVars, uploadStores
    <2>2. RowsRead(c) /\ Indexing(c) /\ fileUpload'[RecordOf(c)].vstatus = "processing"
      BY <2>1 DEF Progress, ProcessPc
    <2>3. /\ cons'[c].pc = IF cons[c].failed THEN "fail" ELSE "succeed"
          /\ cons'[c].saved = cons[c].saved
      BY <1>2, <1>4, AdvanceKeeps DEF Wait, ProcessPc
    <2>4. RowsRead(c)'
      BY <1>2, <1>3, <2>2, <2>3 DEF RowsRead, RowsSaved
    <2>5. cons[c].failed \/ \A r \in TaskRows(c) : r \in es
      BY <2>1, <2>2 DEF Indexing
    <2> QED
      BY <1>1, <1>2, <1>3, <2>2, <2>3, <2>4, <2>5 DEF Outcome, Progress
  <1>5. CASE Succeed(c)
    <2>1. RowsRead(c) /\ (\A r \in TaskRows(c) : r \in es) /\ cons[c].saved \in Nat
      BY <1>2, <1>5 DEF Succeed, InProcess, Progress, Activity
    <2>2. fileUpload'[RecordOf(c)].actual = cons[c].saved
      BY <1>2, <1>5, <2>1, StatusAfter DEF Succeed, VStatus
    <2>3. fileUpload'[RecordOf(c)].vis = TaskOf(c).vis
      BY <1>1, <1>2, WritesItsRecord
    <2>4. Indexed(TaskOf(c).user, TaskOf(c).file)'
      BY <1>1, <1>2, <1>3, <2>1, <2>2, <2>3 DEF Indexed, RowsRead, RowsSaved, TaskRows, RecordOf
    <2>5. cons'[c].pc = "commit"
      BY <1>5, PcAfter
    <2> QED
      BY <2>4, <2>5 DEF Outcome, Progress, ProcessPc
  <1>6. CASE Fail(c)
    <2>1. fileUpload'[RecordOf(c)].vstatus = "failed"
      BY <1>2, <1>6, StatusAfter DEF Fail, VStatus
    <2>2. CASE Advance(c, "commit")
      <3>1. cons'[c].pc = "commit"
        BY <1>2, <2>2, Advances
      <3> QED
        BY <2>1, <3>1 DEF Outcome, Progress, ProcessPc
    <2>3. CASE cons' = [cons EXCEPT ![c] = Attempt(cons[c].part, cons[c].off, cons[c].attempt + 1)]
      <3>1. cons'[c].pc = "start" /\ cons'[c].inflight = {}
        BY <1>2, <2>3 DEF Attempt, Fetching
      <3> QED
        BY <2>1, <3>1 DEF Outcome, Progress
    <2> QED
      BY <1>6, <2>2, <2>3 DEF Fail, Attempt
  <1> QED
    BY <1>4, <1>5, <1>6

LEMMA ProcessOutcome ==
    ASSUME TypeInv, TasksRecorded, RowsOnce, StatusesWritten, NEW c \in Consumer, Progress(c),
           ProcessStep(c)
    PROVE  Outcome(c)
  BY PreparationProgress, SaveProgress, ReadProgress, EmbeddingProgress, EndProgress DEF ProcessStep

-----------------------------------------------------------------------------
(* The documents of other tasks: their rows stay, and stay indexed.        *)
LEMMA OtherDocuments ==
    ASSUME TypeInv, NEW c \in Consumer, Progress(c), ProcessStep(c),
           NEW x \in User, NEW y \in File, <<x, y>> # RecordOf(c)
    PROVE  /\ RowsOf(x, y)' = RowsOf(x, y)
           /\ \A r \in RowsOf(x, y) : r \in es => r \in es'
  <1>1. \A r \in RowsOf(x, y) : r.user # TaskOf(c).user \/ r.file # TaskOf(c).file
    BY DEF RowsOf, RecordOf
  <1>2. CASE Clean(c)
    <2>1. UNCHANGED es
      BY <1>2 DEF Clean
    <2>2. \/ DOMAIN vectors' = DOMAIN vectors \ RowsOf(TaskOf(c).user, TaskOf(c).file)
          \/ UNCHANGED vectors
      BY <1>2 DEF Clean, DeleteByFileMD5AndUser
    <2> QED
      BY <1>1, <2>1, <2>2 DEF RowsOf
  <1>3. CASE Save(c)
    <2>1. UNCHANGED es
      BY <1>3 DEF Save
    <2>2. DOMAIN vectors' = DOMAIN vectors \cup NewRows(c) \/ UNCHANGED vectors
      BY <1>3 DEF Save, BatchCreate, NewRows
    <2>3. \A r \in NewRows(c) : r.user # x \/ r.file # y
      BY DEF NewRows, RecordOf
    <2> QED
      BY <2>1, <2>2, <2>3 DEF RowsOf
  <1>4. ASSUME NEW g \in cons[c].inflight, EmbedAndIndex(c, g)
        PROVE  UNCHANGED vectors /\ \A r \in RowsOf(x, y) : r \in es => r \in es'
    <2>1. cons[c].pc = "embed" /\ UNCHANGED vectors
      BY <1>4 DEF EmbedAndIndex, InProcess
    <2>2. g[1] \in TaskRows(c)
      BY <2>1 DEF Progress, Indexing, Jobs
    <2>3. g[1].user = TaskOf(c).user /\ g[1].file = TaskOf(c).file
      BY <2>2 DEF TaskRows, RowsOf
    <2> QED
      BY <1>1, <1>4, <2>1, <2>3 DEF EmbedAndIndex, IndexDocument
  <1>5. ASSUME \/ Start(c) \/ Download(c) \/ Parse(c) \/ Chunk(c) \/ Read(c) \/ Wait(c)
               \/ Succeed(c) \/ Fail(c) \/ (\E g \in cons[c].todo : Spawn(c, g))
        PROVE  UNCHANGED <<vectors, es>>
    BY <1>5 DEF Start, Download, Parse, Chunk, Read, Wait, Succeed, Fail, Spawn, storeVars
  <1> QED
    BY <1>2, <1>3, <1>4, <1>5 DEF ProcessStep, RowsOf

LEMMA ProcessSuccess ==
    ASSUME TypeInv, OneWorker, RowsOnce, SuccessInv, StatusesWritten, NEW c \in Consumer,
           ProcessStep(c)
    PROVE  SuccessInv'
  <1>1. /\ Holds(c) /\ Progress(c) /\ TasksRecorded /\ SameMessage(c) /\ UNCHANGED topic
    BY ProcessFrame DEF SuccessInv
  <1>2. Outcome(c)
    BY <1>1, ProcessOutcome
  <1>3. TasksRecorded'
    <2> SUFFICES ASSUME NEW p \in Partition, NEW o \in 1 .. Len(topic[p])
                 PROVE  /\ Present(fileUpload'[<<topic[p][o].user, topic[p][o].file>>])
                        /\ fileUpload'[<<topic[p][o].user, topic[p][o].file>>].vis = topic[p][o].vis
      BY <1>1 DEF TasksRecorded
    <2>1. topic[p] \in Seq(Task)
      BY DEF TypeInv, PipelineTypeOK, StoresTypeOK
    <2>2. topic[p][o] \in Task
      BY <2>1
    <2>3. <<topic[p][o].user, topic[p][o].file>> \in Key
      BY <2>2 DEF Task, Key
    <2> QED
      BY <1>1, <2>3, WritesItsRecord DEF TasksRecorded, Present
  <1>4. ASSUME NEW d \in Consumer, Holds(d)' PROVE Progress(d)'
    <2>1. CASE d = c
      BY <1>2, <2>1 DEF Outcome
    <2>2. CASE d # c
      BY <1>1, <1>4, <2>2 DEF SameMessage, OneWorker, Holds
    <2> QED
      BY <2>1, <2>2
  <1>5. ASSUME NEW x \in User, NEW y \in File, fileUpload'[<<x, y>>].vstatus = "success"
        PROVE  Indexed(x, y)'
    <2>1. <<x, y>> \in Key /\ TaskOf(c)' = TaskOf(c)
      BY <1>1, StepRecord DEF Key
    <2>2. CASE <<x, y>> = RecordOf(c)
      <3>1. x = TaskOf(c).user /\ y = TaskOf(c).file
        BY <2>2 DEF RecordOf
      <3> QED
        BY <1>2, <1>5, <2>1, <2>2, <3>1 DEF Outcome
    <2>3. CASE <<x, y>> # RecordOf(c)
      <3>1. fileUpload'[<<x, y>>] = fileUpload[<<x, y>>]
        BY <2>1, <2>3, WritesItsRecord
      <3>2. Indexed(x, y)
        BY <1>5, <3>1 DEF SuccessInv
      <3> QED
        BY <1>1, <2>3, <3>1, <3>2, OtherDocuments DEF Indexed
    <2> QED
      BY <2>2, <2>3
  <1> QED
    BY <1>3, <1>4, <1>5 DEF SuccessInv

LEMMA SubmitSuccess ==
    ASSUME TypeInv, SuccessInv, NEW u \in User, NEW f \in File, NEW v \in Visibility, Submit(u, f, v)
    PROVE  SuccessInv'
  <1>1. UNCHANGED <<vectors, es, cons>>
    BY DEF Submit, consumerVars
  <1>2. fileUpload \in [Key -> Row] /\ <<u, f>> \in Key /\ nextId # 0
    BY DEF TypeInv, PipelineTypeOK, StoresTypeOK, Key
  <1>3. /\ \A k \in Key : Present(fileUpload[k]) => fileUpload'[k] = fileUpload[k]
        /\ \A k \in Key : fileUpload'[k].vstatus = "success" => fileUpload'[k] = fileUpload[k]
        /\ Present(fileUpload'[<<u, f>>]) /\ fileUpload'[<<u, f>>].vis = v
    BY <1>2 DEF Submit, Present
  <1>4. TasksRecorded'
    <2>1. PICK p \in Partition :
              /\ Len(topic'[p]) = Len(topic[p]) + 1
              /\ topic'[p][Len(topic[p]) + 1] = [user |-> u, file |-> f, vis |-> v]
              /\ \A o \in 1 .. Len(topic[p]) : topic'[p][o] = topic[p][o]
              /\ \A q \in Partition \ {p} : topic'[q] = topic[q]
      BY SubmitGrows
    <2> SUFFICES ASSUME NEW q \in Partition, NEW o \in 1 .. Len(topic'[q])
                 PROVE  /\ Present(fileUpload'[<<topic'[q][o].user, topic'[q][o].file>>])
                        /\ fileUpload'[<<topic'[q][o].user, topic'[q][o].file>>].vis = topic'[q][o].vis
      BY DEF TasksRecorded
    <2>2. topic[q] \in Seq(Task) /\ Len(topic[q]) \in Nat
      BY DEF TypeInv, PipelineTypeOK, StoresTypeOK
    <2>3. CASE q = p /\ o = Len(topic[p]) + 1
      BY <1>3, <2>1, <2>3
    <2>4. CASE ~(q = p /\ o = Len(topic[p]) + 1)
      <3>1. o \in 1 .. Len(topic[q]) /\ topic'[q][o] = topic[q][o]
        BY <2>1, <2>2, <2>4
      <3>2. topic[q][o] \in Task
        BY <2>2, <3>1
      <3>3. <<topic[q][o].user, topic[q][o].file>> \in Key
        BY <3>2 DEF Task, Key
      <3> QED
        BY <1>3, <3>1, <3>3 DEF SuccessInv, TasksRecorded
    <2> QED
      BY <2>3, <2>4
  <1>5. ASSUME NEW d \in Consumer, Holds(d)' PROVE Progress(d)'
    <2>1. Holds(d) /\ Progress(d)
      BY <1>1, <1>5 DEF Holds, SuccessInv
    <2>2. [PipelineNext]_pipelineVars
      BY DEF PipelineNext
    <2>3. TaskOf(d)' = TaskOf(d)
      BY <1>1, <2>1, <2>2, SameTask
    <2>4. fileUpload'[RecordOf(d)] = fileUpload[RecordOf(d)]
      BY <1>3, <2>1, TaskRecorded DEF SuccessInv
    <2> QED
      BY <1>1, <2>1, <2>3, <2>4 DEF Progress, RecordOf, RowsRead, RowsSaved, Indexing, TaskRows,
                                    Jobs, RowsOf
  <1>6. ASSUME NEW x \in User, NEW y \in File, fileUpload'[<<x, y>>].vstatus = "success"
        PROVE  Indexed(x, y)'
    <2>1. fileUpload'[<<x, y>>] = fileUpload[<<x, y>>]
      BY <1>3, <1>6 DEF Key
    <2> QED
      BY <1>1, <1>6, <2>1 DEF SuccessInv, Indexed, RowsOf
  <1> QED
    BY <1>4, <1>5, <1>6 DEF SuccessInv

(* The steps of the group and the fetches and commits change no store, and *)
(* a consumer goes on, starts or has nothing.                              *)
LEMMA OtherSuccess ==
    ASSUME TypeInv, SuccessInv,
           UNCHANGED pipelineVars \/ GroupStep \/ (\E c \in Consumer : Fetch(c) \/ Commit(c))
    PROVE  SuccessInv'
  <1>1. UNCHANGED <<fileUpload, topic, vectors, es>> /\ PipelineTypeOK
    BY DEF TypeInv, pipelineVars, storeVars, uploadStores, GroupStep, FetchError, ConsumerCrash,
           Reassign, Rebalance, Assign, Fetch, Commit
  <1>2. ASSUME NEW d \in Consumer, Holds(d)'
        PROVE  cons'[d] = cons[d] \/ (cons'[d].pc = "start" /\ cons'[d].inflight = {})
    <2>1. CASE UNCHANGED cons
      BY <2>1
    <2>2. ASSUME NEW c \in Consumer, Commit(c) \/ ConsumerCrash(c)
          PROVE  cons'[d] = cons[d]
      BY <1>1, <1>2, <2>2, FetchingTyped DEF Commit, ConsumerCrash, PipelineTypeOK, Holds
    <2>3. ASSUME NEW c \in Consumer, Fetch(c)
          PROVE  cons'[d] = cons[d] \/ (cons'[d].pc = "start" /\ cons'[d].inflight = {})
      <3>1. PICK p \in Partition : cons' = [cons EXCEPT ![c] = Attempt(p, position[p] + 1, 1)]
        BY <2>3 DEF Fetch, Attempt
      <3> QED
        BY <1>1, <3>1 DEF Attempt, Fetching, PipelineTypeOK
    <2>4. ASSUME \/ \E c \in Consumer : FetchError(c)
                 \/ \E p \in Partition, c \in Consumer : Reassign(p, c) \/ Rebalance(p, c)
                 \/ UNCHANGED pipelineVars
          PROVE  UNCHANGED cons
      BY <2>4 DEF FetchError, Reassign, Rebalance, Assign, pipelineVars, consumerVars
    <2> QED
      BY <2>1, <2>2, <2>3, <2>4 DEF GroupStep
  <1>3. ASSUME NEW d \in Consumer, Holds(d)' PROVE Progress(d)'
    <2>1. CASE cons'[d] = cons[d]
      <3>1. Holds(d) /\ Progress(d)
        BY <1>3, <2>1 DEF Holds, SuccessInv
      <3>2. TaskOf(d)' = TaskOf(d)
        BY <1>1, <2>1 DEF TaskOf
      <3> QED
        BY <1>1, <2>1, <3>1, <3>2 DEF Progress, RecordOf, RowsRead, RowsSaved, Indexing, TaskRows,
                                      Jobs, RowsOf
    <2>2. CASE cons'[d].pc = "start" /\ cons'[d].inflight = {}
      BY <2>2 DEF Progress
    <2> QED
      BY <1>2, <1>3, <2>1, <2>2
  <1> QED
    BY <1>1, <1>3 DEF SuccessInv, TasksRecorded, Indexed, RowsOf

LEMMA SuccessStep ==
    ASSUME StatusesWritten
    PROVE  TypeInv /\ OneWorker /\ RowsOnce /\ SuccessInv /\ [PipelineNext]_pipelineVars => SuccessInv'
  BY ProcessSuccess, SubmitSuccess, OtherSuccess DEF PipelineNext, ConsumerNext, ConsumerStep

LEMMA SuccessInit == PipelineAloneInit => SuccessInv
  <1> SUFFICES ASSUME PipelineAloneInit PROVE SuccessInv
    OBVIOUS
  <1>1. \A c \in Consumer : ~Holds(c)
    BY FetchingTyped DEF PipelineAloneInit, PipelineInit, Holds
  <1>2. TasksRecorded
    BY DEF PipelineAloneInit, StoresInit, TasksRecorded
  <1>3. \A k \in Key : fileUpload[k].vstatus = "pending"
    BY DEF PipelineAloneInit, StoresInit, NoRow
  <1> QED
    BY <1>1, <1>2, <1>3 DEF SuccessInv, Key

LEMMA SuccessInvariant ==
    ASSUME OnePartition, NoRebalance, RowsCleaned, StatusesWritten
    PROVE  PipelineSpec => []SuccessInv
  <1>1. TypeInv /\ OwnersHold => OneWorker
    BY WorksAlone
  <1>2. PipelineSpec => []RowsOnce
    BY RowsOnceInvariant
  <1> QED
    BY SuccessInit, <1>1, <1>2, TypeInvariant, OwnersInvariant, SuccessStep, PTL DEF PipelineSpec

(* A document shown as successful is searchable in full, with the          *)
(* visibility of its record, and shows as many chunks as it has; whatever  *)
(* fails and crashes on the way, but for a status update or the cleaning,  *)
(* with one partition and without rebalances.                              *)
THEOREM SuccessIsSearchable ==
    ASSUME OnePartition, NoRebalance, RowsCleaned, StatusesWritten
    PROVE  PipelineSpec => []SuccessIndexed
  <1>1. SuccessInv => SuccessIndexed
    BY DEF SuccessInv, SuccessIndexed, Indexed
  <1> QED
    BY <1>1, SuccessInvariant, PTL
=============================================================================
