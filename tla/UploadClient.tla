---------------------------- MODULE UploadClient ----------------------------
(***************************************************************************)
(* The upload queue of the browser: a list of tasks, of which at most      *)
(* Limit are uploaded at a time, each by a loop that sends one chunk after *)
(* the other and then asks for the merge.  The code runs in one thread: an *)
(* action of the client is what runs between two awaits, and clicks,       *)
(* replies and reloads come in any order.  The server is reduced to what   *)
(* module Upload shows of it: a status, a bitmap, a cleanup that is late.  *)
(***************************************************************************)
EXTENDS Integers, Sequences, SequencesExt, FiniteSets, FiniteSetsExt

CONSTANTS
    File,        \* files by MD5
    Chunks,      \* number of chunks of a file
    Public,      \* files that other users have uploaded and made public
    Limit,       \* uploads at a time, 3 in the code
    MaxObject,   \* bound: task objects alive at a time
    MaxCommands  \* bound: clicks of the user

ASSUME UploadClientAssumption ==
    /\ File # {} /\ Chunks \in [File -> Nat]
    /\ Public \subseteq File
    /\ Limit \in Nat \ {0} /\ MaxObject \in Nat \ {0} /\ MaxCommands \in Nat

ChunkIds(f) == 0 .. Chunks[f] - 1
Object == 1 .. MaxObject

(* A row that came from the server has neither its file ("known") nor a    *)
(* list of uploaded chunks; the reply to a loop of an earlier row of that  *)
(* file gives it a list, which is not empty.                               *)
Task == [file : File, status : {"Uploading", "Completed", "Pending", "Break"},
         known : BOOLEAN, up : SUBSET UNION {ChunkIds(f) : f \in File}]

VARIABLES
    object,    \* the task objects, by reference
    tasks,     \* the list: references in order
    active,    \* activeUploads
    loops,     \* the running startUploads
    asked,     \* the other requests of the page that wait for their reply
    commands,  \* number of clicks
    record,    \* server: the upload record of this user
    marks,     \* server: its bitmap
    cleaning   \* server: the merges whose cleanup is still to come

serverVars == <<record, marks, cleaning>>
uploadClientVars == <<object, tasks, active, loops, asked, commands, serverVars>>

(* A run of startUpload: its own task object, the chunk it is at, what it  *)
(* awaits, and the reply once the server has made it.                      *)
Loop == [object : Object, file : File, chunk : Nat, awaits : {"chunk", "merge"},
         reply : {"none", "ok", "error"}, up : SUBSET Nat]

Asked == [kind : {"status"}, object : Object, up : SUBSET Nat]
         \cup [kind : {"list"}, files : SUBSET File]
         \cup [kind : {"delete"}, index : Nat, file : File, reply : {"none", "ok", "error"}]

UploadClientInit ==
    /\ object = [n \in Object |-> [file |-> CHOOSE f \in File : TRUE, status |-> "Break",
                                   known |-> FALSE, up |-> {}]]
    /\ tasks = <<>>
    /\ active = {}
    /\ loops = {}
    /\ asked = {}
    /\ commands = 0
    /\ record = [f \in File |-> "none"]
    /\ marks = [f \in File |-> {}]
    /\ cleaning = [f \in File |-> 0]

(* findIndex: the first row of the list with this MD5.                     *)
Rows(ts, o, f) == {i \in DOMAIN ts : o[ts[i]].file = f}
Listed(f) == Rows(tasks, object, f) # {}
Find(f) == tasks[Min(Rows(tasks, object, f))]

SetStatus(f, status) ==
    IF Listed(f) THEN [object EXCEPT ![Find(f)].status = status] ELSE object

(* An object that nothing refers to any more may be a new one.             *)
FreeObjects ==
    Object \ (Range(tasks) \cup {l.object : l \in loops}
              \cup {a.object : a \in {b \in asked : b.kind = "status"}})

-----------------------------------------------------------------------------
(* Where a loop goes on: the next chunk not yet in its own task's list, or *)
(* nowhere.                                                                *)
Remaining(t, from) == {i \in ChunkIds(t.file) : i >= from /\ i \notin t.up}

LoopAt(n, f, chunk, awaits) ==
    [object |-> n, file |-> f, chunk |-> chunk, awaits |-> awaits,
     reply |-> "none", up |-> {}]

(* The first request of startUpload: the merge if every chunk is uploaded. *)
Enters(n, t) ==
    IF Cardinality(t.up) = Chunks[t.file] THEN LoopAt(n, t.file, 0, "merge")
    ELSE LoopAt(n, t.file, Min(Remaining(t, 0)), "chunk")

Eligible(ts, o, a) ==
    {i \in DOMAIN ts : o[ts[i]].status = "Pending" /\ o[ts[i]].file \notin a}

(* Mutant: one more than the limit.                                        *)
HasSlotOneMore(a) == Cardinality(a) <= Limit

HasSlot(a) == Cardinality(a) < Limit

(* A task without its file can do no more than ask for the merge.          *)
CanAsk(t) == t.known \/ (t.up # {} /\ Cardinality(t.up) = Chunks[t.file])

(* startUpload up to its first request, for a list ts of objects o.  A     *)
(* task that can send none throws, becomes Break and lets the next start.  *)
StartUpload(ts, o, a, ls) ==
    LET pending == Eligible(ts, o, a)
        ready == {i \in pending : CanAsk(o[ts[i]])}
        broken == {ts[i] : i \in {j \in pending : \A k \in ready : j < k}}
        breaks == [n \in Object |->
                      IF n \in broken THEN [o[n] EXCEPT !.status = "Break"] ELSE o[n]]
    IN  /\ tasks' = ts
        /\ \/ /\ ~HasSlot(a)
              /\ object' = o /\ active' = a /\ loops' = ls
           \/ /\ HasSlot(a) /\ ready = {}
              /\ object' = breaks /\ active' = a /\ loops' = ls
           \/ /\ HasSlot(a) /\ ready # {}
              /\ LET n == ts[Min(ready)] IN
                 /\ object' = [breaks EXCEPT ![n].status = "Uploading"]
                 /\ active' = a \cup {o[n].file}
                 /\ loops' = ls \cup {Enters(n, o[n])}

-----------------------------------------------------------------------------
(* Clicks.                                                                 *)
Click == commands < MaxCommands /\ commands' = commands + 1

NewTask(f) == [file |-> f, status |-> "Pending", known |-> TRUE, up |-> {}]

(* Mutant: an interrupted task is not looked for.                          *)
EnqueueUploadAgain(f) ==
    /\ Listed(f) => object[Find(f)].status = "Break"
    /\ FreeObjects # {}
    /\ LET n == Min(FreeObjects) IN
       StartUpload(Append(tasks, n), [object EXCEPT ![n] = NewTask(f)], active, loops)
    /\ UNCHANGED <<asked, serverVars>>

(* enqueueUpload once the MD5 is known: nothing is awaited from the look   *)
(* at the list to the start.                                               *)
EnqueueUpload(f) ==
    /\ \/ /\ ~Listed(f)
          /\ FreeObjects # {}
          /\ LET n == Min(FreeObjects) IN
             StartUpload(Append(tasks, n), [object EXCEPT ![n] = NewTask(f)], active, loops)
       \/ /\ Listed(f) /\ object[Find(f)].status = "Break"
          /\ StartUpload(tasks, SetStatus(f, "Pending"), active, loops)
    /\ UNCHANGED <<asked, serverVars>>

(* The upload dialog: "save" is clicked, perhaps again.                    *)
HandleSubmit(f) == Click /\ EnqueueUpload(f)

(* resumeUpload: the row still has its file.                               *)
ResumeUpload(i) ==
    /\ Click
    /\ object[tasks[i]].known /\ object[tasks[i]].status = "Break"
    /\ StartUpload(tasks, [object EXCEPT ![tasks[i]].status = "Pending"], active, loops)
    /\ UNCHANGED <<asked, serverVars>>

(* onBeforeUpload: the row has lost its file, the user chose it again, and *)
(* the server is asked for the bitmap.  The request is its answer: nothing *)
(* happens between the click and the server's look at the bitmap.          *)
AskStatus(i) ==
    LET t == object[tasks[i]] IN
    /\ Click
    /\ ~t.known /\ t.status = "Break"
    /\ record[t.file] # "none"
    /\ asked' = asked \cup {[kind |-> "status", object |-> tasks[i], up |-> marks[t.file]]}
    /\ UNCHANGED <<object, tasks, active, loops, serverVars>>

(* The page is opened.  It lists completed files only, the user's own and  *)
(* the public ones; the loops of an earlier visit go on.                   *)
OpenPage ==
    /\ Click
    /\ asked' = asked \cup
          {[kind |-> "list", files |-> Public \cup {f \in File : record[f] = "completed"}]}
    /\ UNCHANGED <<object, tasks, active, loops, serverVars>>

(* handleDelete: requests of the row's chunks are cancelled, which fails   *)
(* them, served or not; a row without any chunk goes at once; for any      *)
(* other the server is asked, and the index of the row is remembered.      *)
Cancelled(l, n) ==
    IF l.object = n /\ l.awaits = "chunk" THEN [l EXCEPT !.reply = "error"] ELSE l

HandleDelete(f) ==
    LET i == Min(Rows(tasks, object, f)) IN
    /\ Click
    /\ Listed(f)
    /\ loops' = {Cancelled(l, tasks[i]) : l \in loops}
    /\ IF object[tasks[i]].known /\ object[tasks[i]].up = {}
       THEN tasks' = RemoveAt(tasks, i) /\ UNCHANGED asked
       ELSE /\ asked' = asked \cup {[kind |-> "delete", index |-> i, file |-> f, reply |-> "none"]}
            /\ UNCHANGED tasks
    /\ UNCHANGED <<object, active, serverVars>>

-----------------------------------------------------------------------------
(* The server, as the upload and document services answer.  Any call may   *)
(* fail, with or without its effect.                                       *)
Answer(l, reply, up) == loops' = (loops \ {l}) \cup {[l EXCEPT !.reply = reply, !.up = up]}

ServeChunk(l) ==
    /\ l.awaits = "chunk" /\ l.reply = "none"
    /\ marks' = [marks EXCEPT ![l.file] = @ \cup {l.chunk}]
    /\ record' = [record EXCEPT ![l.file] = IF @ = "none" THEN "uploading" ELSE @]
    /\ Answer(l, "ok", marks'[l.file]) \/ Answer(l, "error", {})
    /\ UNCHANGED <<object, tasks, active, asked, commands, cleaning>>

ServeMerge(l) ==
    /\ l.awaits = "merge" /\ l.reply = "none"
    /\ record[l.file] # "none" /\ marks[l.file] = ChunkIds(l.file)
    /\ record' = [record EXCEPT ![l.file] = "completed"]
    /\ cleaning' = [cleaning EXCEPT ![l.file] = @ + 1]
    /\ Answer(l, "ok", {}) \/ Answer(l, "error", {})
    /\ UNCHANGED <<object, tasks, active, asked, commands, marks>>

ServeError(l) ==
    /\ l.reply = "none"
    /\ Answer(l, "error", {})
    /\ UNCHANGED <<object, tasks, active, asked, commands, serverVars>>

ServeDelete(a) ==
    /\ a.kind = "delete" /\ a.reply = "none"
    /\ \/ /\ record[a.file] # "none"
          /\ record' = [record EXCEPT ![a.file] = "none"]
          /\ \E r \in {"ok", "error"} : asked' = (asked \ {a}) \cup {[a EXCEPT !.reply = r]}
       \/ asked' = (asked \ {a}) \cup {[a EXCEPT !.reply = "error"]} /\ UNCHANGED record
    /\ UNCHANGED <<object, tasks, active, loops, commands, marks, cleaning>>

Cleanup(f) ==
    /\ cleaning[f] > 0
    /\ cleaning' = [cleaning EXCEPT ![f] = @ - 1]
    /\ marks' = [marks EXCEPT ![f] = {}]
    /\ UNCHANGED <<object, tasks, active, loops, asked, commands, record>>

-----------------------------------------------------------------------------
(* Replies, each with all that runs until the next await.                  *)
(* Mutant: the next upload is not started.                                 *)
FinallyIdle(l, o) ==
    /\ object' = o /\ tasks' = tasks
    /\ active' = active \ {l.file} /\ loops' = loops \ {l}

(* finally: the slot is given back and the next upload started.            *)
Finally(l, o) == StartUpload(tasks, o, active \ {l.file}, loops \ {l})

(* catch: the row of the MD5 becomes Break, if there still is one.         *)
Throws(l) == Finally(l, SetStatus(l.file, "Break"))

Continue(l, o) ==
    LET left == Remaining(o[l.object], l.chunk + IF l.awaits = "chunk" THEN 1 ELSE 0) IN
    IF left = {} THEN Finally(l, o)
    ELSE IF ~o[l.object].known THEN Throws(l)
    ELSE /\ object' = o
         /\ loops' = (loops \ {l}) \cup {LoopAt(l.object, l.file, Min(left), "chunk")}
         /\ UNCHANGED <<tasks, active>>

(* A chunk: the row of the MD5, not the loop's own task, gets the list of  *)
(* uploaded chunks; without such a row the code throws.                    *)
ReplyChunk(l) ==
    /\ l.awaits = "chunk" /\ l.reply = "ok"
    /\ IF ~Listed(l.file) THEN Throws(l)
       ELSE LET o == [object EXCEPT ![Find(l.file)].up = l.up] IN
            IF Cardinality(l.up) = Chunks[l.file]
            THEN /\ object' = o
                 /\ loops' = (loops \ {l}) \cup {LoopAt(l.object, l.file, l.chunk + 1, "merge")}
                 /\ UNCHANGED <<tasks, active>>
            ELSE Continue(l, o)
    /\ UNCHANGED <<asked, commands, serverVars>>

(* mergeFile; without a row it throws inside its own catch, and fails.     *)
ReplyMerge(l) ==
    /\ l.awaits = "merge" /\ l.reply = "ok"
    /\ IF Listed(l.file) THEN Continue(l, SetStatus(l.file, "Completed")) ELSE Throws(l)
    /\ UNCHANGED <<asked, commands, serverVars>>

ReplyError(l) ==
    /\ l.reply = "error"
    /\ Throws(l)
    /\ UNCHANGED <<asked, commands, serverVars>>

(* The row that was clicked is changed, whether it is still listed or not. *)
StatusReply(a) ==
    /\ a.kind = "status"
    /\ asked' = asked \ {a}
    /\ StartUpload(tasks, [object EXCEPT ![a.object] =
                              [@ EXCEPT !.known = TRUE, !.status = "Pending", !.up = a.up]],
                   active, loops)
    /\ UNCHANGED <<commands, serverVars>>

(* getList: an empty reply, and a failed one, clears the list; otherwise   *)
(* the listed files are completed, whatever the client is doing with them, *)
(* or added.                                                               *)
ListReply(a) ==
    LET new == {f \in a.files : ~Listed(f)} IN
    /\ a.kind = "list"
    /\ asked' = asked \ {a}
    /\ \/ tasks' = <<>> /\ UNCHANGED object
       \/ /\ a.files # {} /\ Cardinality(FreeObjects) >= Cardinality(new)
          /\ \E row \in [new -> FreeObjects] :
                /\ IsInjective(row)
                /\ tasks' = tasks \o SetToSeq({row[f] : f \in new})
                /\ object' = [n \in Object |->
                      IF \E f \in new : row[f] = n
                      THEN [file |-> CHOOSE f \in new : row[f] = n,
                            status |-> "Completed", known |-> FALSE, up |-> {}]
                      ELSE IF \E f \in a.files : Listed(f) /\ Find(f) = n
                      THEN [object[n] EXCEPT !.status = "Completed"] ELSE object[n]]
    /\ UNCHANGED <<active, loops, commands, serverVars>>

(* The row at the remembered index goes, whichever it is by now.           *)
DeleteReply(a) ==
    /\ a.kind = "delete" /\ a.reply # "none"
    /\ asked' = asked \ {a}
    /\ tasks' = IF a.reply = "ok" /\ a.index <= Len(tasks)
                THEN RemoveAt(tasks, a.index) ELSE tasks
    /\ UNCHANGED <<object, active, loops, commands, serverVars>>

StatusError(a) ==
    /\ a.kind = "status"
    /\ asked' = asked \ {a}
    /\ UNCHANGED <<object, tasks, active, loops, commands, serverVars>>

Ends(l) == ServeError(l) \/ ReplyChunk(l) \/ ReplyMerge(l) \/ ReplyError(l)

LoopStep(l) == ServeChunk(l) \/ ServeMerge(l) \/ Ends(l)

PageStep(a) ==
    StatusReply(a) \/ ListReply(a) \/ ServeDelete(a) \/ DeleteReply(a) \/ StatusError(a)

UserStep ==
    \/ \E f \in File : HandleSubmit(f) \/ HandleDelete(f)
    \/ \E i \in DOMAIN tasks : ResumeUpload(i) \/ AskStatus(i)
    \/ OpenPage

UploadClientNext ==
    \/ \E l \in loops : LoopStep(l)
    \/ \E a \in asked : PageStep(a)
    \/ UserStep
    \/ \E f \in File : Cleanup(f)

UploadClientSpec == UploadClientInit /\ [][UploadClientNext]_uploadClientVars

(* A request that is not answered fails by the timeout of its client, and  *)
(* replies are handled.                                                    *)
FairUploadClientSpec == UploadClientSpec /\ WF_uploadClientVars(\E l \in loops : Ends(l))

-----------------------------------------------------------------------------
UploadClientTypeOK ==
    /\ object \in [Object -> Task]
    /\ \A i \in DOMAIN tasks : tasks[i] \in Object
    /\ active \subseteq File
    /\ \A l \in loops : l \in Loop
    /\ \A a \in asked : a \in Asked
    /\ commands \in 0 .. MaxCommands
    /\ record \in [File -> {"none", "uploading", "completed"}]
    /\ \A f \in File : marks[f] \subseteq ChunkIds(f)

(* However uploads fail, are deleted, resumed and enqueued again while the *)
(* old loop still runs, there is one loop per active file, at most Limit.  *)
LimitKept ==
    /\ Cardinality(active) <= Limit
    /\ Cardinality(loops) = Cardinality(active)
    /\ {l.file : l \in loops} = active

(* A file has one row, so that every look-up by MD5 finds the row meant.   *)
OneRowPerFile == \A f \in File : Cardinality(Rows(tasks, object, f)) <= 1

(* Once the user stops, no task stays pending: the loops that end start    *)
(* the next ones until the queue is empty.                                 *)
Waiting == \E i \in DOMAIN tasks : object[tasks[i]].status = "Pending"
QueueDrains == Waiting ~> ~Waiting
=============================================================================
