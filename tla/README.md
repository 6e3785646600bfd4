# Verification of Zebra-RAG

Zebra-RAG is a retrieval-augmented question answering system: users upload
documents in chunks, a pipeline turns them into searchable vectors, and a chat
answers questions from them.  This directory holds TLA+ models of its core,
the TLC runs that check them on small instances, and TLAPS proofs about them.
`PROJECT.json` maps every definition to the lines of source it models.

## 1. The system

Two Go processes (`cmd/server`, `cmd/worker`), a Vue frontend, and six stores.

| Component | State | Operations | Talks to |
|---|---|---|---|
| Upload service (`service/upload_service.go`) | `file_upload`, `chunk_info`, Redis bitmap per user and MD5, `chunks/{md5}/{i}` and `merged/{md5}` in MinIO | CheckFile, UploadChunk, MergeChunks, GetUploadStatus, FastUpload | MySQL, Redis, MinIO; sends a task to Kafka |
| Kafka consumers (`infra/kafka/client.go`) | offsets, the message at hand, the attempt | fetch, process up to 3 times, commit | pipeline |
| Pipeline (`pipeline/processor.go`) | `document_vectors`, Elasticsearch, the vectorised status in `file_upload` | Process: download, parse, chunk, caption, clean, save, read back, embed and index in 4 goroutines, write the status | all stores, parser, vision and embedding services |
| Document service (`service/document_service.go`) | the same stores | list, download, preview, DeleteDocument with a reference count by MD5 | all stores |
| Browser: upload queue (`store/modules/knowledge-base`, `views/knowledge-base`) | list of upload tasks, active uploads | enqueue, start, upload chunks, merge, resume, delete | upload API |
| Browser: session and routing (`store/modules/auth`, `store/modules/route`, `router/guard`) | token, user, registered routes, pending navigations | log in, end a session, navigate, guard, redirect | local storage, login API |
| Browser: requests (`packages/axios`, `service/request`) | running calls, the shared refresh | call, refresh, retry, end the session | every API |
| Browser: tabs, tables, organisation tags, login pages, chat page, layout, theme | see section 3 | see section 3 | their APIs, local storage |
| Conversations (`service/conversation_service.go`, `repository/conversation_repository.go`) | Redis: metadata, index and history of each conversation, 7 days | create, list, touch, archive, delete, append | chat service |
| Chat (`service/chat_service.go`, `module/chat/handler.go`) | one WebSocket loop per connection, a stop flag | ask, stream, stop, save | conversations, search, language model |
| Search (`service/search_service.go`) | result cache in Redis | dense, sparse and keyword recall, rank fusion, rerank | Elasticsearch, embedding |
| Users, organisation tags (`service/user_service.go`, `admin_service.go`) | users, tag tree | register, assign tags, edit the tree, effective tags | MySQL, Redis |
| Tokens (`pkg/token`, `middleware/auth.go`, frontend `service/request`) | JWTs, a blacklist in Redis | login, refresh, logout | Redis |
| Rate limit, WebSocket sessions, summarisation, chunking, parsing, evaluation, start-up | see `PROJECT.json` "components" | | |

Components meet in the shared stores rather than through calls: an upload
request, its background cleanup, another user's upload of the same MD5, a
deletion and one or more consumers all write the same rows and objects, with no
transaction or lock across stores.  What is hard:

* every handler is a sequence of round trips to different stores, any of which
  may fail, and the server may die between two of them;
* chunk objects and merged objects are keyed by MD5 and shared by users, while
  bitmaps, rows and index documents are keyed by user and MD5;
* messages are redelivered after a crash or a rebalance, and retried after a
  failure, over what the attempt before wrote;
* the deletion's reference count is read once and acted on later;
* Redis values of conversations are read, changed and written back;
* the browser runs one thread, but every `await` lets clicks, replies, timers and
  other navigations in: what was read before it is old after it, replies come in
  another order than their requests, and an awaited navigation may be superseded;
* windows share local storage, and a page may end before it has cached anything.

`PROJECT.json` lists the hazards with the line where each bites and the
properties that cover it.

## 2. Plan

Written:

1. `Stores`, `Upload`, `TaskQueue`, `Pipeline`, `Document`, `Ingestion`: the
   ingestion path, which all other functions depend on.  `TaskQueue` is the
   abstract specification that the consumers implement.
2. `UploadProofs`, `PipelineProofs`, `DocumentProofs`, `ConversationProofs`,
   `FrontendProofs`: the safety invariants of the components with
   their inductive invariants, and the refinement of `TaskQueue` and of `Calls`;
   `FrontendTypeProofs`: the types of all parts of the browser;
   `IngestionProofs`: which of them survive when the components of the ingestion path
   run together, and what holds from the upload to the index (section 6).
3. `Conversation`: the Redis read-modify-writes and the chat that saves an answer
   while the conversation is deleted, archived or used by a second connection; the
   stop command against the stream.
4. `UploadClient`: the browser's queue with its concurrency limit.
5. `Session`, `Requests` with the abstract `Calls`, `Tabs`, `ChatClient`, `Table`,
   `OrgTags`, `Accounts`, `RouteTree`, `Layout`, `Theme`: the browser's stores and
   pages that keep state across awaits, and what they ask of the server.

Left:

6. Search with its cache, and the effective tags of users with the visibility of
   documents, which nothing here models; the liveness properties stay with TLC.

## 3. Modules

**Stores** declares one variable per store and one operator per repository
method that the handlers call.  An operator is one round trip, hence atomic.
`file_upload` is a function of its unique key (user, MD5); a row with id 0 is no
row, which is what an AUTO_INCREMENT column never holds.  `vectors` is a bag of
rows, because the table has no unique key and a row may be inserted twice.
Elasticsearch is a set keyed by (MD5, user, chunk) as its document ids are.
Data that no property tells apart is left out: sizes (a file has a number of
chunks), token counts, texts, and file names but for their type (see `Upload`).  The pair of organisation tag and public
flag is one value, `vis`.  A fault (`Faulty`, `MayFail`) is a call that returns
an error and has no effect.

**Upload** is `UploadChunk` and `MergeChunks`.  `req[w]` is what goroutine `w`
serves and which call is next (`pc`); an action is one call with the control
around it.  `MergeChunks` answers after `Produce`; its goroutine then is the
background cleanup, which may be overtaken by anything.  `CallError` ends a
request at the call it is about to make; `Crash` drops all requests.  The type of a
file is that of the name a request carries: each request of one upload has any name
of `Name`, chunk 0 alone is checked for a name of `Supported`, and `checked` is a
history variable with the uploads whose chunk 0 went through.

**TaskQueue** says what the consumer group promises: tasks of a partition are
settled in order, and the committed offset never passes an unsettled one.

**Pipeline** is `consume` and `Process`.  `cons[c]` is the activity of consumer
`c`; `settled` is a history variable.  The group protocol is external: a
partition has one owner, a new owner starts after the committed offset, and a
consumer that lost its partition keeps the message it holds and may still commit
it.  `Submit` is the environment when the module is checked alone: the effect of
a merge.

**Document** is `DeleteDocument`, started in a library of processed documents
when it is checked alone.

**Ingestion** composes the three over the same stores: every action of one
leaves the local state of the others unchanged, and a crash of the server drops
uploads and deletions together.

**Conversation** is the chat of WebSocket connections over the Redis values of
conversations.  `conn[c]` is what the goroutine of connection `c` does; it reads its
`inbox` only when it is idle, because the code that reads a message also streams
the answer.  Each Redis command is an action, each call has its error path, and
archive and delete requests (`rest`) read the metadata in one action and write in
another.  A conversation is named by the question that created it; `outcome` is a
history variable with the completions sent for a question.  Retrieval and the
model are calls that succeed, in any number of chunks, or fail.

**UploadClient** is the browser's store and the page that uses it.  The code is
single-threaded, so an action is what runs between two awaits; `startUpload` is an
operator that every place which calls it uses in its own action.  Task objects have an
identity (`object`), because a running loop keeps the object it started with while
replies look the row up by MD5: after a deletion and a new enqueue these differ.
The server is what `Upload` shows of it from outside: a status, a bitmap and a late
cleanup; the server's step and the handling of its reply are separate actions,
so replies come in another order than the server worked in.  `known` says that a row has its file:
one that came from the server has none, and can at most ask for the merge (`CanAsk`)
once the reply to an older loop has given it a full list of chunks.  A cancelled request
is one that failed, after the server served it or before; a request the server
serves only after its cancellation is left out.

**Session** is the auth store, the route store and the router's guard.  A
navigation is a record in `navs` that is where its promise is (guard, user
information, routes, page chunk, or the failure to load it, which rejects the promise
and throws in whatever awaits it); `pending` names the last one, the others are
superseded and end as such.  `Quiet` says that no promise job is left: events and
replies come only then, as the JavaScript engine has it.  `stored` is the token in
local storage, `token` the store's, `boot` what `$reset` gives back to the store.

**Requests** is the request layer: a call carries the token of the moment, an answer
that says "expired" makes it wait for the shared refresh (`refreshTokenFn`), which a
timer of each waiter forgets later.  Tokens are numbers.  **Calls** is what callers are
promised: every call is settled once.

**Tabs** is the tab store with its bar, and what the auth store does to the tabs.
`moves` are the navigations under way, each with what awaits it: the `update` of
`clearTabs`, the rest of `resetStore`, or nothing.  A session may end, and the next
begin, while one waits (`stale` marks those of an earlier session), and a view that does
not load drops what waits for it.  `userId` is the store's user, which late replies
(`infoDue`) change; each tab remembers who opened it, which the code does not, to state
the property.  **Table** is the paged table of users with its pager, search form and
column settings; `requests` holds what was asked, and answers come in any order.
**OrgTags** is the tag table and the tags of users on the server, the pages that edit
them from what they loaded before, and the saves under way.  A page may miss any of the
tags, since a failing lookup skips one; a user's row is read in one step and saved as a
whole in a later one, by assignments, by the choice of the main tag and by a registration
that created the row before; ids are compared as the code does, by substring (`Within`),
and the foreign key of the tag table (`docs/ddl.sql:33`) is part of saving and deleting a
tag.  **Accounts** is the login
page's forms with their rules and the registration on the server, statement by
statement.  **ChatClient** is the chat page: input, socket, list of conversations,
selection, removal, and frames that are added to the last message shown; the server
answers the messages of a socket in order.

**Filters** is the filter of a sequence that `Tabs` and `ChatClient` use.

**RouteTree** is no state machine but the functions of the route store, over every
forest of three routes and both roles; its properties compare them with definitions
that do not follow the tree.  **Layout** is the layout mode and the sider of each
window, the one backup they share, and, as functions of the mode, where each menu
puts its parts.  **Theme** is the settings of each window, their cache and the
override by a new build, and what the watches paint: the class and the filter of the
html element and the colours of the style sheet, beside what the components are given.
A click and the watches it fires are one step, since they run before the next event.
A palette has three of the eleven shades; a shade made from a colour is named by how
it was made, not computed.

Proofs are in modules of their own: **StoresProofs** has the lemmas about the operators
of `Stores`; **UploadProofs**, **PipelineProofs**, **DocumentProofs**, **ConversationProofs**
and **IngestionProofs** are about the modules they are named after, **FrontendProofs** about
those of the browser, and **FrontendTypeProofs** about their types and their composition.

**MCUpload**, **MCPipeline**,
**MCDocument**, **MCIngestion**, **MCConversation** and **MCFrontend** give the
constants their values.  **Frontend** puts the parts of the browser in one specification: they
share no variable, so its `part` chooses in Init which of them takes steps.  Running
them side by side would multiply the states and add no behaviour; where two parts do
meet in the code (the session ends under a request, tabs are cleared at a login) each
module has the other's effect as an action of its own.  Definitions commented "mutant"
are deliberate mistakes; `PROJECT.json` says which property finds each of them.

## 4. Runs

| Run | Question | Result |
|---|---|---|
| MCUpload_shared | two users, a document of two chunks, requests under supported and unsupported names, failing calls and crashes: do marks, rows, statuses and tasks stay consistent, and was the first chunk of a completed record checked? | holds |
| MCUpload_resume | is every chunk that the bitmap reports really stored? | violated: README.md:69 |
| MCPipeline_delivery | redelivery, rebalances, failing commits: is a task skipped or taken out of order, and does the group implement `TaskQueue`? | holds |
| MCPipeline_process | retries, exits, crashes: is a finished document complete, stored once, and is every task settled in the end if every call returns? | holds |
| MCPipeline_parallel | the same in two partitions at once | violated: README.md:101 |
| MCDocument_counting | does the reference count keep what is needed and remove the rest? | holds |
| MCIngestion_faults | all components with deletions, faults and crashes: is only searchable what was uploaded whole, and is every record whose task waits answered if every call returns? | holds |
| MCIngestion_refcount | a deletion against an upload of the same MD5 | violated: document_service.go:104 |
| MCIngestion_cascade | a deletion against the processing of the document | violated: README.md:123 |
| MCConversation_chat | two connections, archive and delete requests, failing calls and a crash: are histories whole, completions single, and does every question end if retrieval and stream return? | holds |
| MCConversation_stop | does a stop that is acknowledged stop the answer? | violated: handler.go:109, chat_service.go:303 |
| MCFrontend | the browser, part by part (below) | holds |

MCFrontend asks: does the upload queue keep its limit and one row per file, and
drain (`LimitKept`, `OneRowPerFile`, `QueueDrains`); do navigations settle, and does
the end of a session reset the routes, unless a view fails to load, and never send the
login page to itself (`GuardsSettle`, `ResetCompletes`, `NoNestedRedirect`); is every call settled once
through expired tokens and shared refreshes (`ImplementsCalls`); does nobody see the
tabs of another account but by the three ways that section 5 tells (`TabsOfAccount`); does the pager show the page of the rows
(`RowsMatchPager`); is a question sent once (`QuestionSentOnce`); does a private tag
survive every edit that starts from a row showing it (`PrivateTagKept`); is a registration that was told a success
complete (`RegistrationComplete`); do menus, search, breadcrumbs and router agree
(`RoutesOfRolesAgree`); does a window get its layout back, and has every menu its
place (`LayoutRestored`, `MenuReachable`); does the theme chosen last survive reloads
and new builds, and does the document show it (`ThemeKept`).

Bounds.  Two users are enough for sharing by MD5, because the code distinguishes
only "this user" and "some other user"; two goroutines make every pair of
requests overlap, and a third would repeat a role.  A two-chunk file has a
partial state; one- and zero-chunk files take the other branches.  `MaxId`
allows a row to be deleted and created again; `MaxTasks` allows a repeated
merge; two attempts are a first and a last one; `MaxGeneration` bounds crashes
and rebalances, one or two of which suffice for a redelivery and a stale owner.
In `Conversation` two connections of one user and two questions
make every pair of steps of two chats in one conversation, or in two, overlap; two
messages are kept, so the second exchange already pushes out the first; a third
question would go beyond five minutes.  In `UploadClient` one slot and two files make one wait; three clicks allow a file to
be enqueued, deleted and enqueued again while its old loop runs, or the page to be
reloaded.  In `Session` two navigations make one supersede the other, and two events
(a login, a click, an end of the session) come between them.  In `Tabs`
two accounts, two navigations and four clicks let one open two tabs, close one with a
wait, and end the session before it resumes in the next; in `OrgTags` two edits of one
registered user make one save a row over another.  Two calls and three
tokens in `Requests` make two waiters of one refresh and a second refresh; two
windows in `Layout` and `Theme` share a backup and a cache; five events in `Theme` are
a new build, a load, a choice and a reload; five resizes in `Layout` are a whole round
with clicks in between.  Three routes in `RouteTree` give every shape with a parent,
siblings and a grandchild.  In `Table` 25 users, two or three sizes and four requests
give a last page that is not full and answers that overtake.
The runs use symmetry of goroutines only in safety runs.  Deadlock is not
checked where the bounds make the system stop.

Fairness.  No call to another system is assumed to return where the code sets no
deadline.  Timeouts there are for the embedding (2 minutes), the vision model, sparse
vectors, the reranker, the layout parser (60 seconds) and, of the language model, for the
header of its answer only (90 seconds, `llm/client.go:48`); go-redis has its own.
Tika is called through `http.DefaultClient` (`tika/client.go:37`), MySQL, MinIO,
Elasticsearch and Kafka without a deadline, and the body of the model's stream is read
without one (`llm/client.go:197`).  So `FairPipelineSpec` and `FairIngestionSpec` have
weak fairness only of what a consumer does by itself (`Goes`: starting its goroutines and
waiting for them) and of the broker taking partitions from a consumer that left, which
its session timeout does; `TasksSettle` and `TaskAnswered` have the premise
`CallsReturn`: no consumer stays at a call for ever.  `FairConversationSpec` has weak
fairness of a connection's goroutine between its calls and of its Redis commands;
`QuestionsEnd` has the premise that no retrieval and no stream of that connection hangs.
What they show is that errors, retries, exits, crashes and lost commits block
nothing; that a hung call does is section 5's.  In `UploadClient`, requests of a loop fail by
their timeout (ten minutes for a chunk) or are
answered, and replies are handled; the clicks are bounded, because a user who
resumes earlier rows for ever starves later ones.  In `Session`, promise jobs run,
requests are answered or time out, and the chunk of a view comes or fails, as browsers
end a request; in `Requests`, the same and that timers fire.
None for requests, failures, crashes and rebalances.

## 5. Disagreements between the code and its documents

The violation runs show five, each with its counterexample: chunks reported as
uploaded that another user's merge removed; rows stored twice by two partitions;
a shared object removed under a new reference; documents that reappear when they
are deleted during processing; a stop that is acknowledged after the whole answer
was sent.  `NoDuplicateChunks` holds in `MCPipeline_process` only because consumers
leave the group there before another takes over; with rebalances ("Group" among the
faults) a consumer that lost its partition goes on with its message beside the new
owner, and rows are stored twice in a single partition as well.

Met while modelling, without a run of their own:

* a retry with fewer chunks (a caption that failed) leaves index documents of the
  attempt before it, since only `document_vectors` is cleaned;
* a user who deletes a file that another user also owns leaves own rows and index
  documents until the last reference goes;
* a conversation deleted while its answer streams gets its history written again
  (`chat_service.go:66` wants to avoid such orphans), and a touch that overlaps an
  archive or a delete undoes it;
* `handleDelete` (`views/knowledge-base/index.vue:210`) removes the row at an index
  taken before the request, whichever row that is by then; `getList` clears the whole
  list, uploads in progress included, when its reply is empty or an error;
* an upload loop that ends without a merge, because the bitmap was cleared under it,
  leaves its row "uploading" with nothing behind it;
* `/documents/accessible`, which the page lists, returns completed files only
  (`upload_repository.go:99`), so an interrupted upload is not offered for resumption
  once the page is loaded anew, although `getList` has a branch for it;
* the type of an upload is checked for the name that chunk 0 carries; the record has the
  name of the request that created it (`upload_service.go:123`) and the task that of the
  merge (276), so a record may be completed, and processed, under an unsupported name;
* a call to Tika, MinIO or Elasticsearch that never returns holds its consumer, and its
  partition, for good, and a stream of the model that stalls holds its connection, although
  `README.md:102` says that every external dependency has an explicit timeout "so slow
  dependencies cannot hang the worker"; the client of the model leaves out the overall
  timeout on purpose (`llm/client.go:42`).

In the browser:

* a session that ends while the first page after a login is loading leaves that page
  to a user who is logged out, which the guard (`router/guard/route.ts:53`) wants to
  exclude: it looked before the page was loaded;
* `resetStore` leaves `constantRoutes` and `authRoutes`, which the route store does not
  return and `$reset` does not reach, and gives the store the token it started with;
  user information asked for in an earlier session is applied when it comes;
* timers of earlier waiters forget a refresh that is under way, so a second one is
  started; the refresh's answer stores its tokens also after the session has ended.
  The server in `src/internal` sends none of the codes these branches wait for;
* the login page's view may fail to load: `toLogin` throws in `resetStore` then
  (`auth/index.ts:59`), and neither are the tabs cached nor the routes reset; `authInit`
  stays set, so that the next user is not given routes of their own;
* `clearTabs` writes back the tabs it computed before its navigation, and drops one
  opened meanwhile.  The tabs of one account are shown to the next in three ways: the user
  information fails at the login, so that `checkTabClear` is not reached
  (`auth/index.ts:147`); a reply asked for in an earlier session comes late and
  `recordUserId` notes its user at the end of this one (162, 73); `clearTabs`
  waits for a view while the session ends, and writes in the next one
  (`tab/index.ts:151`);
* after a first answer the chat page selects the newest conversation of a list it has
  only asked to be reloaded (`input-box.vue:47` means the new one); chunks are added to
  whatever conversation is shown; two equal chunks in a row count once; Enter pressed
  twice sends an empty question, and the send button is never disabled, because
  `sendable` negates the computed object instead of its value (`input-box.vue:15`);
* a table shows the answer that comes last, not the one asked for last; after an error
  the pager goes back to page 1 while the parameters keep theirs;
* a tag that is made a child of itself or of a tag below it is in no branch of the tree,
  although `admin_service.go:121` says the tree has all tags; users made by an administrator
  get no private tag;
* a row of the user page that does not show the private tag loses it when its tags are
  saved: `ListUsers` skips a tag whose lookup fails for whatever reason
  (`admin_service.go:265`), and the row may be read between the two writes of a
  registration (`user_service.go:88`, 121).  Every change of a user saves the whole row as it
  was read, so the choice of a main tag (192) brings back tags that an administrator took away
  meanwhile; that choice accepts any substring of the joined ids (188);
* the confirmation of a password may be blanks only; a registration repeated after a
  failure half way is told that the name exists;
* two windows share one backup of the layout, and a reload while narrow overwrites it
  with the layout for narrow windows;
* a build's override of the theme is noted when a page loads and cached when it is left,
  so a page that ends without `beforeunload`, or an older window left later, loses it for
  good; two windows loading around a new build may apply it twice; the switch for
  recommended colours changes the components but not the style sheet.

## 6. Proofs

Every theorem holds for all values of the constants that the named assumptions of the
modules allow; a condition on the faults or the instance is an ASSUME of the theorem, and
listed here.  The runs show the same properties on their instances, which satisfy these
conditions.

**Upload** (`UploadProofs`), for any users, files, chunk counts, goroutines, faults, with
or without crashes: `UploadTypeCorrect`, the type invariant; `UploadInvariant`, the
inductive invariant `UploadInv`; `MarkedAreRecorded`, `CompletedAreRecorded`,
`CompletedAreChecked`.

`CompletedRecorded` is not inductive: the merge only compares a count of bits with
a number of chunks, and sets the status by id two calls later.  `UploadInv`
therefore adds that a merge past its check found every row (`AllBits`: as many bits
below n as n are all of them), that rows never go away, that the id it holds is
its own record's or nobody's (`IdsUnique`), and that a bit is only set after its
row (`MarkedRecorded` with the requests in flight).  The argument that the check
of chunk 0 cannot be passed by is the same chain: a complete bitmap contains bit 0, and
bit 0 was set by a request that passed the check.  It says nothing of the names that
the other requests, the record and the task carry.  Lemmas `QuietStores` and
`RequestsFrame` carry what a step leaves alone; each action then has one lemma.

**From the merge to the topic** (`UploadProofs`): `MergesProgress`, `CompletedAreStored`,
`TasksFollowMerges`, `CleanupsFollowTasks`.  The invariant `TaskInv` follows what each
merge knows of its own object and record: the object is composed before the status is
set, and the update by id hits the record found at the start, since ids are unique.
`CleanupsFollowTasks` assumes that Kafka takes messages: `MergeChunks` logs a failing
`ProduceFileTask` and cleans up all the same.

**Consumers** (`PipelineProofs`), for any consumers, partitions, tasks, failing calls,
crashes and rebalances: `PipelineTypeCorrect`, `MessagesInOrder`, `PipelineImplementsQueue`.
A consumer's task is a task only while its offset is in the log, so the type invariant
is proved with that (`TypeInv`).  `InOrder` is not inductive: a redelivery starts
after the committed offset, a fetch after the last one.  `OrderInv` adds that what is
committed is settled, that what a consumer is about to commit is settled, and that
what was fetched is settled except for a last message that its owner still holds.  The
refinement shows for each action that it settles the next task of its partition,
commits what is settled, adds a task, or changes nothing of the three variables that
`TaskQueue` sees.

**What processing leaves** (`PipelineProofs`).  `NoRebalance`, `OnePartition`, `RowsCleaned`
and `StatusesWritten` say that the group is stable, that there is one partition, and that
the calls which clean the rows and write the status do not fail.

* `FinishedDocumentsDecided` assumes `StatusesWritten`, since the code drops the errors of
  these updates, and that rebalances and crashes do not both occur: a consumer that lost its
  partition may have set the status back to "processing" and die after the new owner has
  committed.  `StatusInv`: behind every undecided status of a document for which a task was sent is
  one that a consumer is at or that will be fetched (`Outstanding`).
* `ChunksStoredOnce` assumes `OnePartition`, `NoRebalance` and `RowsCleaned`.  Then one
  consumer at most is processing (`OneWorker`), and a document that was cleaned has no
  rows until it saves them.
* `SuccessIsSearchable` assumes both lists.  `SuccessInv` adds how far an attempt has
  come (`Progress`): the rows it saved, those its goroutines have still to index, and a
  status that is not "success" meanwhile.

The conditions are not for the proofs' convenience: `MCPipeline_parallel` shows two
partitions storing rows twice, and section 5 tells the same of a rebalance.

**Deletions** (`DocumentProofs`): `DeletionsCounted`, `ReferencesProtect`, `NothingLeaks`, for
any library of processed documents and any number of deletions.  `DeletionInv`: a deletion
past its count has seen the last record go (`CountedUnreferenced`), and what a file
without records left behind is still ahead of a deletion under way (`LeftoversAhead`).  They
assume ids for a full library (`EnoughIds`, without which `Document` has no initial state)
and `StoresAnswer`: a count that fails is taken for zero, and a removal that fails is
not repeated, both of which are hazards.  That an upload interferes is
`MCIngestion_refcount`'s violation.

**Ingestion** (`IngestionProofs`): uploads, consumers and deletions over the same stores,
with either process crashing.  A step of the whole is one of a single component
(`StepsOfComponents`), and then a step of that component's module, so its lemmas speak of it;
what is left is what the other two write of the state its invariant reads
(`UploadWrites`, `DocumentWrites`, `ConsumersWrite`).

For any faults, crashes, rebalances and deletions:

* `IngestionTypeCorrect`, and `UploadsKeptWhole`, that is `UploadInv`: a deletion takes a
  record under a running merge, and consumers update the status of records, but ids
  are not reused and chunk_info is not touched.
* `IngestionInOrder`, `IngestionImplementsQueue`: the group keeps its order and the whole
  implements `TaskQueue`, with the merge in the place of the environment `Submit`.
* `IngestionCleansAfterTasks`, if Kafka accepts messages.
* `SearchableAreUploaded`: `SearchableUploaded`, the end-to-end property of the path.  Its
  inductive invariant `SourceInv` follows a file through three hands: a merge past its
  check found the file whole (`SendersWhole`), so every task in the topic is of a whole
  file whose chunk 0 was checked (`TasksWhole`), and every row, every index document and what a
  consumer has read back belong to such a task (`RowsFromTasks`).
* `IngestionStoresChunksOnce` assumes `OnePartition`, `NoRebalance` and `RowsCleaned`, as
  `ChunksStoredOnce` does, but allows deletions: these only remove rows.

For `NothingDeleted` (`Deleter = {}`), with the assumptions of the theorems about the
modules alone: `IngestionTasksServed` (`TaskAfterMerge` and `CompletedStored`),
`IngestionDocumentsDecided`, `IngestionSuccessIsSearchable`.  They replace the pipeline's
environment, which sends a task in one step, by merges that interleave, repeat and crash:
between `SetCompleted` and `Produce` a completed record has no task yet, which is why
`StatusInv` speaks of documents for which a task was sent.  With deletions the three do
not hold: a deletion removes the object that a waiting task names, and a document that is
deleted and uploaded again is pending while its first task is finished.

**Conversations** (`ConversationProofs`), for any connections, users, questions, failing
calls and crashes: `ConversationTypeCorrect`, `QuestionsFollowed`, `HistoriesStayPaired`,
`QuestionsCompletedOnce`, `SavedAreCompleted`, `StopsNeverCut`.  `ChatInv` places each question:
unread in one inbox, at one goroutine, or served; its completions follow from the place;
histories, and the copies that goroutines have read and will write back, hold only
questions whose answer was complete, in pairs and none twice.  The copies are why
`HistoryPaired` alone is not inductive.  `ConversationAssumption` says that `Keep` is even, as
the code's 20 is: with an odd limit the oldest answer would stay without its question.

**Browser** (`FrontendProofs`).

* `UploadsLimited`, `RowsStayDistinct`: `UploadClientInv` says that the slots taken are the
  files of the running loops, one loop per file; that no two rows have a file in common,
  whichever objects they are; and that a removal under way names an index, of whatever
  row is there by then.
* `RedirectsNeverNest`: `SessionInv` says that before the constant routes are registered
  only the first guard can run, and that afterwards a location with the path of the login
  page is the login page.
* `RequestsImplementCalls`: the safety part of the refinement of `Calls`: the initial state
  maps to one, and every step settles a call that is open or changes no outcome.
* `PagerFollowsRows`, `PrivateTagsSurvive` (of those whose registration gave them the tag
  and of whom no row was saved that did not show it, with what dialogs and
  saves under way hold), `RegistrationsComplete` (with where a registration is among its statements),
  `LayoutsRestored` and `MenusReachable` (a window and its backup), `ThemesKept` (the cache, the
  flag of the build and the choices, for each window).  `AccountsAssumption` says that the
  model's value for "no password" is none.
* `TabsStayWithAccount`: `TabsInv` gives all tabs, those in local storage and those that a
  `clearTabs` of this session will write back one owner, the account, as long as
  nothing went past `checkTabClear` (`unchecked`); and the account recorded for that check is
  then the one whose tabs are there.  Nothing is assumed of the navigations under way when a
  session ends.  `TabsAssumption` says that the login page, which has another layout, is
  no tab.
* `QuestionsSentOnce`: `ChatClientInv` says where a question may be (`Placed`): in one query or in
  one history, and below the number asked.  What the server takes and a closed socket loses
  leaves some of the queries, each once (`Some`).

**Types of the browser** (`FrontendTypeProofs`): `FrontendTypeCorrect`, for any values of the
constants, of `Frontend`, whose invariant `FrontendTyped` is that of the part which runs.  A
part's type invariant is seldom inductive: what the next step reads must be of the type
too, and of the right owner.  `UploadsTyped` gives every task, every loop and every answer
about a file chunks of this file only, which rests on an object keeping its file while a loop or
a request refers to it (`OthersKeepFile`), and on a loop that starts finding a chunk that is
missing (`EntersTyped`: as many chunks as the file has are all of them).  `TableTyped` carries
every column through each drag; `ChatTyped` a list of conversations, each
once, whatever is answered late; `TabsTyped` the rows that a `clearTabs` remembers;
`SessionTyped` navigations with an identity of their own (`FreeIdThere`: there is always one to
be had); `TagsTyped` the dialogs and saves under way; `ThemeTyped` and `LayoutTyped` the caches.
The named assumptions say what the code's constants are: bounds are numbers, pages have a
size, the first build is one.

`Filters` defines what `Array.prototype.filter` keeps by its positions, because the prover has no
definition of `SelectSeq`; `NthIsThere` and `Filtering` are the facts about it.  Inductions on
numbers are by a least counterexample (`LeastNatural`).

Only model-checked, and why:

* liveness, and the fairness part of `ImplementsCalls` (`TasksSettle`, `TaskAnswered`, `QuestionsEnd`,
  `QueueDrains`, `GuardsSettle`, `ResetCompletes` among them): the provers treat neither
  fairness nor ENABLED;
* `RoutesOfRolesAgree`: a recursive definition over a tree.

## 7. Not modelled

Recall and ranking inside Elasticsearch, language and embedding models, HTTP and
WebSocket framing, logging and metrics, configuration, the offline evaluation; cutting
texts into chunks and mixing colours, which are calculations without control; in the
browser, translations, charts, icons, previews of files, the rendering of messages, the
profile form, and the archive of conversations, a page that shows the answer to one
request.  Bytes of tables (`packages/color/src/constant`) and type declarations carry no
behaviour.  Each component's status is in `PROJECT.json`.
