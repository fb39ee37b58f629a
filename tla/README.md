# A verification project for PayaBase

PayaBase is a knowledge-base assistant. A FastAPI service and Celery workers
(`src/training_agent`) import documents, index them into PostgreSQL, answer chat
requests by retrieval and a language model, keep a record of every agent run,
answer messages of chat platforms and generate PPT and PDF files. A Next.js front
end (`src/web`) talks to it. A small service of its own
(`src/training_agent/infra/search-service`) does web searches through engines such
as the third-party OpenSERP server kept in `src/openserp-main`.

This directory holds TLA+ modules of the parts that keep state and can go wrong by
interleaving or failure, TLC configurations that check them on small instances,
and proofs, checked by TLAPS, that their main safety properties hold for every
value of the constants. Paths below are relative to `src/training_agent`.

    tlc -config IndexOverlap.cfg MCDocumentIndexing.tla     check one run
    tlapm DocumentIndexingProofs.tla                        check the proofs

## 1. Inventory

### 1.1 Import, reindexing and deletion (`core/application/documents/import_document.py`)

* State: rows of `documents` (status, `file_hash`, `chunk_count`), their files in
  a MinIO bucket, the Celery queue.
* Operations: `import_from_upload` / `persist_fetched_document` (look the hash up,
  upload the file, insert the row, send the task, compensate when it is refused),
  `reindex_document`, `delete_document`.
* Interacts with the worker through the row, the bucket, the chunks and the queue;
  with retrieval through `status = 'ready'`.
* Hard: four stores without a common transaction; every `await` lets another
  request or the worker in; nothing but the row's status says that a task is under
  way, and reindexing does not look at it.
* Correct means: files and rows come and go together; a document keeps its file; an
  accepted document ends up ready or failed.

### 1.2 Indexing worker (`core/tasks/indexing.py`, `core/rag/image_binder.py`)

* State: the same rows, `chunks` and what hangs on them,
  `segment_attachment_bindings`.
* Operations: the five stages of `index_document_task`, a status write after each,
  `batch_insert_chunks` (delete the old rows, insert the new, set ready: one
  transaction), bindings of images, `failed` and a retry from the outermost
  handler.
* Hard: two tasks for one document; READ COMMITTED: a `DELETE` sees only what was
  committed when it started; a document deleted under a running task; a worker
  killed after its message was acknowledged.
* Correct means: an indexed document is never left without an index; what the row
  counts is stored; no chunk outlives its document; without overlap, a document's
  content is replaced as a whole.

### 1.3 Web search service (`infra/search-service/main.py`)

* State, in one process: `_cache`, `_inflight` (a future per key), `_failure_state`
  (failures in a row and `open_until` per engine), `_stats`.
* Operations: one endpoint `search`, which looks into the cache, joins a search in
  flight or becomes its owner, asks the engine and then the fallback engine.
* Hard: the key of a search is a string of its parts; requests interleave at every
  `await`; a failing owner has to answer its waiters; answers come back after the
  circuit opened; a circuit is cleared only when somebody looks.
* Correct means: one upstream query per search, the right answer to everybody,
  failures never cached, a breaker that means what it says, everybody answered.

### 1.4 Agent run of a chat request (`core/chat/chat_pipeline.py`, `core/agent/*`, `core/domain/agent/*`, `core/chat/finalize_flow.py`)

* State: a semaphore, an `AgentRunState` in memory, rows of `agent_runs` and
  `agent_steps`, the reply in `messages`.
* Operations: route and plan, write the run, retrieve, execute the main step, write
  it, decide on and run a follow-up (finalize or retry), write it, replace the main
  step's output, save the reply.
* Hard: each write may fail and is rolled back while the request goes on with ORM
  objects the rollback has expired; the response is streamed, so the client may
  leave at any point; the permit is held all along.
* Correct means: rows and memory agree whichever writes are lost; retries stay
  within the policy; no permit is lost; every stream ends.

### 1.5 Chat platform callbacks (`api/routers/platform.py`, `core/services/platform_user.py`)

* State: rows of `platform_users`, `platform_conversations`,
  `platform_message_receipts`, `messages`.
* Operations: one endpoint: find or create user and conversation, check the
  receipt, save the question, ask the model, save the answer, write the receipt,
  send.
* Hard: platforms repeat callbacks, also while the first is running; every
  check-then-insert races and is stopped only by a unique constraint; a process may
  die between any two commits.
* Correct means: one answer per message, one conversation per chat, an answer that
  was sent is kept.

### 1.6 Conversation, consent and the chat page (`core/chat/chat_pipeline.py`, `web_search_state.py`, `conversation_service.py`, `attachment_service.py`, `api/routers/chat.py`, `web/src/components/chat/chat-page.tsx`, `web/src/lib/api.ts`)

* State: `conversations.meta` (mode of the web search, misses, pending question),
  rows of `messages`; in the page its conversation, switch, busy flag and bubbles.
* Operations: load the conversation, save the question, apply the switch, take the
  words that ask for a search, take a message for the reply to a question, count a
  miss, save the answer; in the page: list, load, submit, receive, give up.
* Hard: the meta column is read once and written whole, at up to three places, while
  other requests do the same; the ORM sees no change in a dictionary that is assigned
  a second time; the page writes a stream into its last bubble.
* Correct means: the search is on only after a reason; the switch decides; a lone
  request's answer is remembered; question and answer are stored in order; the page
  shows what is stored.

### 1.7 Tools and files (`core/agent/executor.py`, `core/chat/autonomous_flow.py`, `artifact_flow.py`, `core/tools/*`, `core/tasks/ppt_generation.py`, `pdf_generation.py`, `api/routers/ppt.py`, `pdf.py`, `web/src/hooks/use-api.ts`)

* State: the rounds of a request and the tools it has called; rows of `ppt_tasks` and
  `pdf_tasks`, messages, objects in MinIO; the cards of the page.
* Operations: ask the model, call its tools one after the other, force a search after
  a miss, stream the final text, enforce the export a profile requires; submit a file,
  make it with retries, poll it, download it.
* Hard: the broker may report an error after the message went out, the database one
  after the commit was done; a worker dies or cannot write its last word; everything that
  is not an answer uses up one counter.
* Correct means: the loop ends; a miss leads to a search; an answer names every file
  it caused; a file that is ready can be downloaded; cards come to rest.

### 1.8 Retrieval and context (`core/rag/retriever.py`, `ranker.py`, `context_blocks.py`, `context_expansion.py`, `core/chat/rag_flow.py`)

* State: the session's transaction, the rerank cache in Redis, `context_blocks`.
* Operations: vector and BM25 recall, fusion, rerank, thresholds, duplicates, share
  per document, expansion to blocks or windows, grouping within a budget.
* Hard: an error that is swallowed leaves an aborted transaction; a cached rerank
  meets new candidates; documents end, windows touch, budgets end inside a group; chunks
  and blocks are read by two statements; the chunks of documents older than the blocks
  have no numbers of their own.
* Correct means: a candidate is lost for a reason only; the cache answers as the
  service would; the hit is in its context; the budget holds.

### 1.9 Text of a file (`core/rag/parser.py`, `pdf_parser.py`, `instant_parser.py`, `chunker.py`, `core/embedding/client.py`, stages of `core/tasks/indexing.py`)

* State: pages, texts, pieces, vectors of one index run; images it stores.
* Operations: read text layers, transcribe poor pages in threads, assemble, split,
  embed in batches with a fallback per batch, insert.
* Hard: threads end in any order and fail one by one; batches fail and are repeated
  elsewhere, or come back short; lengths are compared before the cleaner and cut after
  it; a retry starts again.
* Correct means: a transcription is that of its page, no text is lost, a piece has
  its own vector.

### 1.10 Backfill scripts (`core/rag/lexical_index.py`, `scripts/rebuild_lexical_index.py`, `scripts/rebuild_chunk_contexts.py`)

* State: `chunk_lexical`, `context_blocks`, the links of chunks to blocks.
* Operations: page through documents by id, decide what needs a rebuild, delete,
  insert and commit per document.
* Hard: every statement sees what was committed when it began, while index runs
  replace the chunks and requests delete the document.
* Correct means: a pass without failures leaves nothing without its record.

### 1.11 Knowledge bases and lists (`api/routers/kb.py`, `docs.py`, `core/permissions.py`, `core/infrastructure/db/repositories.py`)

* State: rows of `knowledge_bases`, `documents`, `conversations`; objects in MinIO;
  the page a list shows.
* Operations: create, rename, delete a base; upload into it, delete a document; open a
  conversation on it; turn the pages of a list and of a document's chunks.
* Hard: the deletion loads the documents, clears their key and lets the database's
  cascade take what it has not seen; an upload is at work meanwhile; client and server
  have their own idea of the size of a page.
* Correct means: a deletion takes no document that was there; objects follow rows;
  pages show every row once; who creates a base may manage it.

### 1.12 Statistics (`api/routers/stats.py`)

* State: none of its own; it reads messages, runs and steps.
* Operations: counts, averages, trends per day in the scope of the viewer.
* Hard: totals and trends are separate queries over rows that move between days.
* Correct means: a trend adds up to its total; an average is that of the scope.

### 1.13 Document sources (`core/sources/feishu.py`, `google_drive.py`, `api/routers/sources.py`)

* State: blocks gathered, a queue of those to ask for children, images stored.
* Operations: token, wiki node, breadth-first walk, markdown, export and its polling,
  download.
* Hard: every request may fail; blocks are listed more than once and in circles.
* Correct means: nothing twice, nothing missing, an answered fetch gives a document.

### 1.14 Parts without a module, or with a part of one

| Part | What it does | Why it is not modelled |
|---|---|---|
| Request routing and task profile (`core/agent/request_router.py`, `router.py`, `intent.py`, `strategy.py`) | classifies a text by keywords | no state; `AgentRun` and `ToolLoop` take its result as a choice |
| Authentication, departments (`core/auth.py`, `api/routers/auth.py`, `departments.py`) | one statement per request | no interleaving to check; who sees and manages what is in `KnowledgeBases` and `UsageStats` |
| OAuth of the sources (`api/routers/sources.py`) | redirects of another service | a request that succeeds or fails |
| Chat adapters (`core/adapters/*`) | parse and post platform messages | no state; `PlatformCallback` has their success and failure |
| How a format is read, cleaned, split at a separator or tokenized (`core/rag/*`) | text processing | no state; `Ingest` has pages and their lengths before and after the cleaner |
| LLM client (`core/llm/client.py`) | one request with a timeout | its outcomes are choices of the other modules |
| Vector and rerank services (`infra/vector-service`, `infra/rerank-service`) | wrap a model | no state; incomplete answers are choices in `Retrieval` and `Ingest` |
| `core/memory/buffer.py` | | has no caller |
| Front end beyond the chat page, cards and lists | layout, one user's view | no state of its own |
| `src/openserp-main` | third-party search server | an engine that answers or fails |
| migrations, bulk scripts, tests | | read for constraints and expectations |

## 2. Modules

| Module | What it is |
|---|---|
| `SearchableIndex` | abstract: what retrieval is promised about documents |
| `DocumentIndexing`, `DocumentIndexingProofs` | 1.1 and 1.2 composed over the tables, bucket and queue they share |
| `SearchService`, `SearchServiceProofs` | 1.3 |
| `AgentRun`, `AgentRunProofs` | 1.4 |
| `AnsweredOnce` | abstract: what a chat platform is promised about a message |
| `PlatformCallback`, `PlatformCallbackProofs` | 1.5; implements `AnsweredOnce` |
| `Conversation`, `ConversationProofs` | 1.6: endpoint and page composed |
| `ExportTask` | 1.7: a file from its submission to the card of the page |
| `ToolLoop`, `ToolLoopProofs` | 1.7: the rounds of a request; extends `ExportTask`, whose files it submits |
| `Retrieval` | 1.8: one search after another, with transaction and cache |
| `ContextBlocks` | 1.8: blocks at indexing, context of a search |
| `Lists` | lists chosen by an order, for both |
| `RetrievalProofs` | proofs about `Retrieval` and `ContextBlocks` |
| `Ingest` | 1.9 |
| `Backfill` | 1.10 |
| `KnowledgeBases` | 1.11 |
| `UsageStats` | 1.12 |
| `Sources` | 1.13 |
| `KnowledgeProofs` | proofs about `KnowledgeBases`, `UsageStats`, `Sources`, `Ingest` and `Backfill` |
| `MCKnowledge` | `Retrieval`, `ContextBlocks`, `Backfill`, `KnowledgeBases`, `UsageStats`, `Sources` and `Ingest` side by side |
| other `MC*` | symmetry and values for TLC |

The seven modules of `MCKnowledge` share no state. Its variable `part` is chosen in the
initial state and says which of them moves; so one run explores the sum of the seven
state spaces, and never their product.

An operator marked `MUTANT` is a plausible mistake in the definition that follows
it. It takes no part in the specification; TLC finds a property violated when it is
put in that definition's place.

### 2.1 DocumentIndexing

One action is one access to shared state; what lies between two accesses is local.

| Code | State or action |
|---|---|
| `documents.status`, `file_hash`, `chunk_count` | `status` (with `fresh`, `drawn`, `gone` for ids without a row), `hash`, `count` |
| `chunks`, context blocks, lexical rows | `chunks[d]`: the runs whose rows are stored. A run inserts and loses its rows together |
| `segment_attachment_bindings` | `bound` |
| MinIO | `stored` |
| Celery messages, task progress, `self.request.retries` | `step`, `doc`, `retries` |
| rows deleted by the transaction in progress | `victims` |
| `_find_by_hash`, `_idempotent_result` | `Upload` |
| `_persist` | `StoreObject`, `InsertRow`, `PublishUpload` |
| its compensation | `UndoObject`, `UndoRow` |
| `reindex_document` | `Reindex`, `PublishReindex` |
| `delete_document` | `Delete`, `DeleteRow` |
| `index_document_task`, stage by stage | `Start`, `MarkIndexing`, `Download`, `MarkDownloaded`, `Parse`, `Chunk`, `Embed` |
| `batch_insert_chunks` | `ClearOld` (the statement's snapshot), `LockOld` (waiting for row locks), `CommitChunks` |
| `ImageBinder` | `BindImages` |
| handlers of a stage and of the task | `FailStage`, `RetryOrGiveUp` |
| hard time limit, restart | `KillWorker`, `KillRequest` |

The constant `Faults` names what the environment may do; each run switches on what
its question is about. `OneAtATime` restricts requests to come one by one, each
when nothing runs: the regime in which the strong properties hold.

Abstracted: the progress number, titles and sizes, what a parser or chunker
computes, checks that reject a request before anything changes. The task's soft
time limit raises inside a stage and is a `stage` fault.

### 2.2 SearchService

One action is what runs between two awaits; the lock around `_inflight` is never
held across one. A key is, as in `_cache_key`, the pieces of engine, limit, language and
query in one row: a text is the list of its pieces between colons, so two searches that
differ only in where the language ends share a key. Time is a counter; `TTL` and `Cooldown`
are ticks. `Refuse`, `HitCache`, `Join`, `Lead` and `LeadNowhere` are the ways the
first stretch of `search` can go; `Succeed`, `FailOver` and `Fail` what an upstream
query can do, a timeout included; `Resume` is a waiter whose future is resolved.
Left out: daily trends, counters of fallbacks and timeouts, the copy of counters in
Redis.

### 2.3 AgentRun

`run` and `main` are the run in memory, `ids` the keys the request believes in,
`runRow` and `stepRows` the rows; `expired` are the ORM objects a rollback has
expired. A rollback does not end the request, so every write is commit or
`RollBack`, and what reads an expired object afterwards (`MainStep`,
`BeginFollowUp`, `Complete`) fails where the code does. When the generator ends, its
objects are forgotten (`Forget`) and the permit is back. The plan is
`build_initial_steps`, the follow-up `decide_followup`, the bookkeeping
`start_step` and `complete_step`. Texts are abstracted to which attempt wrote some.

### 2.4 PlatformCallback

A call is a coroutine with its own session. Rows it inserts carry its name, so that
a property can say whose row it is. Unique constraints are the only guard between
calls: an insert that breaks one fails the call. `Die` is a death of the process or
an error of the database between any two steps. A failed send may have reached the
platform. Answers of several calls to a message without an id are not limited by
the code, and the property about them excludes it.

The refinement of `AnsweredOnce` speaks of messages with an id: `kept` are those with a
receipt whose answer is in the history of their chat (`Settled`), `sent` counts what reached the platform, `repeated` are the
messages of which a call ended as a duplicate.

### 2.5 Conversation

One action is what a request does between two commits, or a page between two awaits.

| Code | State or action |
|---|---|
| `conversations.meta` | `meta` (mode, misses, the request whose question is pending) |
| `conv_meta`, the copy a request works on | `req[r].loaded`, `req[r].local` |
| the attribute has been assigned before | `req[r].written`: `StoreMeta` then writes nothing |
| `messages` | `rows` |
| `validate_conversation`, attachments, history | `Validate`, `Refuse` |
| `save_user_message`, the switch, `process_web_search_explicit_keyword`, `handle_ask_pending_response`, `process_kb_miss` | `SaveUserMessage`, `ApplyToggle`, `ApplyKeyword`, `TakeReply`, `Retrieve` (`Miss`, `FoundChunks`, `Uncounted`) |
| `save_assistant_message` | `SaveAssistantMessage` |
| a client that leaves, a process that ends | `Drop` |
| `loadHistory`, `handleSubmit`, `chatStream` | `ListConversations`, `ShowHistory`, `Submit`, `CreateConversation`, `Receive`, `GiveUp` |

A text is the set of keywords found in it, for `ClassifyYesNo` looks for refusals
first. `why` and `told` record for the properties why a request switched the search on
and which mode its client was told. What is retrieved, searched and answered in between
is the matter of `AgentRun`, `Retrieval` and `ToolLoop`.

### 2.6 ToolLoop and ExportTask

`loop` is the request: its round, the calls left of the model's last reply, whether a
search is needed, was made or forced, the kind of its text and the files it lists.
`CallsReply` and `TextReply` are what the model can answer, `ForceSearch` the search of
the executor, `StreamFinal` the text when rounds are used up, `Enforce` the export after
it. `RouteText` is `generate_route_artifact`.

In `ExportTask` the tool goes through `InsertRow`, `Publish`, `MarkFailed`, an attempt
through `Start`, `Render`, `Announce`, `Upload`, `Finish`; `Raised` is the task's handler
(retry or `failed`), `Die` a worker that is killed. `Publish` may fail after the message
went out, and a commit (`Report`) may raise before or after it was done (`Unsure`): an
attempt whose `ready` is in the row may be followed by another. `Poll` and `Refocus` are the card. An object is named by the attempt that
uploaded it, so that a row can point to one that is not there. `FaultsOf` says per file
which faults it meets.

### 2.7 Retrieval and ContextBlocks

`search.tx` is the transaction: a statement that fails sets it to `aborted`, and every
later statement fails. A channel is a list of chunks or `Error`, whatever the SQL can
return. The rerank service may leave out pairs; `cache` maps a list of candidates to the
pairs stored for it. RRF scores are exact: fractions over a
common denominator. Scores of the service are numbers on
either side of the threshold.

`Lists` has what both modules need of `sorted()` and of comprehensions: the list of a set in
a strict order (`InOrder`), the members of a list that are in a set (`Only`), the stable
sort by a key (`BestFirst`). The lists of this code hold no member twice, so an order is a
set of pairs, and the position in a list is one. A loop with a state (duplicates, the limit
per document, blocks, windows, budget) is a recursive function over the length so far.

In `ContextBlocks` a text is a sequence of cells and neighbouring chunks overlap in one
cell, so that the overlap that joins two texts, what is cut off and what is repeated can
be said. `OldDocs` are the documents that were indexed before migration 0003 and neither
since then nor met by the script of 2.8: they have no
blocks and all their chunks have one number (`NumberOf`), so that a lookup by number finds
the chunk that was read last (`Found`), whichever was hit. `ReadChunks` and `ReadBlocks` are
the two SELECTs of `expand_results`; `Replace` is an index run that puts new chunks in place
of those the results name, `Regroup` one that commits between the two, so that the blocks
the chunks name are not found.

### 2.8 Backfill

`store` holds per document the chunks, records, blocks and links that are committed,
`worker` the transaction of an index run, `script` the two scripts. `Read`, `Decide` and
the statements of a rebuild (`WriteLexical`, `CommitLexical`, `SeeBlocks`, `DeleteBlocks`,
`CommitContexts`) each see what is committed at their time; `SeeBlocks` is what the `DELETE`
finds when it begins, `DeleteBlocks` its end after it waited for a run. An index run of a
document makes equal chunks with new ids, because its file does not change. `Differing` are
the documents whose chunks the script groups otherwise than an index run, because one counts
the tokens of `metadata` and the other a third of the length (`context_blocks.py:129`).

### 2.9 KnowledgeBases

`LoadBase` is the first half of `delete_knowledge_base`, up to the SELECT of the ORM's
flush; `DropBase` the second, which the NOT NULL of `documents.knowledge_base_id` refuses
when rows were loaded. `raced` marks a document whose row came between the two. An upload
is `AdmitUpload`, `PutObject`, `InsertRow`. `PageOf` and `Turns` are a list as the
repositories page it and the page turns it; they are operators, checked on the tables of
each state.

### 2.10 UsageStats, Sources, Ingest

`UsageStats` has the rows the statistics read, with a day; the queries are operators.
Where a column of a mapped class is selected beside a subquery, the model joins as
SQLAlchemy does.

`Sources` has one action per request to the other side; each can fail. A document starts
with its blocks, a wiki node with what it names, a sheet with the export (`FirstStop`). A
block may give no line, and an image no file. `gathered` is the walk over blocks, `import.failed` says whether a request was refused. `Constructed` asks
whether the result's dataclass gets what its constructor requires.

`Ingest` has pages with the length of their text as it is read and as the cleaner leaves it
(`Lengths`), and with images, whose links are part of the content of the page (`TextFrom`): a
page of pictures alone gives a chunk. `StartOcr` and `EndOcr` are the threads, `EmbedBatch`
one batch with its fallback; the service may answer with fewer vectors than it was sent
texts, and `job.sent` counts the texts. The rows themselves are `DocumentIndexing`'s.

## 3. Runs

| Run | Configuration | Question | Outcome |
|---|---|---|---|
| `index_overlap` | 1 document, 4 requests, 3 tasks, 1 retry; stage, worker, republish, db faults | do row, chunks and count agree, and does a document keep its index, under any overlap? | holds |
| `index_objects` | 2 documents, 3 requests, 3 tasks; publish, republish, stage, worker faults | do files and rows come and go together? | holds |
| `index_serial` | 2 documents, 4 requests, 3 tasks, every fault, one request at a time | exactly one run's chunks; refinement of `SearchableIndex` | holds |
| `index_settles` | 1 document, 3 requests, 3 tasks; minio, stage, publish faults, fairness | does every accepted document become ready or failed? | holds |
| `search_safe` | 3 requests, 3 searches (two share a key), 2 engines, threshold, cooldown and TTL 2, 4 ticks, fairness | everything 1.3 asks for | holds |
| `run_recorded` | 2 requests, 1 permit, plans of 1 and 3 steps cut at 2, 2 retries, fairness | everything 1.4 asks for | holds |
| `platform_answers` | 3 calls, 3 messages (2 in one chat, 1 without id), 2 chats | everything 1.5 asks for; refinement of `AnsweredOnce` | holds |
| `chat_agrees` | 3 requests, 2 at once, 1 page, 2 conversations, 3 texts, history 2, 2 misses | everything 1.6 asks for | holds |
| `tool_loop` | 3 rounds, 2 files (one with every fault, one with none), 1 retry, fairness | everything 1.7 asks for | holds |
| `knowledge` | one small instance of each of the seven modules | everything 1.8 to 1.13 ask for, but for what the next two runs refute | holds |
| `fetch_fails` | the instance of `Sources` | does a fetch whose requests were all answered give a document? | violated |
| `old_hits` | the instance of `ContextBlocks` | is every hit in the text that is given for it? | violated |

### Bounds

* Three tasks are one more than the overlap of two that every interference of the
  worker needs, so that a third run meets what two have left. With a retry a task
  goes through the stages twice. A second document matters where ids are drawn
  (`index_objects`, `index_serial`); elsewhere documents do not influence one
  another. One content is enough for races of equal uploads; different contents
  never meet.
* `index_objects` leaves the faults `minio`, `db` and `api` out, because with them the
  code leaves files behind by design: removal is attempted once, and an error of it is
  logged. `index_settles` leaves out `worker`, `api`, `db` and `republish`, after
  which no code takes the document up again (see hazards).
* Three searches make an owner, a waiter and one that comes later; two engines
  make a primary and a fallback, and a primary that is its own fallback. Four ticks
  open a circuit, let its cooldown pass and let a cache entry expire.
* Two requests and one permit make one wait. A plan of 3 cut at 2 exercises the
  cut; `MaxRetries` 2 is the policy's value.
* Three calls put two on one message while a third is about another message of
  the chat, or all on one.
* `chat_agrees`: two requests at once overwrite each other's dictionary, a third reads
  what they left. `MissLimit` 2 (3 in the code) lets the three requests reach the limit and
  count again. The texts are one that asks for a search, one that agrees and one that
  agrees and refuses; without the switch each is also a message like any other. The second
  conversation is for the page that creates one while another client writes to the first.
  `HistoryLimit` 2 is shorter than a conversation becomes.
* `tool_loop`: three rounds hold a miss, the forced search and an answer, and a model that
  calls tools until the end; two calls make one that follows another. A file without faults
  beside one with all of them tells whether the faults of one reach the other; one
  retry makes a second attempt meet what the first has left.
* `knowledge`: four chunks in three documents, two of them of equal text and one below the
  threshold, exceed the limit per document and of the list, so that a text is lost with a
  chunk that was kept first and then fell to the share of its document; two searches make
  the second meet the cache. Of the two documents of `ContextBlocks` one is older than the
  blocks. Chunk lists of up to six chunks have headings, long chunks, full groups and
  rests; three hits have neighbours, gaps and another document. Two documents with pages of
  one, one index run and three passes let both scripts meet a run and repeat; the second
  document is one the script groups otherwise. One base, two
  uploads and a conversation make one that is loaded and one that races. Three pages of one
  row have a first, middle and last page. Three users have the three roles and two
  departments; one conversation is another tenant's. The Feishu document has a circle, an
  image, and a block that is listed twice. Of four pages three have too little text, so
  that two are transcribed at once while one waits; one of them has nothing but a picture.
  A layer and a transcription lose a part of their text in the cleaner.
* TLC stops where the instance runs out of requests, ids or ticks, so runs do not
  check for deadlock; `Settles`, `Answered`, `StreamsEnd`, `LoopEnds` and `CardSettles` say
  what must not get stuck. Symmetry is used on ids that the code only compares, and in
  no run with a liveness property.

### Fairness

* `DocumentIndexing`: weak fairness of each started request and each task: the event
  loop and the workers go on. That anyone makes a request is not assumed, nor that
  a fault stays away.
* `SearchService`: an upstream query ends, because the client has a timeout, and the
  loop runs a waiter whose future is resolved.
* `AgentRun`: calls of the database and the model end (the model's client has a
  timeout), and `asyncio.Semaphore` serves first in, first out: strong fairness
  of `Admit`. Disconnects and errors are not fair.
* `ToolLoop`: the request goes on (`Advance`: model, tools and stream have timeouts), each
  tool call ends, each attempt of a task is taken by a worker and goes on, and a card that
  polls asks again after its interval. That the client leaves (`Leave`), comes back to the
  page (`Refocus`), that a worker dies (`Die`) and every fault are choices without fairness.
* The other modules state no liveness: their code waits for nothing but its own database.

### What the violated runs show

* `fetch_fails`: `DocumentSourceResult` is built without `content_length` at all three
  places (`core/sources/feishu.py:421, 436`, `google_drive.py:91`). The field has no default,
  so the constructor raises before `__post_init__` computes it (`core/sources/base.py:16`):
  no import from a source succeeds.
* `old_hits`: the expansion keys the chunks of a document by number and keeps the last
  (`core/rag/context_expansion.py:264`). Migration 0003 (`:45`) gave the chunks that were
  there the number 0, so every hit of such a document gets the text of one of them. It lasts
  until the document is indexed again or `scripts/rebuild_chunk_contexts.py` has been run over
  it, which knows the case (`:87`) and writes numbers; nothing in the service runs it.

### Statements that do not hold, without a run

These are definitions of the modules; TLC refutes each on the instance of its component.

| Definition | Statement | What happens |
|---|---|---|
| `DocumentIndexing!ExactIndex` without `OneAtATime` | the old chunks are gone when the new are stored (`core/tasks/indexing.py:578`) | a reindex during a run sends a second task; neither `DELETE` sees the other's rows and both sets stay. `can_reindex` (`core/domain/knowledge_base/aggregates.py:66`) would prevent it and is not called |
| `SourceKept` with linked images | a document that stays keeps its file (`core/application/documents/import_document.py:186, 191`) | the file is removed first; the bindings' foreign keys (`models/tables.py:307-308`) then refuse the row's deletion |
| `OneDocumentPerContent` | one document per content in a base (`models/tables.py:89`) | two uploads pass the hash lookup together |
| `StatusIsDomainStatus` | the row's status is the domain's (`aggregates.py:26`) | the worker writes `failed`, the domain knows `error` |
| `FailuresCounted` | failures are counted as such | waiters of a failed search count as empty results |
| `OwnAnswerAlways` | an answer is to the own search, whatever its texts | language `en:foo` with query `bar` and language `en` with query `foo:bar` have one key (`infra/search-service/main.py:124`); no caller in the repository sends a language |
| `RunReachesEnd` | a run reaches a final status (`core/agent/runner.py:7, 12`) | the follow-up is in the plan when it is completed |
| `LostWriteNotFatal` | a failed write of the record is not fatal (`core/agent/persistence.py:7`) | the rollback expires objects the request reads later |
| `NoKeysOnFailure` | a failed first write returns no keys (`core/agent/persistence.py:69`) | it returns them |
| `FatalNotRetried` | what is not retryable is not retried (`core/domain/agent/policy.py:50`) | a main step is retried whatever failed |
| `RetryTextOnce` | a retry replaces the text (`docs/smoke-test-chat-pipeline.md:83`) | the streamed text of the failed attempt stays in front |
| `HistoryIsRecent` | "recent history messages" (`core/chat/conversation_service.py:171`) | the oldest ones: ascending order with a limit |
| `AgreementOpensSearch` | agreeing to the question switches the search on (`docs/chat_pipeline_smoke_test.md:99`) | the page sends its switch with every message, and off comes before the reply |
| `OtherPathContinues` | a failing BM25 leaves the vector channel (`core/rag/retriever.py:646`) | the error is swallowed (`:774`), but the transaction stays aborted: the statements behind it fail and take the answers of the vector channel with them |
| `AverageInScope` | the average latency is that of the viewer's scope (`api/routers/stats.py:4, 74`) | `func.avg(Message.latency_ms)` brings the table `messages` into FROM beside the subquery, joined by nothing: the average is that of all tenants' messages |
| `NoCellTwice` | the groups repeat no part of a document | two hits of one block have the same text, and the overlap looked for is shorter than it |
| `LaterPassRepairs` | a later pass repairs | a run between the script's reads and its `DELETE` loses the links of its chunks; the blocks then look equal ever after |
| `AnySizeShowsAll` | pages show every row | the server replaces a size it does not allow, the page counts with its own |
| `BaseIsDeletable` | a manager can delete a base | not once it holds a document: the flush clears a key that is NOT NULL |
| `EveryRowHasTab` | every document is under a tab of the list | not a failed one: `failed` against `error` |
| `RicherWhenCleaned` | the richer text of a page is taken (`core/rag/pdf_parser.py:89`) | richer as it was read; the cleaner may leave less of it than of the layer |
| `ImagesBelong` | a stored image has its document | not after a later step failed |
| `OneModel`, `ImageStoredOnce` | the vectors of a document are of one model; an image is stored once | batches fall back one by one; each attempt stores again |

## 4. Proofs

All theorems hold for any finite or infinite sets of documents, tasks, engines, queries,
calls, messages, pages and conversations, any contents of lists and any bounds, under the
assumption each module names. The assumptions say no more than the code does:

| Assumption | What it says |
|---|---|
| `ConstantsAssumption`, `SearchAssumption`, `PlatformAssumption`, `ConversationAssumption` | the `None` values are no members of the sets; limits are naturals, positive where zero would switch the code off; there is a conversation |
| `RunAssumption`, `ExportAssumption`, `LoopAssumption`, `BackfillAssumption` | permits, plans, retries, rounds, page sizes are naturals; what the script groups otherwise are documents |
| `KnowledgeBasesAssumption` | page sizes are positive; the uploads of a history are finitely many; titles have an order |
| `UsageStatsAssumption` | latencies, days and bounds are naturals |
| `SourcesAssumption` | the lists of blocks name blocks of the document |
| `IngestAssumption` | a PDF has at least one page; lengths, pictures and widths are naturals; the cleaner adds nothing to a text |
| `RetrievalAssumption` | limits of lists and `rrf_k` are positive; thresholds and scores are naturals |
| `ContextAssumption` | settings are positive, the adjacent window may be zero; a document is a list of chunks with a number of tokens and a heading or not |

A module of proofs states one inductive invariant, proves that each action preserves it
and derives the properties. Where it is long it comes in layers, each preserved on the
strength of the ones before. TLC checked every inductive invariant on the instance of its run,
where a set without bound is cut to a range the instance stays in.

### DocumentIndexing

`OverlapSafe`: `OverlapInv` is invariant under any overlap and any faults. Its parts:

* `ReadyCountsStoredRun` and `NoOrphanChunks` are the properties. They hold because
  the transaction of `CommitChunks` writes status, count and chunks together and
  needs the row, and because `UpdateStatus` never writes `ready` (lemma
  `TablesStep`).
* `DrawnOnce` and `Addressed` make them inductive: the insert of a row must not meet
  another request's row, so an id has one request until it is a row (`DrawnStep`).

`IndexSurvives` proves `NeverUnindexed` from it: the only step that removes chunks of
a document that stays adds chunks in the same step.

Three properties hold for some faults only, and their theorems say for which:

| Theorem | Property | Faults it excludes | Why these |
|---|---|---|---|
| `ObjectsReferred` | `NoOrphanObject` | `minio`, `api` | a removal is tried once; a request that dies takes its compensation with it |
| `SourcesKept` | `SourceKept` | `db`, `api`, linked images | a deletion removes the file first and may lose the row's deletion |
| `NothingStalls` | `NoStall` | `db`, `republish`, `worker`, `api` | after each of them no code takes the document up again |

The first follows the object of a request from its upload to its row or its compensation
(`Referred`), the second a row back to the object it was inserted after (`RowsBacked`), the
third says that a row that is pending or indexing has a request about to publish or a task
that is queued or at work (`Backed`, `Working`). Each is preserved under all the faults that
are left, with any number of tasks of one document at once. That a fault cannot be spared
is what TLC shows: with it the property is refuted.

`SerialSafe` proves `SerialInv` for `OneAtATime`: at most one actor (`OneActorStep`),
hence the snapshot of a deletion is still all the document holds when it commits
(`WholeReplacementStep`), hence `ExactIndex`. The assumption is needed: with two runs at once TLC refutes
`ExactIndex` (section 3).

`ImplementsSearch` is the refinement of `SearchableIndex` under `OneAtATime`: a
document exists when it has a row, is ready when its status says so, and its index
is `chunks`. Seven lemmas say which change of the tables is which abstract step,
`SearchStep` assigns them to the actions.

### SearchService

`SearchSafe` proves `SearchInv`: types; the future of a key belongs to the one request
that queries for it, and a request that queries owns the future of its key
(`SingleFlight`); whoever waits has an owner at work on the same search or answered
(`WaiterHasOwner`); the cache is honest; hence every answer is to a search with the own
key (`SameKey`), and to the own search where both languages are single pieces other than
the dash that stands for none: then the third piece of a key is the language, and the key
gives back all its parts (`KeyTells`); the
breaker's `open_until` is set exactly when its count has reached the threshold.
`OneQueryPerSearch`, `AnswersOwnSearch`, `CacheIsHonest` and `CircuitsConsistent` are parts
of it. `OnlySuccessCloses` is the action property `ClosedEarlyBySuccess`.

`StatisticsAddUp` proves `CountersAddUp`. Each counter is the cardinality of a set of
requests (`Books`); a step moves one request from place to place and raises exactly the
counters of the sets it enters (`Booking`). `InPlace` says what an answer and an owner
tell of the place of a request, so that none enters a set twice.

### AgentRun

Three layers. `Memory` says what a request knows at each place of its pipeline: the plan
cut to its budget, which attempt it is in, how many retries are spent, what its history
must be by now. `Rows` adds what is in the tables by then, whichever writes were lost: a
row of a step that has ended has its entry in the history of the run's row and the other
way round, because one commit writes both. `Recorded` says what the tables hold when no
write was lost. A step of one request touches no row of another (`Others`, `OtherRows`).
`RunTyped` and `RunRetriesBounded` follow from the first layer, `RunHistory` from the
second, `RunRecordsDone` from the third. `RunPermits` counts: the requests that stream are
finitely many and each holds one permit, whichever way it leaves.

### PlatformCallback

`PlatformSafe` proves `PlatformInv`: a call writes into the conversation its chat is
mapped to; what a call has saved by each place of its course is in that conversation,
in order; a receipt belongs to a call that saved question and answer; who gets to
send holds the receipt. The log of a conversation only grows, so what was saved
stays saved (`Monotone`, `Kept`). `AnswersOnce`, `ChatsStayApart` and
`AnswersAreKept` follow.

`KeepsPromise` is the refinement: the code implements `AnsweredOnce`. With the invariant a
message is settled as soon as its receipt is written (`SettledIsNoted`), and only three
steps show: the receipt is `Keep`, the sending is `Send`, the end of a repetition is
`TurnAway` (`PromiseStep`). A call that sends holds the receipt, and nobody sent before it;
a call that is turned away has seen a receipt, and receipts stay.

### Conversation

`ChatTyped` proves the types; the rest comes in five layers.

1. `ConsentInv`, for `ConsentHolds` (`ConsentBehindOn`). The property
   itself is not inductive: what is written is a copy read long before, perhaps by a
   request that never consented. `CopiesBacked` follows the consent through the copies: when
   a request on its way holds a copy in which the search is on, its conversation has a
   request with a reason (`Backed`). A request keeps its conversation and its reason once it
   is made, so a backed conversation stays backed (`NoReasonYet` is needed for the requests
   that do not have a conversation yet).
2. `MemoInv`, for `SwitchDecides`: what each place says of the copy a request loaded, the
   switch it carries and why the search is on.
3. `FiledInv`, for `AnswerAfterQuestion`: which of its rows a request has saved at its place.
4. `StoredInv`, for `ToldIsStored`: as long as a request without switch is alone in its
   conversation, its copy and the column agree, or it is about to write what differs. A
   second assignment of the same dictionary writes nothing; the layer shows that a request
   that is alone does not need it.
5. `ShownInv`, for `PagesShowRows` (`PageShowsRows`): a page waits for at most one request,
   which it sent; its bubbles mirror the rows of its conversation, followed by the question
   and the answer of that request as far as they are not rows yet (`Mirror`).

`ChatHolds` puts 1 to 4 together. Nearly every step of the endpoint is one request that goes
on and writes the column of its conversation or nothing, so each layer proves that kind of step once. The
proofs need neither the bound on requests at once nor that a second write is lost.

### ToolLoop and ExportTask

`LoopSafe` proves `LoopInv`. Of a file: attempts take turns, each starts when the one before
is over, so that at most one can write the row (`InTurn`); an attempt about to write `ready`
has its object (`HasObject`); the row is the tool's until it has sent the message
(`ToolFirst`). A commit that was done and raised leaves a ready row behind an attempt that
is retried: the row keeps its file until the next attempt begins (`FileFrom`), and only such
a commit takes a row back from ready, so that a card that offers the file is right to
(`CardKeeps`). Of the loop: what was submitted
is listed or will be (`NothingForgotten`), and a miss stays a need for a search until the
search was made or the rounds are used up (`Rounds`).

### Backfill

These proofs are the last part of `KnowledgeProofs`. `LexicalPassComplete` proves `LexicalComplete` for any number of documents, chunks, index
runs and passes. Its invariant is about the script's cursor: behind it every document has
its records, unless a failure was counted or the document is still in the page in hand; of
the document in hand, the chunks without a record are among those the script has read,
because whatever an index run commits meanwhile brings its records with it.

`ContextPassComplete` proves `ContextsComplete` with `PassInv`. Here the script has to have
read all chunks and all blocks of the document in hand, or an index run met it (`Unseen`).
What links two chunks to one block must survive that both sides name blocks on their own
and group chunks differently (`Apart`), and a document that is complete stays so in every step but the script's
(`Steady`).

### KnowledgeBases, UsageStats, Sources and Ingest

`KnowledgeProofs` begins with four modules whose properties speak of lists and sums. They
need induction over data. What a recursive function computes is argued without an induction
theorem: a set of numbers that is not empty has a least one (`LeastNat`, because `<` is
well-founded), so a statement that fails for some number fails for a least one, and that
it follows for a number from its predecessor gives the contradiction. `Stepwise` shows in
this way that a function defined step by step exists, `FlattenStepwise` and `SumOfTable`
what the folds of `FlattenSeq` and of a sum are.

* `DeletionIsSafe` proves `DeletionSparesDocuments`. Between the two halves of a deletion, a
  document of the base that was not loaded had its row inserted since (`LateRowsRaced`); and
  what was loaded makes the deletion fail instead of cascading.
* `BasesAgree` proves `BasesInv`: an object is put before its row and removed after it
  (`ObjectInv`); a user's department stays among those offered; and the pages of a list, one
  behind the other, are the list (`PagesOfOne`, `ListsAll`). Rows are inserted at moments
  that differ (`MomentsApart`), so that the order by moment is one (`OneOrder`).
* `TrendsAddUp` proves `TrendAddsUp`: the days of a period split the rows of the
  period (`CountedByDay`), because no row is of a day to come (`DaysPassed`).
* `BlocksGathered` proves `SourcesInv`: a block is in the queue or was asked, never both
  (`NotAskedYet`), what is in the map was listed in an answer and the other way round
  (`Gathering`). It covers that a list names a block twice, which the code's dictionary
  takes up once.
* `TextsAndVectorsFit` proves `IngestInv`: a page that needs a transcription waits, is being
  read or was read (`NoPageForgotten`); the texts are made of them in the order of pages,
  whatever order they were read in, with the links of the images of their page; after each
  batch the vectors are, as long as no answer lacked one, those of the first pieces
  (`VectorsOf`). A missing vector is never made up for, so the count that `batch_insert_chunks`
  compares tells it.

### Retrieval and ContextBlocks

`RetrievalProofs` is about the longest computations of the project. First what lists in an
order are: a finite set has a list in a strict order (`InOrderLists`), a list without
repetitions is one (`OrderedAs`), a sorted list has all members, the greatest keys first
(`Sorted`), selecting and cutting keep the order (`Selected`, `BeginningOf`), and a loop that keeps or skips each member gives the members it
kept in their order (`LoopKeeps`, `LoopSkipped`).

`RetrievalKeeps` proves `RetrievalInv` from `SearchInv`, which says for each point of a
search what it has worked out so far: the candidates are the fusion of both channels without
the missing rows, the pairs are candidates, the results are what the post-processing
returns, and every entry of the cache is an answer of the service to the candidates it is
stored for. The state alone then gives the properties:

* `FusionKeepsOrder`: a chunk no channel ranks behind another has a greater score, exactly,
  because the score is a sum over a common denominator each rank divides (`CommonIs`,
  `LessOfMore`, `AheadScoresMore`); the sort, the cut and the missing rows keep the order.
* `CacheTransparent`: an answer that covers every candidate lost no score (`AnswersAre`), so
  it is the service's complete answer; and a prefix with other candidates has another key.
* `NothingLostNeedlessly`: what the two loops skip is a duplicate of, or shares a document
  with, what they kept before it (`DeduplicatedIs`, `DocumentLimitedIs`, `ReturnedIs`), and
  what comes before in a list comes before in the order of the rerank or of the fusion. What
  was kept before may itself be skipped by the second loop, as duplicates go before the
  share of a document is counted: then the text is in no result, and the property says so.
* `AlwaysReranks`: under `GapIsSmall` no two candidates are further apart than the gap
  (`GapIs`, `GapNeverSkips`). The shipped settings (`core/config.py:71, 75, 86, 87`: `rrf_k`
  60, 40 rows a channel, a gap of 0.03) satisfy it and so does the run; other settings may not, so that
  it is a condition of the property and no assumption.

`ContextKeeps` proves `ContextInv`. Its invariant `ContextIInv` says that the hits are
different places of the documents, that the chunk kept for an old document is one of it, that
every result holds the chunk its number finds (the hit itself, but for an old document),
whatever was indexed again before or between the two SELECTs, and that the groups are those of
the results. Everything else is what the operators compute for any input:

* `BlocksOfChunks`: after each chunk the blocks so far and the open group chain up to it
  (`Grouping`), and what is flushed is full enough; only the rest at the end may be short.
* `TextHasHit`: neighbouring chunks joined are one stretch of cells (`ChunksJoined`), the
  hit is found where it is (`HitFound`), and each way of cutting around it keeps it inside.
* `WindowGroupsAre`: results taken in the order of their numbers are in one group exactly when
  no gap between them is wider than their windows (`Near`, `Windows`); `GaplessIsNear` ties
  this to `Linked`, which speaks of numbers alone. `AllClasses` puts blocks, windows and lone
  results together: the groups are the classes of `Together`; `GroupListsAre` orders them.
* `BudgetHolds`: the sum of the texts stays within the budget, and once a text is cut the
  budget is spent.

### Only model-checked

* Liveness (`Settles`, `Answered`, `StreamsEnd`, `CardSettles`, `LoopEnds`): fairness and
  `ENABLED` are beyond the prover.

Every other property of the passing runs is a theorem: all safety invariants, the action
properties and both refinements.

Theorems of the library that take an operator as a parameter cannot be used, so that every
data lemma is proved for the definition it is about. For the same reason recursive functions
stand in some definitions where a library operator would (`Poor` in `Ingest`, `Extended` in
`Sources`, the loops of `Retrieval` and `ContextBlocks`), and `Lists` defines sorting and
selecting by the order of the outcome, because `SortSeq` and `SelectSeq` have no definition
the prover can expand.

## 5. Plan

Every part of the program with state of its own has its module, and every safety property of
the runs is proved. What is left:

1. The parts of the table in 1.14 that are modelled as a choice: request routing first, since
   `AgentRun` and `ToolLoop` take any of its results.
2. The statements of section 3 that do not hold, when the code changes: each becomes a
   property of its run, with a theorem.
