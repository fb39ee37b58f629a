-------------------------- MODULE DocumentIndexing --------------------------
(***************************************************************************)
(* Import, reindexing and deletion of documents by the API process         *)
(* (core/application/documents/import_document.py) and the Celery task     *)
(* that indexes them (core/tasks/indexing.py), over the tables documents,  *)
(* chunks and segment_attachment_bindings and the MinIO bucket they share. *)
(*                                                                         *)
(* One action is one access to shared state: the code between two accesses *)
(* is local to its request or task.  The rows one run of the task inserts  *)
(* are inserted and removed together, so a set of chunks is named by the   *)
(* task that wrote it; chunk_context_blocks and the lexical tables change  *)
(* in the same transactions as chunks and are not kept apart from them.    *)
(***************************************************************************)
EXTENDS Integers, FiniteSets

CONSTANTS
    Docs,          \* document ids (uuid4) the model may draw
    Contents,      \* file contents, as far as their MD5 tells them apart
    Linked,        \* contents that link images stored in upload_files
    Requests,      \* API requests
    Tasks,         \* task messages the broker may carry
    NoDoc, NoContent, NoTask,
    MaxRetries,    \* indexing.py:32
    Faults,        \* what the environment may do to the code, see below
    OneAtATime     \* TRUE: requests come one by one, each when nothing runs

(***************************************************************************)
(* "minio", "db": a call to the object store or the database raises.       *)
(* "publish", "republish": the broker refuses a message of an upload, of a *)
(* reindex or a retry.  "stage": parsing, cleaning, chunking or embedding  *)
(* raises, or the file holds no text.  "worker", "api": the process is     *)
(* killed (hard time limit, restart); a task is acknowledged when it       *)
(* starts and not redelivered.                                             *)
(***************************************************************************)
FaultKinds == {"minio", "db", "publish", "republish", "stage", "worker", "api"}

ASSUME ConstantsAssumption ==
    /\ NoDoc \notin Docs
    /\ NoContent \notin Contents
    /\ NoTask \notin Tasks
    /\ Linked \subseteq Contents
    /\ MaxRetries \in Nat
    /\ Faults \subseteq FaultKinds
    /\ OneAtATime \in BOOLEAN

VARIABLES
    status,     \* status[d]: documents.status, or where the id is without a row
    hash,       \* hash[d]: documents.file_hash
    count,      \* count[d]: the run whose number of chunks is documents.chunk_count
    chunks,     \* chunks[d]: the runs whose rows are in table chunks
    bound,      \* runs whose chunks have rows in segment_attachment_bindings
    stored,     \* documents whose file is in the MinIO bucket
    step,       \* step[t]: where task t is
    doc,        \* doc[t]: the argument document_id
    retries,    \* retries[t]: self.request.retries
    victims,    \* victims[t]: the runs whose rows t's transaction deletes
    at,         \* at[r]: where request r is
    target,     \* target[r]: the document r works on
    content     \* content[r]: the content r uploads

tables   == <<status, hash, count, chunks, bound>>
taskVars == <<step, doc, retries, victims>>
reqVars  == <<at, target, content>>
vars     == <<status, hash, count, chunks, bound, stored,
              step, doc, retries, victims, at, target, content>>

-----------------------------------------------------------------------------
(* Documents and the work going on for them.                               *)

RowStatus  == {"pending", "indexing", "ready", "failed"}
NoRowState == {"fresh", "drawn", "gone"}   \* id never drawn, drawn, its row deleted

TaskSteps ==
    {"none", "queued", "marking", "downloading", "downloaded", "parsing",
     "chunking", "embedding", "clearing", "locking", "inserting", "binding",
     "failing", "raised", "done", "lost"}
RequestSteps ==
    {"idle", "storing", "inserting", "publishing", "undoing", "unrowing",
     "republishing", "erasing", "ok", "existing", "error", "lost"}

HasRow(d) == status[d] \in RowStatus

Live(t)   == step[t] \notin {"none", "done", "lost"}
Active(r) == at[r] \notin {"idle", "ok", "existing", "error", "lost"}

\* Nobody works on d: no message is queued or running, no request is half way.
Quiet(d) ==
    /\ \A t \in Tasks : doc[t] = d => ~Live(t)
    /\ \A r \in Requests : target[r] = d => ~Active(r)

Free == ~OneAtATime \/ (/\ \A t \in Tasks : ~Live(t)
                        /\ \A r \in Requests : ~Active(r))

Init ==
    /\ status = [d \in Docs |-> "fresh"]
    /\ hash = [d \in Docs |-> NoContent]
    /\ count = [d \in Docs |-> NoTask]
    /\ chunks = [d \in Docs |-> {}]
    /\ bound = {}
    /\ stored = {}
    /\ step = [t \in Tasks |-> "none"]
    /\ doc = [t \in Tasks |-> NoDoc]
    /\ retries = [t \in Tasks |-> 0]
    /\ victims = [t \in Tasks |-> {}]
    /\ at = [r \in Requests |-> "idle"]
    /\ target = [r \in Requests |-> NoDoc]
    /\ content = [r \in Requests |-> NoContent]

-----------------------------------------------------------------------------
(* Requests.                                                               *)

Goto(r, s) == at' = [at EXCEPT ![r] = s]

\* ImportDocumentUseCase._find_by_hash and _idempotent_result: the documents
\* with the content's hash.  More than one makes scalar_one_or_none raise; one
\* that is ready or in progress answers the request; any other status lets a
\* new document be made.
Upload(r, c) ==
    LET same == {d \in Docs : HasRow(d) /\ hash[d] = c}
    IN  /\ at[r] = "idle" /\ Free
        /\ \/ /\ Cardinality(same) > 1
              /\ Goto(r, "error")
              /\ UNCHANGED content
           \/ /\ Cardinality(same) = 1
              /\ \E d \in same : status[d] \in {"ready", "pending", "indexing"}
              /\ Goto(r, "existing")
              /\ UNCHANGED content
           \/ /\ Cardinality(same) < 2
              /\ \A d \in same : status[d] = "failed"
              /\ Goto(r, "storing")
              /\ content' = [content EXCEPT ![r] = c]
        /\ UNCHANGED <<tables, stored, taskVars, target>>

\* _persist draws the document's id and uploads the file in a thread.
StoreObject(r) ==
    /\ at[r] = "storing"
    /\ \/ \E d \in Docs :
            /\ status[d] = "fresh"
            /\ status' = [status EXCEPT ![d] = "drawn"]
            /\ stored' = stored \union {d}
            /\ target' = [target EXCEPT ![r] = d]
            /\ Goto(r, "inserting")
       \/ /\ "minio" \in Faults
          /\ Goto(r, "error")
          /\ UNCHANGED <<status, stored, target>>
    /\ UNCHANGED <<hash, count, chunks, bound, taskVars, content>>

\* _remove_minio_object_safely: an error is logged and swallowed.
RemoveSafely(d) ==
    \/ stored' = stored \ {d}
    \/ "minio" \in Faults /\ UNCHANGED stored

\* _persist commits the new row, or rolls back and removes the object.
InsertRow(r) ==
    LET d == target[r]
    IN  /\ at[r] = "inserting"
        /\ \/ /\ status' = [status EXCEPT ![d] = "pending"]
              /\ hash' = [hash EXCEPT ![d] = content[r]]
              /\ Goto(r, "publishing")
              /\ UNCHANGED stored
           \/ /\ "db" \in Faults
              /\ status' = [status EXCEPT ![d] = "gone"]
              /\ RemoveSafely(d)
              /\ Goto(r, "error")
              /\ UNCHANGED hash
        /\ UNCHANGED <<count, chunks, bound, taskVars, target, content>>

\* index_document_task.delay
Publish(d) ==
    \E t \in Tasks :
        /\ step[t] = "none"
        /\ step' = [step EXCEPT ![t] = "queued"]
        /\ doc' = [doc EXCEPT ![t] = d]
        /\ UNCHANGED <<retries, victims>>

PublishUpload(r) ==
    /\ at[r] = "publishing"
    /\ \/ Publish(target[r]) /\ Goto(r, "ok")
       \/ "publish" \in Faults /\ Goto(r, "undoing") /\ UNCHANGED taskVars
    /\ UNCHANGED <<tables, stored, target, content>>

\* MUTANT: the object of a refused upload is left behind.
UndoObjectForgotten(r) ==
    /\ at[r] = "undoing"
    /\ Goto(r, "unrowing")
    /\ UNCHANGED <<tables, stored, taskVars, target, content>>

\* The compensation of a refused message: first the object ...
UndoObject(r) ==
    /\ at[r] = "undoing"
    /\ RemoveSafely(target[r])
    /\ Goto(r, "unrowing")
    /\ UNCHANGED <<tables, taskVars, target, content>>

\* A DELETE of chunk rows waits for a transaction that has deleted some of them.
RowsLocked(d) ==
    \E t \in Tasks : step[t] = "inserting" /\ doc[t] = d /\ victims[t] # {}

\* Rows of segment_attachment_bindings refer to chunks and documents without
\* ON DELETE, so rows they refer to cannot be deleted.
Pinned(runs) == runs \intersect bound # {}

\* MUTANT: the schema before migration 0002, deleting a row without its chunks.
EraseRowOnly(d) ==
    /\ status' = [status EXCEPT ![d] = "gone"]
    /\ hash' = [hash EXCEPT ![d] = NoContent]
    /\ count' = [count EXCEPT ![d] = NoTask]
    /\ UNCHANGED <<chunks, bound>>

\* The row of d and, by cascade, everything indexed for it.
EraseRow(d) ==
    /\ status' = [status EXCEPT ![d] = "gone"]
    /\ hash' = [hash EXCEPT ![d] = NoContent]
    /\ count' = [count EXCEPT ![d] = NoTask]
    /\ chunks' = [chunks EXCEPT ![d] = {}]
    /\ UNCHANGED bound

\* ... then the row (_delete_document_safely); errors are swallowed.
UndoRow(r) ==
    LET d == target[r]
    IN  /\ at[r] = "unrowing" /\ ~RowsLocked(d)
        /\ \/ ~Pinned(chunks[d]) /\ EraseRow(d)
           \/ Pinned(chunks[d]) /\ UNCHANGED tables
           \/ "db" \in Faults /\ UNCHANGED tables
        /\ Goto(r, "error")
        /\ UNCHANGED <<stored, taskVars, target, content>>

\* reindex_document: the row is reset and committed ...
Reindex(r, d) ==
    /\ at[r] = "idle" /\ Free
    /\ HasRow(d)
    /\ status' = [status EXCEPT ![d] = "pending"]
    /\ target' = [target EXCEPT ![r] = d]
    /\ Goto(r, "republishing")
    /\ UNCHANGED <<hash, count, chunks, bound, stored, taskVars, content>>

\* MUTANT: a refused reindex is compensated like a refused upload.
PublishReindexUndone(r) ==
    /\ at[r] = "republishing"
    /\ \/ Publish(target[r]) /\ Goto(r, "ok") /\ UNCHANGED stored
       \/ /\ "republish" \in Faults
          /\ stored' = stored \ {target[r]}
          /\ Goto(r, "error") /\ UNCHANGED taskVars
    /\ UNCHANGED <<tables, target, content>>

\* ... then a task is sent; a refusal is reported and nothing is undone.
PublishReindex(r) ==
    /\ at[r] = "republishing"
    /\ \/ Publish(target[r]) /\ Goto(r, "ok")
       \/ "republish" \in Faults /\ Goto(r, "error") /\ UNCHANGED taskVars
    /\ UNCHANGED <<tables, stored, target, content>>

\* delete_document removes the object first, whatever becomes of that ...
Delete(r, d) ==
    /\ at[r] = "idle" /\ Free
    /\ HasRow(d)
    /\ RemoveSafely(d)
    /\ target' = [target EXCEPT ![r] = d]
    /\ Goto(r, "erasing")
    /\ UNCHANGED <<tables, taskVars, content>>

\* ... then the row.  A second delete of the same row finds nothing to delete.
DeleteRow(r) ==
    LET d == target[r]
    IN  /\ at[r] = "erasing" /\ ~RowsLocked(d)
        /\ \/ ~Pinned(chunks[d]) /\ EraseRow(d) /\ Goto(r, "ok")
           \/ Pinned(chunks[d]) /\ Goto(r, "error") /\ UNCHANGED tables
           \/ "db" \in Faults /\ Goto(r, "error") /\ UNCHANGED tables
        /\ UNCHANGED <<stored, taskVars, target, content>>

\* The API process stops in the middle of a request.
KillRequest(r) ==
    /\ "api" \in Faults /\ Active(r)
    /\ Goto(r, "lost")
    /\ UNCHANGED <<tables, stored, taskVars, target, content>>

-----------------------------------------------------------------------------
(* The task index_document_task.                                           *)

Advance(t, s) == step' = [step EXCEPT ![t] = s]

\* MUTANT: a ready document keeps its status but not its chunk_count.
UpdateStatusSparingReady(d, s, n) ==
    /\ status' = IF HasRow(d) /\ status[d] # "ready" THEN [status EXCEPT ![d] = s] ELSE status
    /\ count' = IF HasRow(d) THEN [count EXCEPT ![d] = n] ELSE count
    /\ UNCHANGED <<hash, chunks, bound>>

\* update_document_status overwrites status and chunk_count whatever they are;
\* without a row it updates nothing.
UpdateStatus(d, s, n) ==
    /\ status' = IF HasRow(d) THEN [status EXCEPT ![d] = s] ELSE status
    /\ count' = IF HasRow(d) THEN [count EXCEPT ![d] = n] ELSE count
    /\ UNCHANGED <<hash, chunks, bound>>

\* A call to the database raises: the stage's handler, whose own write fails
\* as well, passes the error on to the handler of the whole task.
DatabaseDown(t) ==
    /\ "db" \in Faults
    /\ Advance(t, "raised")
    /\ UNCHANGED tables

\* The worker takes the message (after the countdown, if it is a retry) and
\* selects the document; without one it returns and writes nothing.
Start(t) ==
    /\ step[t] = "queued"
    /\ \/ Advance(t, IF HasRow(doc[t]) THEN "marking" ELSE "done") /\ UNCHANGED tables
       \/ DatabaseDown(t)
    /\ UNCHANGED <<stored, doc, retries, victims, reqVars>>

MarkIndexing(t) ==
    /\ step[t] = "marking"
    /\ \/ UpdateStatus(doc[t], "indexing", NoTask) /\ Advance(t, "downloading")
       \/ DatabaseDown(t)
    /\ UNCHANGED <<stored, doc, retries, victims, reqVars>>

\* download_from_minio fails when the object has been deleted.
Download(t) ==
    /\ step[t] = "downloading"
    /\ \/ doc[t] \in stored /\ Advance(t, "downloaded")
       \/ /\ doc[t] \notin stored \/ "minio" \in Faults
          /\ Advance(t, "failing")
    /\ UNCHANGED <<tables, stored, doc, retries, victims, reqVars>>

MarkDownloaded(t) ==
    /\ step[t] = "downloaded"
    /\ \/ UpdateStatus(doc[t], "indexing", NoTask) /\ Advance(t, "parsing")
       \/ DatabaseDown(t)
    /\ UNCHANGED <<stored, doc, retries, victims, reqVars>>

\* Parsing and cleaning, then progress 30.  An error of the parser is written
\* to the row by its handler, one of the cleaner has no handler of its own.
Parse(t) ==
    /\ step[t] = "parsing"
    /\ \/ UpdateStatus(doc[t], "indexing", NoTask) /\ Advance(t, "chunking")
       \/ /\ "stage" \in Faults
          /\ \E s \in {"failing", "raised"} : Advance(t, s)
          /\ UNCHANGED tables
       \/ DatabaseDown(t)
    /\ UNCHANGED <<stored, doc, retries, victims, reqVars>>

\* MUTANT: a file without text ends the task before the row is told.
ChunkEmptySilently(t) ==
    /\ step[t] = "chunking"
    /\ \/ UpdateStatus(doc[t], "indexing", t) /\ Advance(t, "embedding")
       \/ "stage" \in Faults /\ Advance(t, "done") /\ UNCHANGED tables
    /\ UNCHANGED <<stored, doc, retries, victims, reqVars>>

\* Chunking, then progress 80 with the number of chunks.  No chunks at all end
\* the task: the row is failed and nothing is retried.
Chunk(t) ==
    /\ step[t] = "chunking"
    /\ \/ UpdateStatus(doc[t], "indexing", t) /\ Advance(t, "embedding")
       \/ /\ "stage" \in Faults
          /\ \/ Advance(t, "failing") /\ UNCHANGED tables
             \/ Advance(t, "done") /\ UpdateStatus(doc[t], "failed", NoTask)
       \/ DatabaseDown(t)
    /\ UNCHANGED <<stored, doc, retries, victims, reqVars>>

Embed(t) ==
    /\ step[t] = "embedding"
    /\ \/ Advance(t, "clearing")
       \/ "stage" \in Faults /\ Advance(t, "failing")
    /\ UNCHANGED <<tables, stored, doc, retries, victims, reqVars>>

\* batch_insert_chunks, READ COMMITTED: the statement DELETE FROM chunks sees
\* the rows committed when it starts ...
ClearOld(t) ==
    /\ step[t] = "clearing"
    /\ victims' = [victims EXCEPT ![t] = chunks[doc[t]]]
    /\ Advance(t, "locking")
    /\ UNCHANGED <<tables, stored, doc, retries, reqVars>>

\* MUTANT: the old rows are deleted in a transaction of their own.
LockOldAutocommit(t) ==
    /\ step[t] = "locking"
    /\ chunks' = [chunks EXCEPT ![doc[t]] = @ \ victims[t]]
    /\ victims' = [victims EXCEPT ![t] = {}]
    /\ Advance(t, "inserting")
    /\ UNCHANGED <<status, hash, count, bound, stored, doc, retries, reqVars>>

\* MUTANT: nothing is deleted before the new rows are inserted.
LockOldNothing(t) ==
    /\ step[t] = "locking"
    /\ victims' = [victims EXCEPT ![t] = {}]
    /\ Advance(t, "inserting")
    /\ UNCHANGED <<tables, stored, doc, retries, reqVars>>

\* ... waits for those another transaction is deleting, and deletes what is
\* left of them, never rows that were committed meanwhile.  Rows that image
\* bindings refer to make it fail.
LockOld(t) ==
    LET left == victims[t] \intersect chunks[doc[t]]
    IN  /\ step[t] = "locking"
        /\ \A u \in Tasks \ {t} :
              step[u] = "inserting" => victims[u] \intersect victims[t] = {}
        /\ \/ /\ ~Pinned(left)
              /\ victims' = [victims EXCEPT ![t] = left]
              /\ Advance(t, "inserting")
           \/ /\ Pinned(left) \/ "db" \in Faults
              /\ victims' = [victims EXCEPT ![t] = {}]
              /\ Advance(t, "failing")
        /\ UNCHANGED <<tables, stored, doc, retries, reqVars>>

\* The new rows, the status and the count are committed with the deletion, or
\* nothing is: without the document's row the inserts break a foreign key.
CommitChunks(t) ==
    LET d == doc[t]
    IN  /\ step[t] = "inserting"
        /\ \/ /\ HasRow(d)
              /\ chunks' = [chunks EXCEPT ![d] = (@ \ victims[t]) \union {t}]
              /\ status' = [status EXCEPT ![d] = "ready"]
              /\ count' = [count EXCEPT ![d] = t]
              /\ Advance(t, "binding")
              /\ UNCHANGED <<hash, bound>>
           \/ /\ ~HasRow(d) \/ "db" \in Faults
              /\ Advance(t, "failing")
              /\ UNCHANGED tables
        /\ victims' = [victims EXCEPT ![t] = {}]
        /\ UNCHANGED <<stored, doc, retries, reqVars>>

\* ImageBinder inserts a binding per linked image, waiting for a transaction
\* that is deleting the chunks; an error is only logged.
BindImages(t) ==
    LET d == doc[t]
    IN  /\ step[t] = "binding"
        /\ \A u \in Tasks : step[u] = "inserting" => t \notin victims[u]
        /\ \/ t \in chunks[d] /\ hash[d] \in Linked /\ bound' = bound \union {t}
           \/ /\ t \notin chunks[d] \/ hash[d] \notin Linked \/ "db" \in Faults
              /\ UNCHANGED bound
        /\ Advance(t, "done")
        /\ UNCHANGED <<status, hash, count, chunks, stored, doc, retries, victims, reqVars>>

\* A stage's handler writes failed, with chunk_count 0, and raises again.
FailStage(t) ==
    /\ step[t] = "failing"
    /\ \/ UpdateStatus(doc[t], "failed", NoTask) /\ Advance(t, "raised")
       \/ DatabaseDown(t)
    /\ UNCHANGED <<stored, doc, retries, victims, reqVars>>

\* MUTANT: giving up returns without writing the row.
RetryOrGiveUpSilently(t) ==
    /\ step[t] = "raised"
    /\ \/ /\ retries[t] < MaxRetries
          /\ retries' = [retries EXCEPT ![t] = @ + 1]
          /\ Advance(t, "queued")
       \/ retries[t] = MaxRetries /\ Advance(t, "done") /\ UNCHANGED retries
    /\ UNCHANGED <<tables, stored, doc, victims, reqVars>>

\* The task's handler sends the message again or gives up.
RetryOrGiveUp(t) ==
    /\ step[t] = "raised"
    /\ \/ /\ retries[t] < MaxRetries
          /\ retries' = [retries EXCEPT ![t] = @ + 1]
          /\ Advance(t, "queued")
          /\ UNCHANGED tables
       \/ /\ retries[t] < MaxRetries /\ "republish" \in Faults
          /\ Advance(t, "done")
          /\ UNCHANGED <<tables, retries>>
       \/ /\ retries[t] = MaxRetries
          /\ \/ UpdateStatus(doc[t], "failed", NoTask)
             \/ "db" \in Faults /\ UNCHANGED tables
          /\ Advance(t, "done")
          /\ UNCHANGED retries
    /\ UNCHANGED <<stored, doc, victims, reqVars>>

\* The worker process is killed; the database rolls its transaction back.  A
\* message that is only queued survives.
KillWorker(t) ==
    /\ "worker" \in Faults
    /\ Live(t) /\ step[t] # "queued"
    /\ Advance(t, "lost")
    /\ victims' = [victims EXCEPT ![t] = {}]
    /\ UNCHANGED <<tables, stored, doc, retries, reqVars>>

-----------------------------------------------------------------------------
RequestStep(r) ==
    \/ StoreObject(r)
    \/ InsertRow(r)
    \/ PublishUpload(r)
    \/ UndoObject(r)
    \/ UndoRow(r)
    \/ PublishReindex(r)
    \/ DeleteRow(r)

TaskStep(t) ==
    \/ Start(t)
    \/ MarkIndexing(t)
    \/ Download(t)
    \/ MarkDownloaded(t)
    \/ Parse(t)
    \/ Chunk(t)
    \/ Embed(t)
    \/ ClearOld(t)
    \/ LockOld(t)
    \/ CommitChunks(t)
    \/ BindImages(t)
    \/ FailStage(t)
    \/ RetryOrGiveUp(t)

Next ==
    \/ \E r \in Requests :
          \/ \E c \in Contents : Upload(r, c)
          \/ \E d \in Docs : Reindex(r, d)
          \/ \E d \in Docs : Delete(r, d)
          \/ RequestStep(r)
          \/ KillRequest(r)
    \/ \E t \in Tasks : TaskStep(t) \/ KillWorker(t)

Spec == Init /\ [][Next]_vars

\* Once begun, a request is carried on by the event loop and a message by a
\* worker; that somebody asks for something is not assumed.
FairSpec ==
    /\ Spec
    /\ \A r \in Requests : WF_vars(RequestStep(r))
    /\ \A t \in Tasks : WF_vars(TaskStep(t))

-----------------------------------------------------------------------------
TypeOK ==
    /\ status \in [Docs -> RowStatus \union NoRowState]
    /\ hash \in [Docs -> Contents \union {NoContent}]
    /\ count \in [Docs -> Tasks \union {NoTask}]
    /\ chunks \in [Docs -> SUBSET Tasks]
    /\ bound \subseteq Tasks
    /\ stored \subseteq Docs
    /\ step \in [Tasks -> TaskSteps]
    /\ doc \in [Tasks -> Docs \union {NoDoc}]
    /\ retries \in [Tasks -> 0..MaxRetries]
    /\ victims \in [Tasks -> SUBSET Tasks]
    /\ at \in [Requests -> RequestSteps]
    /\ target \in [Requests -> Docs \union {NoDoc}]
    /\ content \in [Requests -> Contents \union {NoContent}]

\* Reindexing replaces the chunks of a document in one transaction: whatever
\* overlaps, fails or is killed, a document that has chunks has chunks until
\* it is deleted (batch_insert_chunks).
NeverUnindexed ==
    [][\A d \in Docs :
          HasRow(d) /\ chunks[d] # {} /\ HasRow(d)' => chunks'[d] # {}]_vars

\* What the list shows for a ready document, chunk_count, counts rows that are
\* stored: no late status write of another run separates the two.
ReadyCountsStoredRun ==
    \A d \in Docs : status[d] = "ready" => count[d] \in chunks[d]

\* The chunks of a deleted document are gone and stay gone, also when a run
\* that began before the deletion commits after it.
NoOrphanChunks ==
    \A d \in Docs : ~HasRow(d) => chunks[d] = {}

\* A ready document holds the chunks of exactly one run, the one its
\* chunk_count is from: old and new vectors never coexist (the reason
\* indexing.py:578-579 gives for deleting first).
ExactIndex ==
    \A d \in Docs : status[d] = "ready" => chunks[d] = {count[d]}

\* When nobody works on a document any more it is ready or failed, never left
\* pending or indexing, states in which an upload of the same file is answered
\* "already being indexed" and does nothing.
NoStall ==
    \A d \in Docs : HasRow(d) /\ Quiet(d) => status[d] \in {"ready", "failed"}

\* The bucket holds no file that no row refers to and no request still works
\* on: the compensation of _persist and the deletion clean up behind them.
NoOrphanObject ==
    \A d \in stored : HasRow(d) \/ ~Quiet(d)

\* A document whose row exists can be indexed again: its file is kept until a
\* deletion takes both (delete_document: "MinIO object + DB record").
SourceKept ==
    \A d \in Docs : HasRow(d) /\ Quiet(d) => d \in stored

\* One content is one document of the knowledge base unless indexing it has
\* failed: the hash lookup is there for that (tables.py:89, MD5 for idempotence).
OneDocumentPerContent ==
    \A d, e \in Docs :
        /\ status[d] \in RowStatus \ {"failed"}
        /\ status[e] \in RowStatus \ {"failed"}
        /\ hash[d] = hash[e]
        => d = e

\* DocumentStatus is the single source of status values, and the domain object
\* recognises a failed document by its ERROR ("error").
DomainStatus == {"pending", "indexing", "ready", "error"}
StatusIsDomainStatus ==
    \A d \in Docs : HasRow(d) => status[d] \in DomainStatus

\* Whatever is accepted or sent back to the queue settles: the document becomes
\* ready or failed, or goes away.
Settles ==
    \A d \in Docs :
        status[d] \in {"pending", "indexing"}
            ~> status[d] \in {"ready", "failed", "gone"}

-----------------------------------------------------------------------------
(* What makes the safety properties inductive.                             *)

\* A task in the queue or beyond, and a request past drawing an id, have a
\* document.
Addressed ==
    /\ \A t \in Tasks : step[t] # "none" => doc[t] \in Docs
    /\ \A r \in Requests :
          Active(r) /\ at[r] # "storing" => target[r] \in Docs

\* An id is drawn by one request, and only that request turns it into a row;
\* the later steps of a request concern a document that has or had a row.
DrawnOnce ==
    /\ \A r, q \in Requests :
          at[r] = "inserting" /\ at[q] = "inserting" /\ target[r] = target[q] => r = q
    /\ \A r \in Requests :
          /\ at[r] = "inserting" => status[target[r]] = "drawn"
          /\ Active(r) /\ at[r] \notin {"storing", "inserting"}
                => status[target[r]] \in RowStatus \union {"gone"}

\* The typed state with what the tables and the actors owe each other under any
\* overlap of requests and tasks, and any faults.
OverlapInv ==
    TypeOK /\ Addressed /\ DrawnOnce /\ ReadyCountsStoredRun /\ NoOrphanChunks

\* Requests that wait for each other leave at most one actor in the system.
OneActor ==
    /\ \A t, u \in Tasks : Live(t) /\ Live(u) => t = u
    /\ \A r, q \in Requests : Active(r) /\ Active(q) => r = q
    /\ \A t \in Tasks, r \in Requests : ~(Live(t) /\ Active(r))

\* The transaction in progress deletes all the rows its document has, and a run
\* that has written its rows has nothing left to do but to bind images.
WholeReplacement ==
    /\ \A t \in Tasks : step[t] \in {"locking", "inserting"} => victims[t] = chunks[doc[t]]
    /\ \A d \in Docs : \A t \in chunks[d] : step[t] \in {"binding", "done", "lost"}

\* With one request at a time, the exact index is inductive.
SerialInv == OverlapInv /\ OneActor /\ WholeReplacement /\ ExactIndex

-----------------------------------------------------------------------------
\* Retrieval's view of the same tables.
Search == INSTANCE SearchableIndex WITH
    Runs   <- Tasks,
    exists <- {d \in Docs : HasRow(d)},
    ready  <- [d \in Docs |-> status[d] = "ready"],
    index  <- chunks

\* With one request at a time this module implements that view.
SearchSpec == Search!Spec
=============================================================================
