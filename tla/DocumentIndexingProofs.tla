----------------------- MODULE DocumentIndexingProofs -----------------------
(***************************************************************************)
(* Theorems about DocumentIndexing, for every set of documents, requests   *)
(* and tasks, every number of retries and every choice of faults.          *)
(***************************************************************************)
EXTENDS DocumentIndexing, TLAPS

\* Every action leaves each variable in its range and keeps the document of
\* every task and request a member of Docs.
LEMMA TypedStep ==
    ASSUME TypeOK, Addressed, [Next]_vars
    PROVE  TypeOK' /\ Addressed'
<1> USE ConstantsAssumption DEF TypeOK, Addressed, Active, Goto, Advance,
        UpdateStatus, DatabaseDown, tables, taskVars, reqVars,
        RowStatus, NoRowState, TaskSteps, RequestSteps
<1>1. ASSUME NEW r \in Requests, NEW c \in Contents, Upload(r, c) PROVE TypeOK' /\ Addressed'
  BY <1>1 DEF Upload
<1>2. ASSUME NEW r \in Requests, NEW d \in Docs, Reindex(r, d) PROVE TypeOK' /\ Addressed'
  BY <1>2 DEF Reindex
<1>3. ASSUME NEW r \in Requests, NEW d \in Docs, Delete(r, d) PROVE TypeOK' /\ Addressed'
  BY <1>3 DEF Delete, RemoveSafely
<1>4. ASSUME NEW r \in Requests, RequestStep(r) PROVE TypeOK' /\ Addressed'
  <2>1. CASE StoreObject(r) BY <2>1 DEF StoreObject
  <2>2. CASE InsertRow(r) BY <2>2 DEF InsertRow, RemoveSafely
  <2>3. CASE PublishUpload(r) BY <2>3 DEF PublishUpload, Publish
  <2>4. CASE UndoObject(r) BY <2>4 DEF UndoObject, RemoveSafely
  <2>5. CASE UndoRow(r) BY <2>5 DEF UndoRow, EraseRow, RowsLocked
  <2>6. CASE PublishReindex(r) BY <2>6 DEF PublishReindex, Publish
  <2>7. CASE DeleteRow(r) BY <2>7 DEF DeleteRow, EraseRow, RowsLocked
  <2> QED BY <1>4, <2>1, <2>2, <2>3, <2>4, <2>5, <2>6, <2>7 DEF RequestStep
<1>5. ASSUME NEW r \in Requests, KillRequest(r) PROVE TypeOK' /\ Addressed'
  BY <1>5 DEF KillRequest
<1>6. ASSUME NEW t \in Tasks, TaskStep(t) PROVE TypeOK' /\ Addressed'
  <2>1. CASE Start(t) BY <2>1 DEF Start
  <2>2. CASE MarkIndexing(t) BY <2>2 DEF MarkIndexing
  <2>3. CASE Download(t) BY <2>3 DEF Download
  <2>4. CASE MarkDownloaded(t) BY <2>4 DEF MarkDownloaded
  <2>5. CASE Parse(t) BY <2>5 DEF Parse
  <2>6. CASE Chunk(t) BY <2>6 DEF Chunk
  <2>7. CASE Embed(t) BY <2>7 DEF Embed
  <2>8. CASE ClearOld(t) BY <2>8 DEF ClearOld
  <2>9. CASE LockOld(t) BY <2>9 DEF LockOld, Pinned
  <2>10. CASE CommitChunks(t) BY <2>10 DEF CommitChunks
  <2>11. CASE BindImages(t) BY <2>11 DEF BindImages
  <2>12. CASE FailStage(t) BY <2>12 DEF FailStage
  <2>13. CASE RetryOrGiveUp(t) BY <2>13 DEF RetryOrGiveUp
  <2> QED BY <1>6, <2>1, <2>2, <2>3, <2>4, <2>5, <2>6, <2>7,
         <2>8, <2>9, <2>10, <2>11, <2>12, <2>13 DEF TaskStep
<1>7. ASSUME NEW t \in Tasks, KillWorker(t) PROVE TypeOK' /\ Addressed'
  BY <1>7 DEF KillWorker, Live
<1>8. CASE UNCHANGED vars BY <1>8 DEF vars
<1> QED BY <1>1, <1>2, <1>3, <1>4, <1>5, <1>6, <1>7, <1>8 DEF Next

\* A drawn id stays with its request until that makes it a row.
LEMMA DrawnStep ==
    ASSUME TypeOK, Addressed, DrawnOnce, [Next]_vars
    PROVE  DrawnOnce'
<1> USE ConstantsAssumption DEF TypeOK, Addressed, DrawnOnce, Active, Goto, Advance,
        HasRow, UpdateStatus, DatabaseDown, tables, taskVars, reqVars,
        RowStatus, NoRowState, RequestSteps
<1>1. ASSUME NEW r \in Requests, NEW c \in Contents, Upload(r, c) PROVE DrawnOnce'
  BY <1>1 DEF Upload
<1>2. ASSUME NEW r \in Requests, NEW d \in Docs, Reindex(r, d) PROVE DrawnOnce'
  BY <1>2 DEF Reindex
<1>3. ASSUME NEW r \in Requests, NEW d \in Docs, Delete(r, d) PROVE DrawnOnce'
  BY <1>3 DEF Delete, RemoveSafely
<1>4. ASSUME NEW r \in Requests, RequestStep(r) PROVE DrawnOnce'
  <2>1. CASE StoreObject(r) BY <2>1 DEF StoreObject
  <2>2. CASE InsertRow(r) BY <2>2 DEF InsertRow, RemoveSafely
  <2>3. CASE PublishUpload(r) BY <2>3 DEF PublishUpload, Publish
  <2>4. CASE UndoObject(r) BY <2>4 DEF UndoObject, RemoveSafely
  <2>5. CASE UndoRow(r) BY <2>5 DEF UndoRow, EraseRow, RowsLocked
  <2>6. CASE PublishReindex(r) BY <2>6 DEF PublishReindex, Publish
  <2>7. CASE DeleteRow(r) BY <2>7 DEF DeleteRow, EraseRow, RowsLocked
  <2> QED BY <1>4, <2>1, <2>2, <2>3, <2>4, <2>5, <2>6, <2>7 DEF RequestStep
<1>5. ASSUME NEW r \in Requests, KillRequest(r) PROVE DrawnOnce'
  BY <1>5 DEF KillRequest
<1>6. ASSUME NEW t \in Tasks, TaskStep(t) PROVE DrawnOnce'
  <2>1. CASE Start(t) BY <2>1 DEF Start
  <2>2. CASE MarkIndexing(t) BY <2>2 DEF MarkIndexing
  <2>3. CASE Download(t) BY <2>3 DEF Download
  <2>4. CASE MarkDownloaded(t) BY <2>4 DEF MarkDownloaded
  <2>5. CASE Parse(t) BY <2>5 DEF Parse
  <2>6. CASE Chunk(t) BY <2>6 DEF Chunk
  <2>7. CASE Embed(t) BY <2>7 DEF Embed
  <2>8. CASE ClearOld(t) BY <2>8 DEF ClearOld
  <2>9. CASE LockOld(t) BY <2>9 DEF LockOld
  <2>10. CASE CommitChunks(t) BY <2>10 DEF CommitChunks
  <2>11. CASE BindImages(t) BY <2>11 DEF BindImages
  <2>12. CASE FailStage(t) BY <2>12 DEF FailStage
  <2>13. CASE RetryOrGiveUp(t) BY <2>13 DEF RetryOrGiveUp
  <2> QED BY <1>6, <2>1, <2>2, <2>3, <2>4, <2>5, <2>6, <2>7,
         <2>8, <2>9, <2>10, <2>11, <2>12, <2>13 DEF TaskStep
<1>7. ASSUME NEW t \in Tasks, KillWorker(t) PROVE DrawnOnce'
  BY <1>7 DEF KillWorker
<1>8. CASE UNCHANGED vars BY <1>8 DEF vars
<1> QED BY <1>1, <1>2, <1>3, <1>4, <1>5, <1>6, <1>7, <1>8 DEF Next

\* The rows of a document, its status and its chunk_count agree after every
\* step, because one transaction writes the three of them.
LEMMA TablesStep ==
    ASSUME TypeOK, Addressed, DrawnOnce, ReadyCountsStoredRun, NoOrphanChunks, [Next]_vars
    PROVE  ReadyCountsStoredRun' /\ NoOrphanChunks'
<1> USE ConstantsAssumption DEF TypeOK, Addressed, DrawnOnce, ReadyCountsStoredRun, NoOrphanChunks,
        Active, Goto, Advance, HasRow, UpdateStatus, DatabaseDown, tables, taskVars,
        reqVars, RowStatus, NoRowState
<1>1. ASSUME NEW r \in Requests, NEW c \in Contents, Upload(r, c) PROVE ReadyCountsStoredRun' /\ NoOrphanChunks'
  BY <1>1 DEF Upload
<1>2. ASSUME NEW r \in Requests, NEW d \in Docs, Reindex(r, d) PROVE ReadyCountsStoredRun' /\ NoOrphanChunks'
  BY <1>2 DEF Reindex
<1>3. ASSUME NEW r \in Requests, NEW d \in Docs, Delete(r, d) PROVE ReadyCountsStoredRun' /\ NoOrphanChunks'
  BY <1>3 DEF Delete, RemoveSafely
<1>4. ASSUME NEW r \in Requests, RequestStep(r) PROVE ReadyCountsStoredRun' /\ NoOrphanChunks'
  <2>1. CASE StoreObject(r) BY <2>1 DEF StoreObject
  <2>2. CASE InsertRow(r) BY <2>2 DEF InsertRow, RemoveSafely
  <2>3. CASE PublishUpload(r) BY <2>3 DEF PublishUpload, Publish
  <2>4. CASE UndoObject(r) BY <2>4 DEF UndoObject, RemoveSafely
  <2>5. CASE UndoRow(r) BY <2>5 DEF UndoRow, EraseRow, RowsLocked
  <2>6. CASE PublishReindex(r) BY <2>6 DEF PublishReindex, Publish
  <2>7. CASE DeleteRow(r) BY <2>7 DEF DeleteRow, EraseRow, RowsLocked
  <2> QED BY <1>4, <2>1, <2>2, <2>3, <2>4, <2>5, <2>6, <2>7 DEF RequestStep
<1>5. ASSUME NEW r \in Requests, KillRequest(r) PROVE ReadyCountsStoredRun' /\ NoOrphanChunks'
  BY <1>5 DEF KillRequest
<1>6. ASSUME NEW t \in Tasks, TaskStep(t) PROVE ReadyCountsStoredRun' /\ NoOrphanChunks'
  <2>1. CASE Start(t) BY <2>1 DEF Start
  <2>2. CASE MarkIndexing(t) BY <2>2 DEF MarkIndexing
  <2>3. CASE Download(t) BY <2>3 DEF Download
  <2>4. CASE MarkDownloaded(t) BY <2>4 DEF MarkDownloaded
  <2>5. CASE Parse(t) BY <2>5 DEF Parse
  <2>6. CASE Chunk(t) BY <2>6 DEF Chunk
  <2>7. CASE Embed(t) BY <2>7 DEF Embed
  <2>8. CASE ClearOld(t) BY <2>8 DEF ClearOld
  <2>9. CASE LockOld(t) BY <2>9 DEF LockOld
  <2>10. CASE CommitChunks(t) BY <2>10 DEF CommitChunks
  <2>11. CASE BindImages(t) BY <2>11 DEF BindImages
  <2>12. CASE FailStage(t) BY <2>12 DEF FailStage
  <2>13. CASE RetryOrGiveUp(t) BY <2>13 DEF RetryOrGiveUp
  <2> QED BY <1>6, <2>1, <2>2, <2>3, <2>4, <2>5, <2>6, <2>7,
         <2>8, <2>9, <2>10, <2>11, <2>12, <2>13 DEF TaskStep
<1>7. ASSUME NEW t \in Tasks, KillWorker(t) PROVE ReadyCountsStoredRun' /\ NoOrphanChunks'
  BY <1>7 DEF KillWorker
<1>8. CASE UNCHANGED vars BY <1>8 DEF vars
<1> QED BY <1>1, <1>2, <1>3, <1>4, <1>5, <1>6, <1>7, <1>8 DEF Next

\* No document has a row, a chunk or an id before the first request.
LEMMA OverlapInit == Init => OverlapInv
  BY ConstantsAssumption
  DEF Init, OverlapInv, TypeOK, Addressed, DrawnOnce, ReadyCountsStoredRun, NoOrphanChunks,
      Active, HasRow, RowStatus, NoRowState, TaskSteps, RequestSteps

\* The three step lemmas together make OverlapInv inductive.
LEMMA OverlapStep == OverlapInv /\ [Next]_vars => OverlapInv'
  BY TypedStep, DrawnStep, TablesStep DEF OverlapInv

\* Under any overlap of requests and tasks and any faults, the state is typed,
\* the row, the chunks and the count of every document agree.
THEOREM OverlapSafe == Spec => []OverlapInv
  BY OverlapInit, OverlapStep, PTL DEF Spec

\* The part of it that is about the types of the variables.
THEOREM TypeCorrect == Spec => []TypeOK
<1>1. OverlapInv => TypeOK BY DEF OverlapInv
<1> QED BY OverlapSafe, <1>1, PTL

\* The part of it that is about ready documents: chunk_count is the number of
\* chunks of a run whose rows are stored.
THEOREM ReadyCounts == Spec => []ReadyCountsStoredRun
<1>1. OverlapInv => ReadyCountsStoredRun BY DEF OverlapInv
<1> QED BY OverlapSafe, <1>1, PTL

\* The part of it that is about deletion: no chunk outlives its document.
THEOREM NoOrphans == Spec => []NoOrphanChunks
<1>1. OverlapInv => NoOrphanChunks BY DEF OverlapInv
<1> QED BY OverlapSafe, <1>1, PTL

-----------------------------------------------------------------------------
(* Objects and their rows, and documents left behind.                      *)

\* An object has its row, or the request that stored it is about to insert the row; a
\* request about to delete a row has removed the object.
Referred ==
    /\ \A d \in stored :
          HasRow(d) \/ \E r \in Requests : at[r] = "inserting" /\ target[r] = d
    /\ \A r \in Requests : at[r] \in {"unrowing", "erasing"} => target[r] \notin stored

\* A removal that succeeds comes before its row's, and nobody stores the object again.
LEMMA ReferredStep ==
    ASSUME TypeOK, Addressed, DrawnOnce, "minio" \notin Faults, "api" \notin Faults, Referred, [Next]_vars
    PROVE  Referred'
<1> USE ConstantsAssumption DEF TypeOK, Addressed, DrawnOnce, NoOrphanChunks, Referred, Active, Goto, Advance,
        HasRow, UpdateStatus, DatabaseDown, tables, taskVars, reqVars, RowStatus, NoRowState
<1>1. ASSUME NEW r \in Requests, NEW c \in Contents, Upload(r, c) PROVE Referred'
  BY <1>1 DEF Upload
<1>2. ASSUME NEW r \in Requests, NEW d \in Docs, Reindex(r, d) PROVE Referred'
  BY <1>2 DEF Reindex
<1>3. ASSUME NEW r \in Requests, NEW d \in Docs, Delete(r, d) PROVE Referred'
  BY <1>3 DEF Delete, RemoveSafely
<1>4. ASSUME NEW r \in Requests, RequestStep(r) PROVE Referred'
  <2>1. CASE StoreObject(r) BY <2>1 DEF StoreObject
  <2>2. CASE InsertRow(r) BY <2>2 DEF InsertRow, RemoveSafely
  <2>3. CASE PublishUpload(r) BY <2>3 DEF PublishUpload, Publish
  <2>4. CASE UndoObject(r) BY <2>4 DEF UndoObject, RemoveSafely
  <2>5. CASE UndoRow(r) BY <2>5 DEF UndoRow, EraseRow, RowsLocked, Pinned
  <2>6. CASE PublishReindex(r) BY <2>6 DEF PublishReindex, Publish
  <2>7. CASE DeleteRow(r) BY <2>7 DEF DeleteRow, EraseRow, RowsLocked, Pinned
  <2> QED BY <1>4, <2>1, <2>2, <2>3, <2>4, <2>5, <2>6, <2>7 DEF RequestStep
<1>5. ASSUME NEW r \in Requests, KillRequest(r) PROVE Referred'
  BY <1>5 DEF KillRequest
<1>6. ASSUME NEW t \in Tasks, TaskStep(t) PROVE Referred'
  <2>1. CASE Start(t) BY <2>1 DEF Start
  <2>2. CASE MarkIndexing(t) BY <2>2 DEF MarkIndexing
  <2>3. CASE Download(t) BY <2>3 DEF Download
  <2>4. CASE MarkDownloaded(t) BY <2>4 DEF MarkDownloaded
  <2>5. CASE Parse(t) BY <2>5 DEF Parse
  <2>6. CASE Chunk(t) BY <2>6 DEF Chunk
  <2>7. CASE Embed(t) BY <2>7 DEF Embed
  <2>8. CASE ClearOld(t) BY <2>8 DEF ClearOld
  <2>9. CASE LockOld(t) BY <2>9 DEF LockOld
  <2>10. CASE CommitChunks(t) BY <2>10 DEF CommitChunks
  <2>11. CASE BindImages(t) BY <2>11 DEF BindImages
  <2>12. CASE FailStage(t) BY <2>12 DEF FailStage
  <2>13. CASE RetryOrGiveUp(t) BY <2>13 DEF RetryOrGiveUp
  <2> QED BY <1>6, <2>1, <2>2, <2>3, <2>4, <2>5, <2>6, <2>7,
         <2>8, <2>9, <2>10, <2>11, <2>12, <2>13 DEF TaskStep
<1>7. ASSUME NEW t \in Tasks, KillWorker(t) PROVE Referred'
  BY <1>7 DEF KillWorker
<1>8. CASE UNCHANGED vars BY <1>8 DEF vars
<1> QED BY <1>1, <1>2, <1>3, <1>4, <1>5, <1>6, <1>7, <1>8 DEF Next

\* While the object store answers and the API process runs on, no object stays in the
\* bucket without a row: whatever uploads, refusals and deletions overlap.
THEOREM ObjectsReferred ==
    ASSUME "minio" \notin Faults, "api" \notin Faults PROVE Spec => []NoOrphanObject
<1>1. Init => Referred
  BY DEF Init, Referred
<1>2. OverlapInv /\ Referred /\ [Next]_vars => Referred'
  BY ReferredStep DEF OverlapInv
<1>3. Referred => NoOrphanObject
  BY ConstantsAssumption DEF Referred, NoOrphanObject, Quiet, Active
<1> QED BY <1>1, <1>2, <1>3, OverlapSafe, PTL DEF Spec

\* A row without object is about to be deleted, and no chunk is held by an image.
RowsBacked ==
    /\ \A d \in Docs : HasRow(d) /\ d \notin stored =>
          \E r \in Requests : at[r] \in {"unrowing", "erasing"} /\ target[r] = d
    /\ \A r \in Requests : at[r] = "inserting" => target[r] \in stored
    /\ bound = {}

\* Whoever removes the object of a row goes on to delete the row.
LEMMA RowsBackedStep ==
    ASSUME TypeOK, Addressed, DrawnOnce, Linked = {}, "db" \notin Faults, "api" \notin Faults, RowsBacked, [Next]_vars
    PROVE  RowsBacked'
<1> USE ConstantsAssumption DEF TypeOK, Addressed, DrawnOnce, NoOrphanChunks, RowsBacked, Active, Goto, Advance,
        HasRow, UpdateStatus, DatabaseDown, tables, taskVars, reqVars, RowStatus, NoRowState
<1>1. ASSUME NEW r \in Requests, NEW c \in Contents, Upload(r, c) PROVE RowsBacked'
  BY <1>1 DEF Upload
<1>2. ASSUME NEW r \in Requests, NEW d \in Docs, Reindex(r, d) PROVE RowsBacked'
  BY <1>2 DEF Reindex
<1>3. ASSUME NEW r \in Requests, NEW d \in Docs, Delete(r, d) PROVE RowsBacked'
  BY <1>3 DEF Delete, RemoveSafely
<1>4. ASSUME NEW r \in Requests, RequestStep(r) PROVE RowsBacked'
  <2>1. CASE StoreObject(r) BY <2>1 DEF StoreObject
  <2>2. CASE InsertRow(r) BY <2>2 DEF InsertRow, RemoveSafely
  <2>3. CASE PublishUpload(r) BY <2>3 DEF PublishUpload, Publish
  <2>4. CASE UndoObject(r) BY <2>4 DEF UndoObject, RemoveSafely
  <2>5. CASE UndoRow(r) BY <2>5 DEF UndoRow, EraseRow, RowsLocked, Pinned
  <2>6. CASE PublishReindex(r) BY <2>6 DEF PublishReindex, Publish
  <2>7. CASE DeleteRow(r) BY <2>7 DEF DeleteRow, EraseRow, RowsLocked, Pinned
  <2> QED BY <1>4, <2>1, <2>2, <2>3, <2>4, <2>5, <2>6, <2>7 DEF RequestStep
<1>5. ASSUME NEW r \in Requests, KillRequest(r) PROVE RowsBacked'
  BY <1>5 DEF KillRequest
<1>6. ASSUME NEW t \in Tasks, TaskStep(t) PROVE RowsBacked'
  <2>1. CASE Start(t) BY <2>1 DEF Start
  <2>2. CASE MarkIndexing(t) BY <2>2 DEF MarkIndexing
  <2>3. CASE Download(t) BY <2>3 DEF Download
  <2>4. CASE MarkDownloaded(t) BY <2>4 DEF MarkDownloaded
  <2>5. CASE Parse(t) BY <2>5 DEF Parse
  <2>6. CASE Chunk(t) BY <2>6 DEF Chunk
  <2>7. CASE Embed(t) BY <2>7 DEF Embed
  <2>8. CASE ClearOld(t) BY <2>8 DEF ClearOld
  <2>9. CASE LockOld(t) BY <2>9 DEF LockOld
  <2>10. CASE CommitChunks(t) BY <2>10 DEF CommitChunks
  <2>11. CASE BindImages(t) BY <2>11 DEF BindImages
  <2>12. CASE FailStage(t) BY <2>12 DEF FailStage
  <2>13. CASE RetryOrGiveUp(t) BY <2>13 DEF RetryOrGiveUp
  <2> QED BY <1>6, <2>1, <2>2, <2>3, <2>4, <2>5, <2>6, <2>7,
         <2>8, <2>9, <2>10, <2>11, <2>12, <2>13 DEF TaskStep
<1>7. ASSUME NEW t \in Tasks, KillWorker(t) PROVE RowsBacked'
  BY <1>7 DEF KillWorker
<1>8. CASE UNCHANGED vars BY <1>8 DEF vars
<1> QED BY <1>1, <1>2, <1>3, <1>4, <1>5, <1>6, <1>7, <1>8 DEF Next

\* While the database answers and the API process runs on, a document without linked
\* images keeps its file as long as its row, so it can be indexed again.
THEOREM SourcesKept ==
    ASSUME Linked = {}, "db" \notin Faults, "api" \notin Faults PROVE Spec => []SourceKept
<1>1. Init => RowsBacked
  BY DEF Init, RowsBacked, HasRow, RowStatus
<1>2. OverlapInv /\ RowsBacked /\ [Next]_vars => RowsBacked'
  BY RowsBackedStep DEF OverlapInv
<1>3. RowsBacked => SourceKept
  BY DEF RowsBacked, SourceKept, Quiet, Active
<1> QED BY <1>1, <1>2, <1>3, OverlapSafe, PTL DEF Spec

\* A task that will still write its document's status.
Working(t) == Live(t) /\ step[t] # "binding"

\* A document pending or indexing has a task that will write its status, a request that
\* will send one, or an upload, without any chunks so far, that sends one or deletes the row.
Backed ==
    \A d \in Docs : status[d] \in {"pending", "indexing"} =>
        \/ \E t \in Tasks : doc[t] = d /\ Working(t)
        \/ \E r \in Requests : target[r] = d /\ at[r] = "republishing"
        \/ /\ chunks[d] = {}
           /\ \E r \in Requests : target[r] = d /\ at[r] \in {"publishing", "undoing", "unrowing"}

\* A task writes ready or failed in the step in which it stops working.
LEMMA BackedStep ==
    ASSUME TypeOK, Addressed, DrawnOnce, NoOrphanChunks,
           Faults \intersect {"db", "republish", "worker", "api"} = {}, Backed, [Next]_vars
    PROVE  Backed'
<1> USE ConstantsAssumption DEF TypeOK, Addressed, DrawnOnce, NoOrphanChunks, Backed, Working, Live, Active, Goto, Advance,
        HasRow, UpdateStatus, DatabaseDown, tables, taskVars, reqVars, RowStatus, NoRowState
<1>1. ASSUME NEW r \in Requests, NEW c \in Contents, Upload(r, c) PROVE Backed'
  BY <1>1 DEF Upload
<1>2. ASSUME NEW r \in Requests, NEW d \in Docs, Reindex(r, d) PROVE Backed'
  BY <1>2 DEF Reindex
<1>3. ASSUME NEW r \in Requests, NEW d \in Docs, Delete(r, d) PROVE Backed'
  BY <1>3 DEF Delete, RemoveSafely
<1>4. ASSUME NEW r \in Requests, RequestStep(r) PROVE Backed'
  <2>1. CASE StoreObject(r) BY <2>1 DEF StoreObject
  <2>2. CASE InsertRow(r) BY <2>2 DEF InsertRow, RemoveSafely
  <2>3. CASE PublishUpload(r) BY <2>3 DEF PublishUpload, Publish
  <2>4. CASE UndoObject(r) BY <2>4 DEF UndoObject, RemoveSafely
  <2>5. CASE UndoRow(r) BY <2>5 DEF UndoRow, EraseRow, RowsLocked, Pinned
  <2>6. CASE PublishReindex(r) BY <2>6, SMTT(30) DEF PublishReindex, Publish
  <2>7. CASE DeleteRow(r) BY <2>7 DEF DeleteRow, EraseRow, RowsLocked, Pinned
  <2> QED BY <1>4, <2>1, <2>2, <2>3, <2>4, <2>5, <2>6, <2>7 DEF RequestStep
<1>5. ASSUME NEW r \in Requests, KillRequest(r) PROVE Backed'
  BY <1>5 DEF KillRequest
<1>6. ASSUME NEW t \in Tasks, TaskStep(t) PROVE Backed'
  <2>1. CASE Start(t) BY <2>1 DEF Start
  <2>2. CASE MarkIndexing(t) BY <2>2 DEF MarkIndexing
  <2>3. CASE Download(t) BY <2>3 DEF Download
  <2>4. CASE MarkDownloaded(t) BY <2>4 DEF MarkDownloaded
  <2>5. CASE Parse(t) BY <2>5 DEF Parse
  <2>6. CASE Chunk(t) BY <2>6 DEF Chunk
  <2>7. CASE Embed(t) BY <2>7 DEF Embed
  <2>8. CASE ClearOld(t) BY <2>8 DEF ClearOld
  <2>9. CASE LockOld(t) BY <2>9 DEF LockOld
  <2>10. CASE CommitChunks(t) BY <2>10 DEF CommitChunks
  <2>11. CASE BindImages(t) BY <2>11 DEF BindImages
  <2>12. CASE FailStage(t) BY <2>12 DEF FailStage
  <2>13. CASE RetryOrGiveUp(t) BY <2>13 DEF RetryOrGiveUp
  <2> QED BY <1>6, <2>1, <2>2, <2>3, <2>4, <2>5, <2>6, <2>7,
         <2>8, <2>9, <2>10, <2>11, <2>12, <2>13 DEF TaskStep
<1>7. ASSUME NEW t \in Tasks, KillWorker(t) PROVE Backed'
  BY <1>7 DEF KillWorker
<1>8. CASE UNCHANGED vars BY <1>8 DEF vars
<1> QED BY <1>1, <1>2, <1>3, <1>4, <1>5, <1>6, <1>7, <1>8 DEF Next

\* While the database answers, messages sent again are accepted and no process is killed,
\* a document nobody works on is ready or failed, however its runs overlapped and failed.
THEOREM NothingStalls ==
    ASSUME Faults \intersect {"db", "republish", "worker", "api"} = {} PROVE Spec => []NoStall
<1>1. Init => Backed
  BY DEF Init, Backed
<1>2. OverlapInv /\ Backed /\ [Next]_vars => Backed'
  BY BackedStep DEF OverlapInv
<1>3. Backed => NoStall
  BY DEF Backed, Working, NoStall, Quiet, HasRow, RowStatus, Active
<1> QED BY <1>1, <1>2, <1>3, OverlapSafe, PTL DEF Spec

-----------------------------------------------------------------------------
\* A document with chunks keeps chunks through every step but its deletion.
KeepsChunks == \A d \in Docs : HasRow(d) /\ chunks[d] # {} /\ HasRow(d)' => chunks'[d] # {}

\* Every step is one of those.
LEMMA KeepsChunksStep ==
    ASSUME TypeOK, Addressed, DrawnOnce, [Next]_vars
    PROVE  KeepsChunks
<1> USE ConstantsAssumption DEF TypeOK, Addressed, DrawnOnce, KeepsChunks, Active, Goto, Advance,
        HasRow, UpdateStatus, DatabaseDown, tables, taskVars, reqVars, RowStatus, NoRowState
<1>1. ASSUME NEW r \in Requests, NEW c \in Contents, Upload(r, c) PROVE KeepsChunks
  BY <1>1 DEF Upload
<1>2. ASSUME NEW r \in Requests, NEW d \in Docs, Reindex(r, d) PROVE KeepsChunks
  BY <1>2 DEF Reindex
<1>3. ASSUME NEW r \in Requests, NEW d \in Docs, Delete(r, d) PROVE KeepsChunks
  BY <1>3 DEF Delete, RemoveSafely
<1>4. ASSUME NEW r \in Requests, RequestStep(r) PROVE KeepsChunks
  <2>1. CASE StoreObject(r) BY <2>1 DEF StoreObject
  <2>2. CASE InsertRow(r) BY <2>2 DEF InsertRow, RemoveSafely
  <2>3. CASE PublishUpload(r) BY <2>3 DEF PublishUpload, Publish
  <2>4. CASE UndoObject(r) BY <2>4 DEF UndoObject, RemoveSafely
  <2>5. CASE UndoRow(r) BY <2>5 DEF UndoRow, EraseRow, RowsLocked
  <2>6. CASE PublishReindex(r) BY <2>6 DEF PublishReindex, Publish
  <2>7. CASE DeleteRow(r) BY <2>7 DEF DeleteRow, EraseRow, RowsLocked
  <2> QED BY <1>4, <2>1, <2>2, <2>3, <2>4, <2>5, <2>6, <2>7 DEF RequestStep
<1>5. ASSUME NEW r \in Requests, KillRequest(r) PROVE KeepsChunks
  BY <1>5 DEF KillRequest
<1>6. ASSUME NEW t \in Tasks, TaskStep(t) PROVE KeepsChunks
  <2>1. CASE Start(t) BY <2>1 DEF Start
  <2>2. CASE MarkIndexing(t) BY <2>2 DEF MarkIndexing
  <2>3. CASE Download(t) BY <2>3 DEF Download
  <2>4. CASE MarkDownloaded(t) BY <2>4 DEF MarkDownloaded
  <2>5. CASE Parse(t) BY <2>5 DEF Parse
  <2>6. CASE Chunk(t) BY <2>6 DEF Chunk
  <2>7. CASE Embed(t) BY <2>7 DEF Embed
  <2>8. CASE ClearOld(t) BY <2>8 DEF ClearOld
  <2>9. CASE LockOld(t) BY <2>9 DEF LockOld
  <2>10. CASE CommitChunks(t) BY <2>10, SMTT(30) DEF CommitChunks
  <2>11. CASE BindImages(t) BY <2>11 DEF BindImages
  <2>12. CASE FailStage(t) BY <2>12 DEF FailStage
  <2>13. CASE RetryOrGiveUp(t) BY <2>13 DEF RetryOrGiveUp
  <2> QED BY <1>6, <2>1, <2>2, <2>3, <2>4, <2>5, <2>6, <2>7,
         <2>8, <2>9, <2>10, <2>11, <2>12, <2>13 DEF TaskStep
<1>7. ASSUME NEW t \in Tasks, KillWorker(t) PROVE KeepsChunks
  BY <1>7 DEF KillWorker
<1>8. CASE UNCHANGED vars BY <1>8 DEF vars
<1> QED BY <1>1, <1>2, <1>3, <1>4, <1>5, <1>6, <1>7, <1>8 DEF Next

\* Reindexing never leaves a document without chunks, for any number of runs
\* that overlap, fail or are killed.
THEOREM IndexSurvives == Spec => NeverUnindexed
<1>1. OverlapInv /\ [Next]_vars => [KeepsChunks]_vars
  BY KeepsChunksStep DEF OverlapInv
<1>2. (Spec => [][KeepsChunks]_vars)
  BY <1>1, OverlapSafe, PTL DEF Spec
<1> QED BY <1>2 DEF NeverUnindexed, KeepsChunks

\* A request starts only when nobody is at work, and hands over to its task in
\* the step that ends it.
LEMMA OneActorStep ==
    ASSUME OneAtATime, TypeOK, OneActor, [Next]_vars
    PROVE  OneActor'
<1> USE ConstantsAssumption DEF TypeOK, OneActor, Live, Active, Free, Goto, Advance, DatabaseDown,
        taskVars, reqVars
<1>1. ASSUME NEW r \in Requests, NEW c \in Contents, Upload(r, c) PROVE OneActor'
  BY <1>1 DEF Upload
<1>2. ASSUME NEW r \in Requests, NEW d \in Docs, Reindex(r, d) PROVE OneActor'
  BY <1>2 DEF Reindex
<1>3. ASSUME NEW r \in Requests, NEW d \in Docs, Delete(r, d) PROVE OneActor'
  BY <1>3 DEF Delete, RemoveSafely
<1>4. ASSUME NEW r \in Requests, RequestStep(r) PROVE OneActor'
  <2>1. CASE StoreObject(r) BY <2>1 DEF StoreObject
  <2>2. CASE InsertRow(r) BY <2>2 DEF InsertRow, RemoveSafely
  <2>3. CASE PublishUpload(r) BY <2>3 DEF PublishUpload, Publish
  <2>4. CASE UndoObject(r) BY <2>4 DEF UndoObject, RemoveSafely
  <2>5. CASE UndoRow(r) BY <2>5 DEF UndoRow, EraseRow, RowsLocked
  <2>6. CASE PublishReindex(r) BY <2>6 DEF PublishReindex, Publish
  <2>7. CASE DeleteRow(r) BY <2>7 DEF DeleteRow, EraseRow, RowsLocked
  <2> QED BY <1>4, <2>1, <2>2, <2>3, <2>4, <2>5, <2>6, <2>7 DEF RequestStep
<1>5. ASSUME NEW r \in Requests, KillRequest(r) PROVE OneActor'
  BY <1>5 DEF KillRequest
<1>6. ASSUME NEW t \in Tasks, TaskStep(t) PROVE OneActor'
  <2>1. CASE Start(t) BY <2>1 DEF Start
  <2>2. CASE MarkIndexing(t) BY <2>2 DEF MarkIndexing
  <2>3. CASE Download(t) BY <2>3 DEF Download
  <2>4. CASE MarkDownloaded(t) BY <2>4 DEF MarkDownloaded
  <2>5. CASE Parse(t) BY <2>5 DEF Parse
  <2>6. CASE Chunk(t) BY <2>6 DEF Chunk
  <2>7. CASE Embed(t) BY <2>7 DEF Embed
  <2>8. CASE ClearOld(t) BY <2>8 DEF ClearOld
  <2>9. CASE LockOld(t) BY <2>9 DEF LockOld
  <2>10. CASE CommitChunks(t) BY <2>10 DEF CommitChunks
  <2>11. CASE BindImages(t) BY <2>11 DEF BindImages
  <2>12. CASE FailStage(t) BY <2>12 DEF FailStage
  <2>13. CASE RetryOrGiveUp(t) BY <2>13 DEF RetryOrGiveUp
  <2> QED BY <1>6, <2>1, <2>2, <2>3, <2>4, <2>5, <2>6, <2>7,
         <2>8, <2>9, <2>10, <2>11, <2>12, <2>13 DEF TaskStep
<1>7. ASSUME NEW t \in Tasks, KillWorker(t) PROVE OneActor'
  BY <1>7 DEF KillWorker
<1>8. CASE UNCHANGED vars BY <1>8 DEF vars
<1> QED BY <1>1, <1>2, <1>3, <1>4, <1>5, <1>6, <1>7, <1>8 DEF Next

\* With one actor nothing is committed between the snapshot of a transaction and
\* its end.
LEMMA WholeReplacementStep ==
    ASSUME OneAtATime, TypeOK, Addressed, DrawnOnce, OneActor, WholeReplacement, [Next]_vars
    PROVE  WholeReplacement'
<1> USE ConstantsAssumption DEF TypeOK, Addressed, DrawnOnce, OneActor, WholeReplacement, Live, Active, Free,
        Goto, Advance, HasRow, UpdateStatus, DatabaseDown, tables, taskVars,
        reqVars, RowStatus, NoRowState
<1>1. ASSUME NEW r \in Requests, NEW c \in Contents, Upload(r, c) PROVE WholeReplacement'
  BY <1>1 DEF Upload
<1>2. ASSUME NEW r \in Requests, NEW d \in Docs, Reindex(r, d) PROVE WholeReplacement'
  BY <1>2 DEF Reindex
<1>3. ASSUME NEW r \in Requests, NEW d \in Docs, Delete(r, d) PROVE WholeReplacement'
  BY <1>3 DEF Delete, RemoveSafely
<1>4. ASSUME NEW r \in Requests, RequestStep(r) PROVE WholeReplacement'
  <2>1. CASE StoreObject(r) BY <2>1 DEF StoreObject
  <2>2. CASE InsertRow(r) BY <2>2 DEF InsertRow, RemoveSafely
  <2>3. CASE PublishUpload(r) BY <2>3 DEF PublishUpload, Publish
  <2>4. CASE UndoObject(r) BY <2>4 DEF UndoObject, RemoveSafely
  <2>5. CASE UndoRow(r) BY <2>5, SMTT(30) DEF UndoRow, EraseRow, RowsLocked
  <2>6. CASE PublishReindex(r) BY <2>6 DEF PublishReindex, Publish
  <2>7. CASE DeleteRow(r) BY <2>7 DEF DeleteRow, EraseRow, RowsLocked
  <2> QED BY <1>4, <2>1, <2>2, <2>3, <2>4, <2>5, <2>6, <2>7 DEF RequestStep
<1>5. ASSUME NEW r \in Requests, KillRequest(r) PROVE WholeReplacement'
  BY <1>5 DEF KillRequest
<1>6. ASSUME NEW t \in Tasks, TaskStep(t) PROVE WholeReplacement'
  <2>1. CASE Start(t) BY <2>1 DEF Start
  <2>2. CASE MarkIndexing(t) BY <2>2 DEF MarkIndexing
  <2>3. CASE Download(t) BY <2>3 DEF Download
  <2>4. CASE MarkDownloaded(t) BY <2>4 DEF MarkDownloaded
  <2>5. CASE Parse(t) BY <2>5 DEF Parse
  <2>6. CASE Chunk(t) BY <2>6 DEF Chunk
  <2>7. CASE Embed(t) BY <2>7 DEF Embed
  <2>8. CASE ClearOld(t) BY <2>8 DEF ClearOld
  <2>9. CASE LockOld(t)
    <3>1. victims[t] \intersect chunks[doc[t]] = chunks[doc[t]]
      BY <2>9 DEF LockOld
    <3>2. victims' = [victims EXCEPT ![t] = chunks[doc[t]]] \/ step' = [step EXCEPT ![t] = "failing"]
      BY <2>9, <3>1 DEF LockOld
    <3>3. \A u \in Tasks \ {t} : step[u] \notin {"locking", "inserting"}
      BY <2>9 DEF LockOld
    <3> QED BY <2>9, <3>2, <3>3 DEF LockOld
  <2>10. CASE CommitChunks(t) BY <2>10, SMTT(30) DEF CommitChunks
  <2>11. CASE BindImages(t) BY <2>11 DEF BindImages
  <2>12. CASE FailStage(t) BY <2>12 DEF FailStage
  <2>13. CASE RetryOrGiveUp(t) BY <2>13 DEF RetryOrGiveUp
  <2> QED BY <1>6, <2>1, <2>2, <2>3, <2>4, <2>5, <2>6, <2>7,
         <2>8, <2>9, <2>10, <2>11, <2>12, <2>13 DEF TaskStep
<1>7. ASSUME NEW t \in Tasks, KillWorker(t) PROVE WholeReplacement'
  BY <1>7 DEF KillWorker
<1>8. CASE UNCHANGED vars BY <1>8 DEF vars
<1> QED BY <1>1, <1>2, <1>3, <1>4, <1>5, <1>6, <1>7, <1>8 DEF Next

\* So what a transaction commits is all its document holds.
LEMMA ExactIndexStep ==
    ASSUME TypeOK, Addressed, DrawnOnce, WholeReplacement, ExactIndex, [Next]_vars
    PROVE  ExactIndex'
<1> USE ConstantsAssumption DEF TypeOK, Addressed, DrawnOnce, WholeReplacement, ExactIndex, Active,
        Goto, Advance, HasRow, UpdateStatus, DatabaseDown, tables, taskVars,
        reqVars, RowStatus, NoRowState
<1>1. ASSUME NEW r \in Requests, NEW c \in Contents, Upload(r, c) PROVE ExactIndex'
  BY <1>1 DEF Upload
<1>2. ASSUME NEW r \in Requests, NEW d \in Docs, Reindex(r, d) PROVE ExactIndex'
  BY <1>2 DEF Reindex
<1>3. ASSUME NEW r \in Requests, NEW d \in Docs, Delete(r, d) PROVE ExactIndex'
  BY <1>3 DEF Delete, RemoveSafely
<1>4. ASSUME NEW r \in Requests, RequestStep(r) PROVE ExactIndex'
  <2>1. CASE StoreObject(r) BY <2>1 DEF StoreObject
  <2>2. CASE InsertRow(r) BY <2>2 DEF InsertRow, RemoveSafely
  <2>3. CASE PublishUpload(r) BY <2>3 DEF PublishUpload, Publish
  <2>4. CASE UndoObject(r) BY <2>4 DEF UndoObject, RemoveSafely
  <2>5. CASE UndoRow(r) BY <2>5 DEF UndoRow, EraseRow, RowsLocked
  <2>6. CASE PublishReindex(r) BY <2>6 DEF PublishReindex, Publish
  <2>7. CASE DeleteRow(r) BY <2>7 DEF DeleteRow, EraseRow, RowsLocked
  <2> QED BY <1>4, <2>1, <2>2, <2>3, <2>4, <2>5, <2>6, <2>7 DEF RequestStep
<1>5. ASSUME NEW r \in Requests, KillRequest(r) PROVE ExactIndex'
  BY <1>5 DEF KillRequest
<1>6. ASSUME NEW t \in Tasks, TaskStep(t) PROVE ExactIndex'
  <2>1. CASE Start(t) BY <2>1 DEF Start
  <2>2. CASE MarkIndexing(t) BY <2>2 DEF MarkIndexing
  <2>3. CASE Download(t) BY <2>3 DEF Download
  <2>4. CASE MarkDownloaded(t) BY <2>4 DEF MarkDownloaded
  <2>5. CASE Parse(t) BY <2>5 DEF Parse
  <2>6. CASE Chunk(t) BY <2>6 DEF Chunk
  <2>7. CASE Embed(t) BY <2>7 DEF Embed
  <2>8. CASE ClearOld(t) BY <2>8 DEF ClearOld
  <2>9. CASE LockOld(t) BY <2>9 DEF LockOld
  <2>10. CASE CommitChunks(t) BY <2>10 DEF CommitChunks
  <2>11. CASE BindImages(t) BY <2>11 DEF BindImages
  <2>12. CASE FailStage(t) BY <2>12 DEF FailStage
  <2>13. CASE RetryOrGiveUp(t) BY <2>13 DEF RetryOrGiveUp
  <2> QED BY <1>6, <2>1, <2>2, <2>3, <2>4, <2>5, <2>6, <2>7,
         <2>8, <2>9, <2>10, <2>11, <2>12, <2>13 DEF TaskStep
<1>7. ASSUME NEW t \in Tasks, KillWorker(t) PROVE ExactIndex'
  BY <1>7 DEF KillWorker
<1>8. CASE UNCHANGED vars BY <1>8 DEF vars
<1> QED BY <1>1, <1>2, <1>3, <1>4, <1>5, <1>6, <1>7, <1>8 DEF Next

\* With one request at a time, a ready document holds the chunks of one run.
THEOREM SerialSafe == ASSUME OneAtATime PROVE Spec => []SerialInv
<1>1. Init => SerialInv
  BY OverlapInit DEF SerialInv, Init, OneActor, WholeReplacement, ExactIndex, Live, Active
<1>2. SerialInv /\ [Next]_vars => SerialInv'
  BY OverlapStep, OneActorStep, WholeReplacementStep, ExactIndexStep, OneAtATime
  DEF SerialInv, OverlapInv
<1> QED BY <1>1, <1>2, PTL DEF Spec

-----------------------------------------------------------------------------
(* How changes of the tables look to retrieval.                            *)

\* Retrieval sees status and chunks alone: a step that leaves both is invisible to it.
LEMMA StutterMaps ==
    ASSUME UNCHANGED <<status, chunks>>
    PROVE  [Search!Next]_(Search!vars)
  BY DEF Search!vars, HasRow

\* Drawing an id, or giving it up, for a document that has no row changes nothing
\* retrieval can see.
LEMMA SameRowsMaps ==
    ASSUME TypeOK, NEW d \in Docs, ~HasRow(d), NEW s \in NoRowState,
           status' = [status EXCEPT ![d] = s], chunks' = chunks
    PROVE  [Search!Next]_(Search!vars)
<1>1. {e \in Docs : HasRow(e)}' = {e \in Docs : HasRow(e)}
  BY DEF TypeOK, HasRow, RowStatus, NoRowState
<1>2. [e \in Docs |-> status[e] = "ready"]' = [e \in Docs |-> status[e] = "ready"]
  BY DEF TypeOK, HasRow, RowStatus, NoRowState
<1> QED BY <1>1, <1>2 DEF Search!vars

\* The insert of a row, pending and without chunks, is Accept.
LEMMA AcceptMaps ==
    ASSUME TypeOK, NEW d \in Docs, ~HasRow(d),
           status' = [status EXCEPT ![d] = "pending"], chunks' = chunks
    PROVE  [Search!Next]_(Search!vars)
<1>1. {e \in Docs : HasRow(e)}' = {e \in Docs : HasRow(e)} \union {d}
  BY DEF TypeOK, HasRow, RowStatus, NoRowState
<1>2. [e \in Docs |-> status[e] = "ready"]' = [e \in Docs |-> status[e] = "ready"]
  BY DEF TypeOK, HasRow, RowStatus, NoRowState
<1> QED BY <1>1, <1>2 DEF Search!Next, Search!Accept

\* A status that replaces ready is Withdraw: searches stop returning the document.
LEMMA WithdrawMaps ==
    ASSUME TypeOK, NEW d \in Docs, HasRow(d), NEW s \in RowStatus \ {"ready"},
           status' = [status EXCEPT ![d] = s], chunks' = chunks
    PROVE  [Search!Next]_(Search!vars)
<1>1. {e \in Docs : HasRow(e)}' = {e \in Docs : HasRow(e)}
  BY DEF TypeOK, HasRow, RowStatus, NoRowState
<1>2. [e \in Docs |-> status[e] = "ready"]'
        = [[e \in Docs |-> status[e] = "ready"] EXCEPT ![d] = FALSE]
  BY DEF TypeOK, RowStatus
<1> QED BY <1>1, <1>2 DEF Search!Next, Search!Withdraw

\* The commit of a run's chunks with status ready is Publish.
LEMMA PublishMaps ==
    ASSUME TypeOK, NEW d \in Docs, HasRow(d), NEW t \in Tasks, t \notin chunks[d],
           status' = [status EXCEPT ![d] = "ready"], chunks' = [chunks EXCEPT ![d] = {t}]
    PROVE  [Search!Next]_(Search!vars)
<1>1. {e \in Docs : HasRow(e)}' = {e \in Docs : HasRow(e)}
  BY DEF TypeOK, HasRow, RowStatus, NoRowState
<1>2. [e \in Docs |-> status[e] = "ready"]'
        = [[e \in Docs |-> status[e] = "ready"] EXCEPT ![d] = TRUE]
  BY DEF TypeOK
<1> QED BY <1>1, <1>2 DEF Search!Next, Search!Publish

\* Deleting the row takes the chunks along (the cascade): Drop, or invisible when
\* the row is gone already.
LEMMA EraseMaps ==
    ASSUME TypeOK, NoOrphanChunks, NEW d \in Docs,
           status[d] \in RowStatus \union {"gone"}, EraseRow(d)
    PROVE  [Search!Next]_(Search!vars)
<1>1. CASE HasRow(d)
  <2>1. {e \in Docs : HasRow(e)}' = {e \in Docs : HasRow(e)} \ {d}
    BY DEF TypeOK, EraseRow, HasRow, RowStatus, NoRowState
  <2>2. [e \in Docs |-> status[e] = "ready"]'
          = [[e \in Docs |-> status[e] = "ready"] EXCEPT ![d] = FALSE]
    BY DEF TypeOK, EraseRow
  <2>3. chunks' = [chunks EXCEPT ![d] = {}]
    BY DEF EraseRow
  <2> QED BY <1>1, <2>1, <2>2, <2>3 DEF Search!Next, Search!Drop
<1>2. CASE ~HasRow(d)
  <2>1. status' = status /\ chunks' = chunks
    BY <1>2 DEF TypeOK, EraseRow, HasRow, NoOrphanChunks
  <2> QED BY <2>1, StutterMaps
<1> QED BY <1>1, <1>2

\* Whatever update_document_status writes, ready excepted, is Withdraw or invisible.
LEMMA UpdateMaps ==
    ASSUME TypeOK, NEW d \in Docs, NEW s \in {"indexing", "failed"}, NEW n, UpdateStatus(d, s, n)
    PROVE  [Search!Next]_(Search!vars)
<1>1. CASE HasRow(d)
  BY <1>1, WithdrawMaps DEF UpdateStatus, RowStatus
<1>2. CASE ~HasRow(d)
  BY <1>2, StutterMaps DEF UpdateStatus
<1> QED BY <1>1, <1>2

\* Every step of requests and tasks is one of SearchableIndex or invisible to it.
LEMMA SearchStep ==
    ASSUME SerialInv, [Next]_vars
    PROVE  [Search!Next]_(Search!vars)
<1> USE ConstantsAssumption DEF SerialInv, OverlapInv, Addressed, DrawnOnce, WholeReplacement, Active, NoRowState
<1>1. ASSUME NEW r \in Requests, NEW c \in Contents, Upload(r, c) PROVE [Search!Next]_(Search!vars)
  BY <1>1, StutterMaps DEF Upload, tables
<1>2. ASSUME NEW r \in Requests, NEW d \in Docs, Reindex(r, d) PROVE [Search!Next]_(Search!vars)
  BY <1>2, WithdrawMaps DEF Reindex, RowStatus
<1>3. ASSUME NEW r \in Requests, NEW d \in Docs, Delete(r, d) PROVE [Search!Next]_(Search!vars)
  BY <1>3, StutterMaps DEF Delete, tables
<1>4. ASSUME NEW r \in Requests, RequestStep(r) PROVE [Search!Next]_(Search!vars)
  <2>1. CASE StoreObject(r) 
    <3>1. CASE UNCHANGED status BY <2>1, <3>1, StutterMaps DEF StoreObject
    <3>2. ASSUME NEW d \in Docs, status[d] = "fresh", status' = [status EXCEPT ![d] = "drawn"]
          PROVE  [Search!Next]_(Search!vars)
      BY <2>1, <3>2, SameRowsMaps DEF StoreObject, HasRow, RowStatus
    <3> QED BY <2>1, <3>1, <3>2 DEF StoreObject
  <2>2. CASE InsertRow(r) 
    <3> DEFINE d == target[r]
    <3>1. d \in Docs /\ status[d] = "drawn" BY <2>2 DEF InsertRow
    <3>2. CASE status' = [status EXCEPT ![d] = "pending"]
      BY <2>2, <3>1, <3>2, AcceptMaps DEF InsertRow, HasRow, RowStatus
    <3>3. CASE status' = [status EXCEPT ![d] = "gone"]
      BY <2>2, <3>1, <3>3, SameRowsMaps DEF InsertRow, HasRow, RowStatus
    <3> QED BY <2>2, <3>2, <3>3 DEF InsertRow
  <2>3. CASE PublishUpload(r) BY <2>3, StutterMaps DEF PublishUpload, tables
  <2>4. CASE UndoObject(r) BY <2>4, StutterMaps DEF UndoObject, tables
  <2>5. CASE UndoRow(r) 
    <3>1. target[r] \in Docs /\ status[target[r]] \in RowStatus \union {"gone"} BY <2>5 DEF UndoRow
    <3> QED BY <2>5, <3>1, EraseMaps, StutterMaps DEF UndoRow, tables
  <2>6. CASE PublishReindex(r) BY <2>6, StutterMaps DEF PublishReindex, tables
  <2>7. CASE DeleteRow(r) 
    <3>1. target[r] \in Docs /\ status[target[r]] \in RowStatus \union {"gone"} BY <2>7 DEF DeleteRow
    <3> QED BY <2>7, <3>1, EraseMaps, StutterMaps DEF DeleteRow, tables
  <2> QED BY <1>4, <2>1, <2>2, <2>3, <2>4, <2>5, <2>6, <2>7 DEF RequestStep
<1>5. ASSUME NEW r \in Requests, KillRequest(r) PROVE [Search!Next]_(Search!vars)
  BY <1>5, StutterMaps DEF KillRequest, tables
<1>6. ASSUME NEW t \in Tasks, TaskStep(t) PROVE [Search!Next]_(Search!vars)
  <2>1. CASE Start(t) 
    <3>1. doc[t] \in Docs BY <2>1 DEF Start
    <3> QED BY <2>1, <3>1, UpdateMaps, StutterMaps DEF Start, DatabaseDown, tables
  <2>2. CASE MarkIndexing(t) 
    <3>1. doc[t] \in Docs BY <2>2 DEF MarkIndexing
    <3> QED BY <2>2, <3>1, UpdateMaps, StutterMaps DEF MarkIndexing, DatabaseDown, tables
  <2>3. CASE Download(t) BY <2>3, StutterMaps DEF Download, tables
  <2>4. CASE MarkDownloaded(t) 
    <3>1. doc[t] \in Docs BY <2>4 DEF MarkDownloaded
    <3> QED BY <2>4, <3>1, UpdateMaps, StutterMaps DEF MarkDownloaded, DatabaseDown, tables
  <2>5. CASE Parse(t) 
    <3>1. doc[t] \in Docs BY <2>5 DEF Parse
    <3> QED BY <2>5, <3>1, UpdateMaps, StutterMaps DEF Parse, DatabaseDown, tables
  <2>6. CASE Chunk(t) 
    <3>1. doc[t] \in Docs BY <2>6 DEF Chunk
    <3> QED BY <2>6, <3>1, UpdateMaps, StutterMaps DEF Chunk, DatabaseDown, tables
  <2>7. CASE Embed(t) BY <2>7, StutterMaps DEF Embed, tables
  <2>8. CASE ClearOld(t) BY <2>8, StutterMaps DEF ClearOld, tables
  <2>9. CASE LockOld(t) BY <2>9, StutterMaps DEF LockOld, tables
  <2>10. CASE CommitChunks(t) 
    <3> DEFINE d == doc[t]
    <3>1. d \in Docs BY <2>10 DEF CommitChunks
    <3>2. CASE UNCHANGED tables BY <3>2, StutterMaps DEF tables
    <3>3. ASSUME HasRow(d), ~UNCHANGED tables PROVE [Search!Next]_(Search!vars)
      <4>1. chunks' = [chunks EXCEPT ![d] = {t}] BY <2>10, <3>1, <3>3 DEF CommitChunks
      <4>2. t \notin chunks[d] BY <2>10, <3>1 DEF CommitChunks
      <4>3. status' = [status EXCEPT ![d] = "ready"] BY <2>10, <3>3 DEF CommitChunks
      <4> QED BY <3>1, <3>3, <4>1, <4>2, <4>3, PublishMaps
    <3> QED BY <2>10, <3>2, <3>3 DEF CommitChunks
  <2>11. CASE BindImages(t) BY <2>11, StutterMaps DEF BindImages, tables
  <2>12. CASE FailStage(t) 
    <3>1. doc[t] \in Docs BY <2>12 DEF FailStage
    <3> QED BY <2>12, <3>1, UpdateMaps, StutterMaps DEF FailStage, DatabaseDown, tables
  <2>13. CASE RetryOrGiveUp(t) 
    <3>1. doc[t] \in Docs BY <2>13 DEF RetryOrGiveUp
    <3> QED BY <2>13, <3>1, UpdateMaps, StutterMaps DEF RetryOrGiveUp, DatabaseDown, tables
  <2> QED BY <1>6, <2>1, <2>2, <2>3, <2>4, <2>5, <2>6, <2>7,
         <2>8, <2>9, <2>10, <2>11, <2>12, <2>13 DEF TaskStep
<1>7. ASSUME NEW t \in Tasks, KillWorker(t) PROVE [Search!Next]_(Search!vars)
  BY <1>7, StutterMaps DEF KillWorker, tables
<1>8. CASE UNCHANGED vars BY <1>8, StutterMaps DEF vars
<1> QED BY <1>1, <1>2, <1>3, <1>4, <1>5, <1>6, <1>7, <1>8 DEF Next

\* With one request at a time, import, reindexing and deletion implement what the
\* knowledge base promises to retrieval.
THEOREM ImplementsSearch == ASSUME OneAtATime PROVE Spec => SearchSpec
<1>1. Init => Search!Init
  BY DEF Init, Search!Init, HasRow, RowStatus
<1>2. SerialInv /\ [Next]_vars => [Search!Next]_(Search!vars)
  BY SearchStep
<1> QED BY <1>1, <1>2, SerialSafe, OneAtATime, PTL DEF Spec, SearchSpec, Search!Spec

=============================================================================
