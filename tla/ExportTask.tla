----------------------------- MODULE ExportTask -----------------------------
(***************************************************************************)
(* Files made in the background: the tools that submit them                *)
(* (core/tools/ppt_tool.py, pdf_export_tool.py), the Celery tasks that     *)
(* make them (core/tasks/ppt_generation.py, pdf_generation.py), the status *)
(* and download endpoints (api/routers/ppt.py, pdf.py) and the card of the *)
(* page that polls (artifact-progress-card.tsx, hooks/use-api.ts).         *)
(*                                                                         *)
(* The two kinds of file differ in how they are rendered and in how long a *)
(* retry waits, which is abstracted.  A message is acknowledged when it is *)
(* taken, so what a dead worker was doing is not done again.               *)
(***************************************************************************)
EXTENDS Naturals, FiniteSets

CONSTANTS
    Tasks,        \* ids of tasks
    MaxRetries,   \* retries of a task
    FaultsOf      \* what may go wrong with a task: "db", "broker", "stage", "minio", "worker"

ASSUME ExportAssumption ==
    /\ MaxRetries \in Nat
    /\ FaultsOf \in [Tasks -> SUBSET {"db", "broker", "stage", "minio", "worker"}]

VARIABLES
    tool,     \* where the invocation of the tool is that submits the task
    row,      \* rows of ppt_tasks and pdf_tasks
    work,     \* the attempts of a task, by the number of retries
    stored,   \* objects in the bucket, named by the attempt that uploaded them
    card      \* what the card of the page shows

exportVars == <<tool, row, work, stored, card>>

Attempts == 0..MaxRetries
NoFile   == MaxRetries + 1

Failing(t, fault) == fault \in FaultsOf[t]

ExportInit ==
    /\ tool = [t \in Tasks |-> "idle"]
    /\ row = [t \in Tasks |-> [status |-> "none", file |-> NoFile]]
    /\ work = [t \in Tasks |-> [k \in Attempts |-> "none"]]
    /\ stored = [t \in Tasks |-> {}]
    /\ card = [t \in Tasks |-> "hidden"]

-----------------------------------------------------------------------------
(* The tool.                                                               *)

\* A write to the row.  A commit that raises does not say whether it was done.
Written(t, new) == row' = [row EXCEPT ![t] = new]

Unsure(t, new) == Failing(t, "db") /\ (Written(t, new) \/ UNCHANGED row)

\* invoke: the row first.
InsertRow(t) ==
    LET new == [row[t] EXCEPT !.status = "pending"] IN
    /\ tool[t] = "insert"
    /\ \/ Written(t, new) /\ tool' = [tool EXCEPT ![t] = "publish"]
       \/ Unsure(t, new) /\ tool' = [tool EXCEPT ![t] = "mark"]
    /\ UNCHANGED <<work, stored, card>>

Queued(t, k) == [work EXCEPT ![t][k] = "queued"]

\* Then the message.  An error of the broker does not say whether it went out.
Publish(t) ==
    /\ tool[t] = "publish"
    /\ \/ /\ work' = Queued(t, 0)
          /\ tool' = [tool EXCEPT ![t] = "told"]
       \/ /\ Failing(t, "broker")
          /\ work' \in {work, Queued(t, 0)}
          /\ tool' = [tool EXCEPT ![t] = "mark"]
    /\ UNCHANGED <<row, stored, card>>

\* _mark_failed, as good as it can, before the tool answers with the error and the
\* id of the task.
MarkFailed(t) ==
    LET new == [row[t] EXCEPT !.status = IF @ = "none" THEN @ ELSE "failed"] IN
    /\ tool[t] = "mark"
    /\ tool' = [tool EXCEPT ![t] = "told"]
    /\ Written(t, new) \/ Unsure(t, new)
    /\ UNCHANGED <<work, stored, card>>

Tool(t) == InsertRow(t) \/ Publish(t) \/ MarkFailed(t)

-----------------------------------------------------------------------------
(* The worker, attempt k.                                                  *)

At(t, k, place)  == work[t][k] = place
To(t, k, place)  == work' = [work EXCEPT ![t][k] = place]

\* update_ppt_status, update_pdf_status: whatever the row says now.
Said(t, status) == [row[t] EXCEPT !.status = status]

\* A step that writes the row, or raises before or after it has.
Report(t, k, place, new, next) ==
    /\ At(t, k, place)
    /\ \/ Written(t, new) /\ To(t, k, next)
       \/ Unsure(t, new) /\ To(t, k, "raised")
    /\ UNCHANGED <<tool, stored, card>>

Start(t, k) == Report(t, k, "queued", Said(t, "generating"), "render")

\* The text of the slides or the page, and the file.
Render(t, k) ==
    /\ At(t, k, "render")
    /\ \/ Written(t, Said(t, "generating")) /\ To(t, k, "announce")
       \/ Failing(t, "stage") /\ To(t, k, "raised") /\ UNCHANGED row
    /\ UNCHANGED <<tool, stored, card>>

Announce(t, k) == Report(t, k, "announce", Said(t, "uploading"), "upload")

\* upload_to_minio: the key holds the random name of the local file, every attempt
\* has its own object.
Upload(t, k) ==
    /\ At(t, k, "upload")
    /\ \/ stored' = [stored EXCEPT ![t] = @ \union {k}] /\ To(t, k, "finish")
       \/ /\ Failing(t, "minio")
          /\ stored' \in {stored, [stored EXCEPT ![t] = @ \union {k}]}
          /\ To(t, k, "raised")
    /\ UNCHANGED <<tool, row, card>>

\* A file that is ready is made once more when the commit that said so raised.
Finish(t, k) == Report(t, k, "finish", [status |-> "ready", file |-> k], "done")

\* MUTANT: the task ends with its last retry's exception.
RaisedSilently(t, k) ==
    /\ At(t, k, "raised")
    /\ work' = IF k < MaxRetries
               THEN [work EXCEPT ![t][k] = "done", ![t][k + 1] = "queued"]
               ELSE [work EXCEPT ![t][k] = "done"]
    /\ UNCHANGED <<tool, row, stored, card>>

\* self.retry, or the status failed.  When the broker refuses the retry, or that write
\* raises, the attempt is the last.
Raised(t, k) ==
    /\ At(t, k, "raised")
    /\ \/ /\ k < MaxRetries
          /\ work' = [work EXCEPT ![t][k] = "done", ![t][k + 1] = "queued"]
          /\ UNCHANGED row
       \/ k < MaxRetries /\ Failing(t, "broker") /\ To(t, k, "gone") /\ UNCHANGED row
       \/ k = MaxRetries /\ Written(t, Said(t, "failed")) /\ To(t, k, "done")
       \/ k = MaxRetries /\ Unsure(t, Said(t, "failed")) /\ To(t, k, "gone")
    /\ UNCHANGED <<tool, stored, card>>

\* The process is killed, by the time limit or from outside.
Die(t, k) ==
    /\ Failing(t, "worker")
    /\ work[t][k] \notin {"none", "queued", "done", "gone"}
    /\ To(t, k, "gone")
    /\ UNCHANGED <<tool, row, stored, card>>

Attempt(t, k) ==
    \/ Start(t, k)
    \/ Render(t, k)
    \/ Announce(t, k)
    \/ Upload(t, k)
    \/ Finish(t, k)
    \/ Raised(t, k)

-----------------------------------------------------------------------------
(* The page.                                                               *)

\* What get_ppt_status or get_pdf_status answers: without a row it is an error.
Shown(t) ==
    CASE row[t].status = "none"              -> "lost"
      [] row[t].status \in {"ready", "failed"} -> row[t].status
      [] OTHER                                -> "polling"

\* usePptStatus, usePdfStatus: every two seconds while the file is being made.
Poll(t) ==
    /\ card[t] = "polling"
    /\ card' = [card EXCEPT ![t] = Shown(t)]
    /\ UNCHANGED <<tool, row, work, stored>>

\* Nothing is fresh (staleTime 0): the window that gets the focus asks again.
Refocus(t) ==
    /\ card[t] \notin {"hidden", "polling"}
    /\ card' = [card EXCEPT ![t] = Shown(t)]
    /\ UNCHANGED <<tool, row, work, stored>>

\* download_ppt, download_pdf answer with the file.
Downloadable(t) == row[t].status = "ready" /\ row[t].file \in stored[t]

ExportStep ==
    \/ \E t \in Tasks : Tool(t) \/ Poll(t) \/ Refocus(t)
    \/ \E t \in Tasks, k \in Attempts : Attempt(t, k) \/ Die(t, k)

ExportFairness ==
    /\ \A t \in Tasks : WF_exportVars(Tool(t)) /\ WF_exportVars(Poll(t))
    /\ \A t \in Tasks, k \in Attempts : WF_exportVars(Attempt(t, k))

-----------------------------------------------------------------------------
(* Properties.                                                             *)

\* Every variable keeps its type.
ExportTypeOK ==
    /\ tool \in [Tasks -> {"idle", "insert", "publish", "mark", "told"}]
    /\ row \in [Tasks -> [status : {"none", "pending", "generating", "uploading", "ready", "failed"},
                          file : Attempts \union {NoFile}]]
    /\ work \in [Tasks -> [Attempts -> {"none", "queued", "render", "announce", "upload",
                                        "finish", "raised", "done", "gone"}]]
    /\ stored \in [Tasks -> SUBSET Attempts]
    /\ card \in [Tasks -> {"hidden", "polling", "ready", "failed", "lost"}]

\* Whatever failed, was retried or was killed on the way, a row that says ready
\* names an object that was uploaded, and nobody is making the file: where a commit
\* may be done and raise, at most the attempt that wrote the row has raised, or a
\* later one has raised or not begun.
ReadyHasFile ==
    \A t \in Tasks : row[t].status = "ready" =>
        /\ Downloadable(t)
        /\ \A k \in Attempts :
              \/ work[t][k] \in {"none", "done", "gone"}
              \/ Failing(t, "db") /\ k = row[t].file /\ At(t, k, "raised")
              \/ Failing(t, "db") /\ k > row[t].file /\ work[t][k] \in {"queued", "raised"}

\* The commit that said ready raised, and the file is made again or has failed for good.
MadeAgain(t) ==
    /\ Failing(t, "db")
    /\ IF row[t].file < MaxRetries THEN work[t][row[t].file + 1] # "none" ELSE row[t].status = "failed"

\* A card that offers the download keeps its word, also when the tool was marking
\* the row as failed while the task was already under way: the file it offers is
\* there, and only a commit that raised takes the row back from ready.
CardKeepsWord ==
    \A t \in Tasks : card[t] = "ready" =>
        /\ row[t].file \in stored[t]
        /\ row[t].status = "ready" \/ MadeAgain(t)

\* Nobody works on the file any more: its worker was killed or could not leave its
\* last word, or the message did not go out and the row could not be marked.
Abandoned(t) ==
    \/ \E k \in Attempts : work[t][k] = "gone"
    \/ tool[t] = "told" /\ row[t].status = "pending" /\ \A k \in Attempts : work[t][k] = "none"

\* Every card comes to rest, whatever stage fails how often, unless the file is
\* abandoned.
CardSettles ==
    \A t \in Tasks : card[t] = "polling" ~> card[t] # "polling" \/ Abandoned(t)
=============================================================================
