------------------------------ MODULE Backfill ------------------------------
(***************************************************************************)
(* The scripts that fill the lexical index and the context blocks of       *)
(* documents indexed before there were any (scripts/rebuild_lexical_index  *)
(* and scripts/rebuild_chunk_contexts), while documents are indexed and    *)
(* deleted.                                                                *)
(*                                                                         *)
(* Each script takes the documents in the order of their ids, a page at a  *)
(* time, one transaction per document.  Transactions are READ COMMITTED:   *)
(* a statement works on the rows committed before it began and waits for   *)
(* the locks of others on them.  The file of a document does not change,   *)
(* so every run over it makes equal chunks, with new ids.                  *)
(***************************************************************************)
EXTENDS Naturals, FiniteSets

CONSTANTS
    LastDoc,     \* documents have the ids 1..LastDoc
    Size,        \* chunks of a document
    BatchSize,   \* documents of a page
    MaxRuns,     \* index runs, a bound of the model
    MaxPasses,   \* passes of the two scripts together, a bound of the model
    Differing    \* documents whose chunks the script groups otherwise than a run

ASSUME BackfillAssumption ==
    /\ {LastDoc, Size, BatchSize, MaxPasses} \subseteq Nat \ {0} /\ MaxRuns \in Nat
    /\ Differing \subseteq 1..LastDoc

VARIABLES
    store,     \* rows of each document
    worker,    \* the transaction of an index run of a document
    script     \* the two scripts

backfillVars == <<store, worker, script>>

-----------------------------------------------------------------------------

Ids == 1..LastDoc

Kinds == {"lexical", "contexts"}

\* Chunk n of the run that made it.
ChunksOf(run) == {[run |-> run, n |-> n] : n \in 1..Size}

\* lex, old: chunks with a current, an outdated lexical record.  A block carries the
\* transaction it comes from; links are pairs of a chunk and its block.  met tells
\* that an index run and the context script were at work on the document at once.
Rows(run, lexed, grouped) ==
    [exists |-> TRUE, runs |-> run, chunks |-> ChunksOf(run),
     lex |-> IF lexed = "new" THEN ChunksOf(run) ELSE {},
     old |-> IF lexed = "old" THEN ChunksOf(run) ELSE {},
     blocks |-> IF grouped THEN {<<"run", run>>} ELSE {},
     links |-> IF grouped THEN ChunksOf(run) \X {<<"run", run>>} ELSE {},
     met |-> FALSE]

NoScript == [pc |-> "page", last |-> 0, page |-> {}, doc |-> 0, chunks |-> {},
             rows |-> {}, failed |-> 0, pass |-> 1]

NoWorker == [pc |-> "idle", chunks |-> {}, blocks |-> {}]

\* Documents as older versions of the program left them: without lexical records,
\* with records of another index_version or complete; with or without blocks.
BackfillInit ==
    /\ store \in [Ids -> {Rows(0, l, g) : l \in {"none", "old", "new"}, g \in BOOLEAN}]
    /\ worker = [d \in Ids |-> NoWorker]
    /\ script = [k \in Kinds |-> NoScript]

-----------------------------------------------------------------------------

\* Locks a statement of another transaction waits for.
LockedByWorker(d) == worker[d].pc = "delete"

LockedByScript(d) ==
    \/ script["lexical"].doc = d /\ script["lexical"].pc = "write"
    \/ script["contexts"].doc = d /\ script["contexts"].pc = "write"
       /\ script["contexts"].rows # {}

\* A transaction of an index run begins; it will delete the rows it sees.
BeginInsert(d) ==
    /\ worker[d].pc = "idle"
    /\ store[d].exists /\ store[d].runs < MaxRuns
    /\ worker' = [worker EXCEPT ![d] = [pc |-> "snapshot", chunks |-> store[d].chunks,
                                        blocks |-> store[d].blocks]]
    /\ store' = [store EXCEPT ![d].met = @ \/ script["contexts"].doc = d]
    /\ UNCHANGED script

DeleteOld(d) ==
    /\ worker[d].pc = "snapshot"
    /\ ~LockedByScript(d)
    /\ worker' = [worker EXCEPT ![d].pc = "delete"]
    /\ UNCHANGED <<store, script>>

\* index_document_sync: the records of all chunks, in the caller's transaction.
LexOf(chunks) == chunks

\* Lexical records and links go with their chunks and blocks (ON DELETE CASCADE, SET
\* NULL); the new chunks have records and a block.
Replaced(s, w) ==
    LET run == s.runs + 1
        new == ChunksOf(run)
    IN [s EXCEPT !.runs = run,
                 !.chunks = (@ \ w.chunks) \union new,
                 !.lex = (@ \ w.chunks) \union LexOf(new),
                 !.old = @ \ w.chunks,
                 !.blocks = (@ \ w.blocks) \union {<<"run", run>>},
                 !.links = {l \in @ : l[1] \notin w.chunks /\ l[2] \notin w.blocks}
                           \union new \X {<<"run", run>>}]

\* The run commits, or its transaction is rolled back; without the document its
\* inserts break a foreign key.
EndInsert(d) ==
    /\ worker[d].pc = "delete"
    /\ worker' = [worker EXCEPT ![d] = NoWorker]
    /\ \/ store' = [store EXCEPT ![d] =
             IF @.exists THEN Replaced(@, worker[d]) ELSE @]
       \/ UNCHANGED store
    /\ UNCHANGED script

\* delete_document
Delete(d) ==
    /\ store[d].exists
    /\ ~LockedByWorker(d) /\ ~LockedByScript(d)
    /\ store' = [store EXCEPT ![d] = [@ EXCEPT !.exists = FALSE, !.chunks = {}, !.lex = {},
                                               !.old = {}, !.blocks = {}, !.links = {}]]
    /\ UNCHANGED <<worker, script>>

-----------------------------------------------------------------------------

Waiting(k) == {d \in Ids : store[d].exists /\ d > script[k].last}

\* ORDER BY id LIMIT batch_size
NextPage(k) ==
    {d \in Waiting(k) : Cardinality({e \in Waiting(k) : e <= d}) <= BatchSize}

\* main: the next page after the last id; an empty page ends the pass.
Page(k) ==
    /\ script[k].pc = "page" /\ script[k].page = {}
    /\ \/ /\ Waiting(k) = {}
          /\ script' = [script EXCEPT ![k].pc = "finished"]
       \/ \E last \in NextPage(k) :
             /\ \A d \in NextPage(k) : d <= last
             /\ script' = [script EXCEPT ![k].page = NextPage(k), ![k].last = last]
    /\ UNCHANGED <<store, worker>>

\* _get_chunks, the first statement of a document's transaction.
Read(k) ==
    /\ script[k].pc = "page"
    /\ \E d \in script[k].page :
          /\ \A e \in script[k].page : d <= e
          /\ script' = [script EXCEPT ![k] =
                [script[k] EXCEPT !.pc = "decide", !.doc = d,
                                  !.page = script[k].page \ {d},
                                  !.chunks = store[d].chunks]]
          /\ store' = [store EXCEPT ![d].met =
                          @ \/ (k = "contexts" /\ worker[d].pc # "idle")]
    /\ UNCHANGED worker

Ended(k) == [script[k] EXCEPT !.pc = "page", !.doc = 0, !.chunks = {}, !.rows = {}]

FailedAt(k) == [Ended(k) EXCEPT !.failed = @ + 1]

\* MUTANT: a document with any record is skipped.
LexicalDueAny(d, chunks) == chunks # {} /\ store[d].lex \union store[d].old = {}

\* _needs_rebuild of rebuild_lexical_index: a chunk without a current record.
LexicalDue(d, chunks) == ~chunks \subseteq store[d].lex

\* _needs_rebuild of rebuild_chunk_contexts compares the blocks, and not the links.
\* Blocks of equal chunks are equal, but for the measure: a run groups by the tokens
\* its splitter has counted, the script by the length of the text.
ContextsDue(d, chunks) ==
    /\ chunks # {}
    /\ \/ Cardinality(store[d].blocks) # 1
       \/ d \in Differing /\ \E b \in store[d].blocks : b[1] = "run"

\* _get_existing_blocks, _needs_rebuild.
Decide(k) ==
    /\ script[k].pc = "decide"
    /\ LET d == script[k].doc
           due == IF k = "lexical" THEN LexicalDue(d, script[k].chunks)
                  ELSE ContextsDue(d, script[k].chunks)
       IN script' = [script EXCEPT ![k] = IF due THEN [@ EXCEPT !.pc = "due"] ELSE Ended(k)]
    /\ UNCHANGED <<store, worker>>

\* index_document_sync on the script's transaction: records of deleted chunks break
\* a foreign key.
WriteLexical ==
    LET k == "lexical"
        d == script[k].doc
    IN /\ script[k].pc = "due"
       /\ ~LockedByWorker(d)
       /\ script' = [script EXCEPT ![k] =
             IF script[k].chunks \subseteq store[d].chunks THEN [@ EXCEPT !.pc = "write"]
             ELSE FailedAt(k)]
       /\ UNCHANGED <<store, worker>>

CommitLexical ==
    LET k == "lexical"
        d == script[k].doc
    IN /\ script[k].pc = "write"
       /\ script' = [script EXCEPT ![k] = Ended(k)]
       /\ store' = [store EXCEPT ![d].lex = @ \union LexOf(script[k].chunks),
                                 ![d].old = @ \ script[k].chunks]
       /\ UNCHANGED worker

\* _apply_document: the DELETE is a statement of its own and sees the blocks of now ...
SeeBlocks ==
    LET k == "contexts"
    IN /\ script[k].pc = "due"
       /\ script' = [script EXCEPT ![k] =
             [@ EXCEPT !.pc = "snapshot", !.rows = store[script[k].doc].blocks]]
       /\ UNCHANGED <<store, worker>>

\* ... waits for a run that is deleting them, deletes those it saw ...
DeleteBlocks ==
    LET k == "contexts"
        d == script[k].doc
    IN /\ script[k].pc = "snapshot"
       /\ script[k].rows = {} \/ ~LockedByWorker(d)
       /\ script' = [script EXCEPT ![k].pc = "write"]
       /\ UNCHANGED <<store, worker>>

\* MUTANT: the chunks are not updated.
RegroupedOnly(s, chunks, rows, block) ==
    [s EXCEPT !.blocks = (@ \ rows) \union {block},
              !.links = {l \in @ : l[2] \notin rows}]

\* ... and inserts its own; chunks it has read and that are gone are not updated.
Regrouped(s, chunks, rows, block) ==
    [s EXCEPT !.blocks = (@ \ rows) \union {block},
              !.links = {l \in @ : l[1] \notin chunks /\ l[2] \notin rows}
                        \union (chunks \intersect s.chunks) \X {block}]

CommitContexts ==
    LET k == "contexts"
        d == script[k].doc
    IN /\ script[k].pc = "write"
       /\ ~LockedByWorker(d)
       /\ script' = [script EXCEPT ![k] = IF store[d].exists THEN Ended(k) ELSE FailedAt(k)]
       /\ store' = [store EXCEPT ![d] =
             IF @.exists THEN Regrouped(@, script[k].chunks, script[k].rows,
                                        <<"script", script[k].pass>>)
             ELSE @]
       /\ UNCHANGED worker

\* A finished script is run again; an interrupted one starts from the first page.
RunAgain(k) ==
    /\ script["lexical"].pass + script["contexts"].pass < MaxPasses
    /\ script' = [script EXCEPT ![k] = [NoScript EXCEPT !.pass = script[k].pass + 1]]
    /\ UNCHANGED <<store, worker>>

BackfillNext ==
    \/ \E d \in Ids : BeginInsert(d) \/ DeleteOld(d) \/ EndInsert(d) \/ Delete(d)
    \/ \E k \in Kinds : Page(k) \/ Read(k) \/ Decide(k) \/ RunAgain(k)
    \/ WriteLexical \/ CommitLexical
    \/ SeeBlocks \/ DeleteBlocks \/ CommitContexts

BackfillSpec == BackfillInit /\ [][BackfillNext]_backfillVars

-----------------------------------------------------------------------------

\* A pass of rebuild_lexical_index that reports no failure leaves no chunk without
\* a current record, also of documents that were indexed while it ran, and so it
\* stays (index_document_sync in the transaction of the chunks).
LexicalComplete ==
    script["lexical"].pc = "finished" /\ script["lexical"].failed = 0 =>
        \A d \in Ids : store[d].chunks \subseteq store[d].lex

Grouped(s) ==
    /\ \A c \in s.chunks : \E l \in s.links : l[1] = c
    /\ Cardinality(s.blocks) = 1

\* After a pass of rebuild_chunk_contexts without failures every chunk has its block,
\* one set of blocks per document, unless an index run and the script were at work on that
\* document at once.
ContextsComplete ==
    script["contexts"].pc = "finished" /\ script["contexts"].failed = 0 =>
        \A d \in Ids : store[d].exists => Grouped(store[d]) \/ store[d].met

\* A later pass repairs what an earlier one left.  It does not: a run that commits
\* between the script's reads and its DELETE loses the links of its chunks, and
\* _needs_rebuild finds equal blocks ever after.
LaterPassRepairs ==
    /\ script["contexts"].pc = "finished" /\ script["contexts"].failed = 0
    /\ script["contexts"].pass > 1
    => \A d \in Ids : store[d].exists => Grouped(store[d])
=============================================================================
