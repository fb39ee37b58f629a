-------------------------- MODULE SearchableIndex --------------------------
(***************************************************************************)
(* What the knowledge base promises to retrieval about one document: its   *)
(* indexed content is replaced as a whole, is visible to search only while *)
(* the document is ready, and disappears only with the document.           *)
(* DocumentIndexing implements this module when index runs of one document *)
(* do not overlap.                                                         *)
(***************************************************************************)
CONSTANTS
    Docs,     \* documents
    Runs      \* index runs, each of which produces one set of chunks

VARIABLES
    exists,   \* documents with a row
    ready,    \* ready[d]: the retriever's filter d.status = 'ready' lets d through
    index     \* index[d]: the runs whose chunks are stored for d

vars == <<exists, ready, index>>

Init ==
    /\ exists = {}
    /\ ready = [d \in Docs |-> FALSE]
    /\ index = [d \in Docs |-> {}]

\* A document is accepted: it exists, holds nothing and cannot be searched.
Accept(d) ==
    /\ d \notin exists
    /\ exists' = exists \union {d}
    /\ UNCHANGED <<ready, index>>

\* Work on the document starts, goes on or fails: it leaves the search, its
\* stored content stays as it was.
Withdraw(d) ==
    /\ d \in exists
    /\ ready' = [ready EXCEPT ![d] = FALSE]
    /\ UNCHANGED <<exists, index>>

\* A run replaces everything the document held and puts it back into search.
Publish(d, run) ==
    /\ d \in exists
    /\ run \notin index[d]
    /\ ready' = [ready EXCEPT ![d] = TRUE]
    /\ index' = [index EXCEPT ![d] = {run}]
    /\ UNCHANGED exists

\* The document goes away together with its content.
Drop(d) ==
    /\ d \in exists
    /\ exists' = exists \ {d}
    /\ ready' = [ready EXCEPT ![d] = FALSE]
    /\ index' = [index EXCEPT ![d] = {}]

Next ==
    \E d \in Docs :
        \/ Accept(d)
        \/ Withdraw(d)
        \/ \E run \in Runs : Publish(d, run)
        \/ Drop(d)

Spec == Init /\ [][Next]_vars
=============================================================================
