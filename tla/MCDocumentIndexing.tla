------------------------ MODULE MCDocumentIndexing ------------------------
(* DocumentIndexing on small sets of documents, requests and tasks. *)
EXTENDS DocumentIndexing, TLC

\* Ids are interchangeable: the code compares them for equality only.
Symmetry == Permutations(Docs) \union Permutations(Requests) \union Permutations(Tasks)
=============================================================================
