---------------------------- MODULE MCKnowledge ----------------------------
(***************************************************************************)
(* Seven components that share no state, each on its own small instance,   *)
(* in one run: the initial state chooses the one that moves, the others    *)
(* keep one of their initial states.                                       *)
(***************************************************************************)
EXTENDS Retrieval, ContextBlocks, Backfill, KnowledgeBases, UsageStats, Sources, Ingest, TLC

CONSTANTS a1, a2, a3, a4, d1, d2, d3

VARIABLE part  \* the component that moves

mcVars == <<part, retrievalVars, contextVars, backfillVars, kbVars, statsVars, sourcesVars, ingestVars>>

-----------------------------------------------------------------------------
(* Retrieval: three documents, a text in two, scores on either side of the  *)
(* threshold.                                                              *)

MCDocOf == a1 :> d1 @@ a2 :> d1 @@ a3 :> d2 @@ a4 :> d3

MCTextOf == a1 :> "x" @@ a2 :> "y" @@ a3 :> "y" @@ a4 :> "x"

MCScoreOf == a1 :> 1 @@ a2 :> 2 @@ a3 :> 3 @@ a4 :> 2

(* ContextBlocks: plain chunks, headings in between, chunks too long to    *)
(* share a block.                                                          *)

MCPlain == [tokens |-> 1, heading |-> FALSE]

MCLong == [tokens |-> 3, heading |-> FALSE]

MCHeading == [tokens |-> 1, heading |-> TRUE]

MCDrafts ==
    {<<MCPlain>>,
     <<MCPlain, MCPlain, MCPlain, MCPlain, MCPlain, MCPlain>>,
     <<MCPlain, MCHeading, MCPlain, MCHeading, MCLong, MCPlain>>,
     <<MCLong, MCPlain, MCLong, MCLong, MCLong>>}

(* KnowledgeBases and UsageStats: a super admin, a training admin of one   *)
(* department, a user of another; a conversation of another tenant.        *)

MCProfile ==
    "root" :> [tenant |-> "t1", dept |-> NoDepartment, role |-> "admin"]
    @@ "lead" :> [tenant |-> "t1", dept |-> "x1", role |-> "training_admin"]
    @@ "clerk" :> [tenant |-> "t1", dept |-> "x2", role |-> "user"]

MCDepartments == "t1" :> {"x1"}

MCTitleOf == "f1" :> 1 @@ "f2" :> 1

MCViewerOf == [u \in DOMAIN MCProfile |-> MCProfile[u] @@ [bases |-> {"b1"}]]

MCThreadOf ==
    "c1" :> [tenant |-> "t1", user |-> "clerk", base |-> "b1"]
    @@ "c2" :> [tenant |-> "t2", user |-> "other", base |-> "b9"]

(* Sources: a heading, and a table whose cell holds a block that names the *)
(* table again.  Ingest: a page with an image and no text, two with little *)
(* text, of one with much the cleaner takes a part; so of a transcription. *)

MCKids ==
    "h" :> <<>> @@ "t" :> <<"c", "i">> @@ "c" :> <<"z">> @@ "i" :> <<>> @@ "z" :> <<"t">>

MCFirst == <<"h", "t", "c">>

MCLength(raw, kept) == [raw |-> raw, kept |-> kept]

MCLayer == <<MCLength(1, 1), MCLength(0, 0), MCLength(4, 3), MCLength(2, 2)>>

MCTranscripts == {MCLength(1, 1), MCLength(2, 2), MCLength(3, 1)}

MCPictures == <<0, 1, 0, 0>>

-----------------------------------------------------------------------------

Components ==
    {"retrieval", "context", "backfill", "bases", "stats", "sources", "ingest"}

\* Of the initial states of a component that does not move, one is enough.
IdleContext == \A d \in Docs : context.drafts[d] = <<MCPlain>>

IdleBackfill == \A d \in Ids : store[d] = Rows(0, "none", FALSE)

IdleSources == import.at = "drive"

IdleIngest == job.kind = "text" /\ ~ job.vision /\ ~ job.ollama

MCInit ==
    /\ part \in Components
    /\ RetrievalInit /\ KnowledgeBasesInit /\ UsageStatsInit
    /\ ContextInit /\ (part # "context" => IdleContext)
    /\ BackfillInit /\ (part # "backfill" => IdleBackfill)
    /\ SourcesInit /\ (part # "sources" => IdleSources)
    /\ IngestInit /\ (part # "ingest" => IdleIngest)

\* Everything but the component that moves stays.
MCNext ==
    /\ part' = part
    /\ \/ /\ part = "retrieval" /\ RetrievalNext
          /\ UNCHANGED <<contextVars, backfillVars, kbVars, statsVars, sourcesVars, ingestVars>>
       \/ /\ part = "context" /\ ContextNext
          /\ UNCHANGED <<retrievalVars, backfillVars, kbVars, statsVars, sourcesVars, ingestVars>>
       \/ /\ part = "backfill" /\ BackfillNext
          /\ UNCHANGED <<retrievalVars, contextVars, kbVars, statsVars, sourcesVars, ingestVars>>
       \/ /\ part = "bases" /\ KnowledgeBasesNext
          /\ UNCHANGED <<retrievalVars, contextVars, backfillVars, statsVars, sourcesVars, ingestVars>>
       \/ /\ part = "stats" /\ UsageStatsNext
          /\ UNCHANGED <<retrievalVars, contextVars, backfillVars, kbVars, sourcesVars, ingestVars>>
       \/ /\ part = "sources" /\ SourcesNext
          /\ UNCHANGED <<retrievalVars, contextVars, backfillVars, kbVars, statsVars, ingestVars>>
       \/ /\ part = "ingest" /\ IngestNext
          /\ UNCHANGED <<retrievalVars, contextVars, backfillVars, kbVars, statsVars, sourcesVars>>

MCSpec == MCInit /\ [][MCNext]_mcVars
=============================================================================
