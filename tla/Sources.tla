------------------------------ MODULE Sources ------------------------------
(***************************************************************************)
(* Importing a document from Feishu or Google Drive (core/sources,         *)
(* POST /sources/upload-to-kb and /documents/from-source): the requests to *)
(* the other side, one after the other, each of which may fail; the blocks *)
(* of a Feishu document gathered breadth first and written as markdown,    *)
(* its images stored on the way; the export that a failure falls back to.  *)
(*                                                                         *)
(* What Feishu answers is external: First is the page of blocks the first  *)
(* request returns, Kids the children of each block.                       *)
(***************************************************************************)
EXTENDS Naturals, FiniteSets, SequencesExt

CONSTANTS
    First, Kids,   \* blocks in the order Feishu lists them
    Images,        \* blocks that are images
    MaxPolls       \* 30 in the code

ASSUME SourcesAssumption ==
    /\ First \in Seq(DOMAIN Kids) /\ Images \subseteq DOMAIN Kids
    /\ \A b \in DOMAIN Kids : Kids[b] \in Seq(DOMAIN Kids)
    /\ MaxPolls \in Nat \ {0}

VARIABLES
    import,    \* the request: its place, and whether one of its steps failed
    gathered,  \* block_map in its order, the queue, and the blocks asked for their children
    written,   \* blocks whose line, link or picture text is in the markdown
    stored     \* images put into MinIO, and those with a row in upload_files

sourcesVars == <<import, gathered, written, stored>>

-----------------------------------------------------------------------------

ParentBlocks(s) ==
    LET parents[n \in 0..Len(s)] ==
            IF n = 0 THEN <<>>
            ELSE IF Kids[s[n]] = <<>> THEN parents[n - 1] ELSE Append(parents[n - 1], s[n])
    IN  parents[Len(s)]

\* The fields of DocumentSourceResult without a default, and those the calls give.
RequiredFields ==
    {"content", "filename", "file_type", "source_type", "source_url", "content_length"}

GivenFields == {"content", "filename", "file_type", "source_type", "source_url"}

Constructed == RequiredFields \subseteq GivenFields

-----------------------------------------------------------------------------

SourcesInit ==
    /\ import \in [at : {"token", "drive"}, kind : {"docx", "wiki", "sheets"}, tenant : BOOLEAN,
                   polls : {0}, failed : {FALSE}, ending : {"none"}]
    /\ import.at = "drive" => import.kind = "docx" /\ ~ import.tenant
    /\ gathered = [map |-> <<>>, queue |-> <<>>, asked |-> <<>>, answered |-> {}]
    /\ written = <<>>
    /\ stored = [objects |-> {}, rows |-> {}]

MoveTo(at) == import' = [import EXCEPT !.at = at]

\* An answer that is not 200, an error code in it, or no answer.
FailAt(at) == import' = [import EXCEPT !.at = at, !.failed = TRUE]

Give(ending) == import' = [import EXCEPT !.at = "over", !.ending = ending]

Break == import' = [import EXCEPT !.at = "over", !.ending = "error", !.failed = TRUE]

\* _extract_doc_info: what the URL names; only a document has blocks.
FirstStop ==
    CASE import.kind = "wiki"   -> "resolve"
      [] import.kind = "docx"   -> "blocks"
      [] import.kind = "sheets" -> "export"

\* No token, or a URL that is not one of Feishu's.
GetToken ==
    /\ import.at = "token"
    /\ MoveTo(FirstStop) \/ Break
    /\ UNCHANGED <<gathered, written, stored>>

\* A node of a wiki is a document, or something only the export knows.
ResolveWiki ==
    /\ import.at = "resolve"
    /\ \/ MoveTo("blocks")
       \/ MoveTo("export")
       \/ Break
    /\ UNCHANGED <<gathered, written, stored>>

\* MUTANT: the children are appended, known or not.
ExtendedByAll(map, kids) == map \o kids

\* A dictionary keeps the place of a key it has.
Extended(map, kids) ==
    LET known[n \in 0..Len(kids)] ==
            IF n = 0 THEN map
            ELSE IF Contains(known[n - 1], kids[n]) THEN known[n - 1]
            ELSE Append(known[n - 1], kids[n])
    IN  known[Len(kids)]

FetchFirst ==
    /\ import.at = "blocks"
    /\ \/ /\ MoveTo(IF First = <<>> THEN "export" ELSE "children")
          /\ gathered' = [gathered EXCEPT !.map = Extended(<<>>, First), !.queue = ParentBlocks(First)]
       \/ FailAt("export") /\ UNCHANGED gathered
    /\ UNCHANGED <<written, stored>>

AlreadyAsked(b) == Contains(gathered.asked, b)

\* An answer that is an error is passed over; a request that breaks leads to the export.
FetchChildren ==
    /\ import.at = "children" /\ gathered.queue # <<>>
    /\ LET b == Head(gathered.queue)
           rest == Tail(gathered.queue)
       IN  \/ /\ AlreadyAsked(b)
              /\ gathered' = [gathered EXCEPT !.queue = rest]
              /\ UNCHANGED import
           \/ /\ ~ AlreadyAsked(b)
              /\ \/ /\ gathered' = [gathered EXCEPT
                          !.map = Extended(@, Kids[b]),
                          !.queue = rest \o ParentBlocks(Kids[b]),
                          !.asked = Append(@, b), !.answered = @ \cup {b}]
                    /\ UNCHANGED import
                 \/ /\ gathered' = [gathered EXCEPT !.queue = rest, !.asked = Append(@, b)]
                    /\ import' = [import EXCEPT !.failed = TRUE]
                 \/ /\ gathered' = [gathered EXCEPT !.queue = <<>>, !.asked = Append(@, b)]
                    /\ FailAt("export")
    /\ UNCHANGED <<written, stored>>

BeginWriting ==
    /\ import.at = "children" /\ gathered.queue = <<>>
    /\ MoveTo("write")
    /\ UNCHANGED <<gathered, written, stored>>

\* The lines, in the order of block_map; a block without text, or of a type the code does
\* not know, has none.  An image is downloaded; with a tenant it is stored and its row
\* written, then its text read whatever that did; without one, or without a token to
\* download it by, it leaves no line.
WriteBlock ==
    /\ import.at = "write" /\ gathered.map # <<>>
    /\ LET b == Head(gathered.map) IN
       /\ gathered' = [gathered EXCEPT !.map = Tail(@)]
       /\ \/ /\ b \notin Images
             /\ written' = Append(written, b)
             /\ UNCHANGED <<import, stored>>
          \/ /\ b \in Images
             /\ import' = [import EXCEPT !.failed = TRUE]
             /\ UNCHANGED <<written, stored>>
          \/ /\ b \in Images /\ import.tenant
             /\ \E read \in BOOLEAN :
                  \/ /\ stored' = [objects |-> stored.objects \cup {b}, rows |-> stored.rows \cup {b}]
                     /\ written' = Append(written, b)
                     /\ UNCHANGED import
                  \/ /\ \/ stored' = [stored EXCEPT !.objects = @ \cup {b}]
                        \/ UNCHANGED stored
                     /\ written' = IF read THEN Append(written, b) ELSE written
                     /\ import' = [import EXCEPT !.failed = TRUE]
          \/ UNCHANGED <<import, written, stored>>

\* An exception of the constructor is caught as one of the parse.
GiveBlocks ==
    /\ import.at = "write" /\ gathered.map = <<>>
    /\ IF written # <<>> /\ Constructed THEN Give("blocks") ELSE MoveTo("export")
    /\ UNCHANGED <<gathered, written, stored>>

-----------------------------------------------------------------------------

CreateExport ==
    /\ import.at = "export"
    /\ MoveTo("poll") \/ Break
    /\ UNCHANGED <<gathered, written, stored>>

\* Asked every two seconds: done, not yet or no answer, and failed, done without a file
\* or not done after the last poll.
PollExport ==
    /\ import.at = "poll"
    /\ \/ MoveTo("download")
       \/ /\ import.polls + 1 < MaxPolls
          /\ import' = [import EXCEPT !.polls = @ + 1]
       \/ Break
    /\ UNCHANGED <<gathered, written, stored>>

Download ==
    /\ import.at = "download"
    /\ MoveTo("result") \/ Break
    /\ UNCHANGED <<gathered, written, stored>>

\* A public link; a large file answers with a page that asks for confirmation first.
FetchDrive ==
    /\ import.at \in {"drive", "confirm"}
    /\ \/ MoveTo("result")
       \/ import.at = "drive" /\ MoveTo("confirm")
       \/ Break
    /\ UNCHANGED <<gathered, written, stored>>

\* Nothing catches the constructor here: upload_to_kb and import_from_source fail.
GiveFile ==
    /\ import.at = "result"
    /\ Give(IF Constructed THEN "file" ELSE "error")
    /\ UNCHANGED <<gathered, written, stored>>

SourcesNext ==
    \/ GetToken \/ ResolveWiki \/ FetchFirst \/ FetchChildren \/ BeginWriting \/ WriteBlock
    \/ GiveBlocks \/ CreateExport \/ PollExport \/ Download \/ FetchDrive \/ GiveFile

SourcesSpec == SourcesInit /\ [][SourcesNext]_sourcesVars

-----------------------------------------------------------------------------

\* No block is asked for its children twice, however often it is listed.
AskedOnce == \A i, j \in DOMAIN gathered.asked : gathered.asked[i] = gathered.asked[j] => i = j

\* Before the writing, block_map holds each block of the first page and each child of
\* an answered block once, and nothing else.
MapIsComplete ==
    import.at = "children" /\ gathered.queue = <<>> =>
        /\ ToSet(gathered.map) = ToSet(First) \cup UNION {ToSet(Kids[b]) : b \in gathered.answered}
        /\ Len(gathered.map) = Cardinality(ToSet(gathered.map))

\* When the writing begins, every gathered block with children has been asked for them,
\* also one that another block's answer brought in.
NothingLeftUnasked ==
    import.at = "write" => \A b \in ToSet(gathered.map) : Kids[b] # <<>> => b \in ToSet(gathered.asked)

\* The blocks of a document are gathered once each and completely.
SourcesInv == AskedOnce /\ MapIsComplete /\ NothingLeftUnasked

\* A fetch whose requests were all answered gives a document; false: the constructor
\* of the result lacks an argument in all its three calls.
FetchSucceeds == import.at = "over" /\ import.ending = "error" => import.failed

\* A stored image belongs to a document that is given; false for the same reason, and
\* when a later step of the markdown fails.
ImagesBelong == import.at = "over" /\ import.ending # "blocks" => stored.objects = {}
=============================================================================
