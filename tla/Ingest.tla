------------------------------- MODULE Ingest -------------------------------
(***************************************************************************)
(* What an index run does between the download of a file and the insert of *)
(* its chunks: the parsers of core/tasks/indexing.py, core/rag/pdf_parser  *)
(* with its OCR threads, the cleaner, the chunker and the batches of       *)
(* core/embedding/client.  DocumentIndexing has the rows and the other     *)
(* runs; here it is which text ends up in which chunk with which vector.   *)
(*                                                                         *)
(* A text is the page it is of, where it comes from, its length as it was  *)
(* read and the length of the content it gives: what the cleaner keeps of  *)
(* it, and the links of the page's images.  A piece is a part of a content.*)
(***************************************************************************)
EXTENDS Naturals, FiniteSets, SequencesExt

CONSTANTS
    Layer,        \* text layer of each page, in their order: raw length, and what is kept
    Pictures,     \* images of each page
    Transcripts,  \* what the model may transcribe a page to, likewise
    LinkLength,   \* length of the link of an image
    ShortText,    \* MIN_TEXT_LEN
    Threads,      \* OCR_CONCURRENCY
    PieceLength,  \* chunk_size
    BatchLength,  \* batch_size of embed_batch
    OllamaFits,   \* the Ollama model has the dimension of the column
    MaxAttempts   \* 1 + MAX_RETRIES

\* The cleaner only takes away.
Lengths == {t \in [raw : Nat, kept : Nat] : t.kept <= t.raw}

ASSUME IngestAssumption ==
    /\ Layer \in Seq(Lengths) /\ Layer # <<>> /\ Pictures \in [DOMAIN Layer -> Nat]
    /\ Transcripts \subseteq Lengths /\ {ShortText, LinkLength} \subseteq Nat
    /\ {PieceLength, BatchLength, Threads, MaxAttempts} \subseteq Nat \ {0}
    /\ OllamaFits \in BOOLEAN

VARIABLES
    job,      \* place, kind of file, whether a vision model is set, provider, attempt, pieces sent
    ocr,      \* pages waiting, being read, and read in the order they ended
    texts,    \* the documents of the parser
    vectors,  \* vectors of the pieces embedded so far
    inserted, \* chunks and vectors of the committed transaction
    pictures  \* images stored, each with the attempt that stored it

ingestVars == <<job, ocr, texts, vectors, inserted, pictures>>

-----------------------------------------------------------------------------

PageNumbers == DOMAIN Layer

\* The text read on a page, with the links of its images behind it.
TextFrom(p, by, read, links) ==
    [page |-> p, by |-> by, length |-> read.raw, content |-> read.kept + links * LinkLength]

Poor ==
    LET poor[p \in 0..Len(Layer)] ==
            IF p = 0 THEN <<>>
            ELSE IF Layer[p].raw < ShortText THEN Append(poor[p - 1], p) ELSE poor[p - 1]
    IN  poor[Len(Layer)]

\* MUTANT: the answers are taken in the order they came, not by their page.
AnswerInOrder(p) == ocr.ended[CHOOSE n \in DOMAIN Poor : Poor[n] = p]

AnswerOf(p) == ocr.ended[CHOOSE n \in DOMAIN ocr.ended : ocr.ended[n].page = p]

\* Compared as they were read, before the cleaner.
Richer(p, answer) == answer.raw > Layer[p].raw

\* The transcription when it says more than the layer.
TextOfPage(p) ==
    IF Contains(Poor, p) /\ Richer(p, AnswerOf(p))
    THEN TextFrom(p, "ocr", AnswerOf(p), Pictures[p])
    ELSE TextFrom(p, "layer", Layer[p], Pictures[p])

\* The documents of the pages with a text or an image.
PageTexts ==
    LET documents[p \in 0..Len(Layer)] ==
            IF p = 0 THEN <<>>
            ELSE IF TextOfPage(p).length > 0 \/ Pictures[p] > 0
            THEN Append(documents[p - 1], TextOfPage(p)) ELSE documents[p - 1]
    IN  documents[Len(Layer)]

\* Every content is cut by itself, after the cleaner; nothing is left of some.
PiecesOf(t) == [n \in 1..((t.content + PieceLength - 1) \div PieceLength) |-> [text |-> t, part |-> n]]

Pieces == FlattenSeq([n \in DOMAIN texts |-> PiecesOf(texts[n])])

Batch ==
    SubSeq(Pieces, job.sent + 1,
           IF job.sent + BatchLength < Len(Pieces) THEN job.sent + BatchLength ELSE Len(Pieces))

VectorsBy(model, batch) == [n \in DOMAIN batch |-> [of |-> batch[n], by |-> model]]

\* What the vector column takes; Ollama may answer with an empty vector.
Fits(v) == v.by = "service" \/ (v.by = "ollama" /\ OllamaFits)

-----------------------------------------------------------------------------

NothingRead == [raw |-> 0, kept |-> 0]

NoOcr == [waiting |-> <<>>, reading |-> {}, ended |-> <<>>]

IngestInit ==
    /\ job \in [at : {"download"}, kind : {"pdf", "text", "image"}, vision : BOOLEAN,
                ollama : BOOLEAN, attempt : {1}, sent : {0}]
    /\ ocr = NoOcr /\ texts = <<>> /\ vectors = <<>> /\ inserted = <<>> /\ pictures = {}

Proceed(at) == job' = [job EXCEPT !.at = at]

\* An exception: the task is retried from the download, or ends.
Raise ==
    /\ job' = IF job.attempt < MaxAttempts
              THEN [job EXCEPT !.at = "download", !.attempt = @ + 1, !.sent = 0]
              ELSE [job EXCEPT !.at = "failed", !.sent = 0]
    /\ ocr' = NoOcr /\ texts' = <<>> /\ vectors' = <<>>
    /\ UNCHANGED inserted

DownloadFile ==
    /\ job.at = "download"
    /\ \/ Proceed("parse") /\ UNCHANGED <<ocr, texts, vectors, inserted>>
       \/ Raise
    /\ UNCHANGED pictures

\* The text of a file without pages is like that of any page, also none.
ParseText ==
    /\ job.at = "parse" /\ job.kind = "text"
    /\ \/ /\ \E p \in PageNumbers : texts' = <<TextFrom(1, "layer", Layer[p], 0)>>
          /\ Proceed("chunk") /\ UNCHANGED <<ocr, vectors, inserted>>
       \/ Raise
    /\ UNCHANGED pictures

ParseImage ==
    /\ job.at = "parse" /\ job.kind = "image"
    /\ \/ /\ job.vision
          /\ \E answer \in Transcripts : texts' = <<TextFrom(1, "vision", answer, 0)>>
          /\ Proceed("chunk") /\ UNCHANGED <<ocr, vectors, inserted>>
       \/ Raise
    /\ UNCHANGED pictures

ReadLayers ==
    /\ job.at = "parse" /\ job.kind = "pdf"
    /\ \/ /\ ocr' = [NoOcr EXCEPT !.waiting = Poor]
          /\ Proceed("ocr") /\ UNCHANGED <<texts, vectors, inserted>>
       \/ Raise
    /\ UNCHANGED pictures

StartOcr ==
    /\ job.at = "ocr" /\ ocr.waiting # <<>> /\ Cardinality(ocr.reading) < Threads
    /\ ocr' = [ocr EXCEPT !.waiting = Tail(@), !.reading = @ \cup {Head(ocr.waiting)}]
    /\ UNCHANGED <<job, texts, vectors, inserted, pictures>>

\* No vision model, an error or an empty answer: nothing transcribed.
EndOcr(p) ==
    /\ job.at = "ocr" /\ p \in ocr.reading
    /\ \E answer \in (IF job.vision THEN Transcripts ELSE {}) \cup {NothingRead} :
         ocr' = [ocr EXCEPT !.reading = @ \ {p},
                            !.ended = Append(@, [page |-> p, raw |-> answer.raw, kept |-> answer.kept])]
    /\ UNCHANGED <<job, texts, vectors, inserted, pictures>>

\* After the last thread, page after page: text and images.  An image that cannot be
\* stored fails the parser; those before it stay.
Assemble ==
    /\ job.at = "ocr" /\ ocr.waiting = <<>> /\ ocr.reading = {}
    /\ \E stored \in 0..FoldSeq(+, 0, Pictures) :
         LET all == FlattenSeq([p \in PageNumbers |-> [n \in 1..Pictures[p] |-> <<p, n>>]]) IN
         /\ pictures' = pictures \cup {<<all[n], job.attempt>> : n \in 1..stored}
         /\ IF stored < Len(all) THEN Raise
            ELSE /\ texts' = PageTexts
                 /\ Proceed("chunk")
                 /\ UNCHANGED <<ocr, vectors, inserted>>

\* The cleaner and the cutter; nothing to index ends the task without a retry.
Chunk ==
    /\ job.at = "chunk"
    /\ Proceed(IF Pieces = <<>> THEN "failed" ELSE "embed")
    /\ UNCHANGED <<ocr, texts, vectors, inserted, pictures>>

\* A batch: the vector service, whose answer is taken whatever number of vectors it has; if
\* it fails Ollama, one text after the other, where it is the provider, else the service
\* once more.
EmbedBatch ==
    /\ job.at = "embed" /\ job.sent < Len(Pieces)
    /\ \/ /\ \/ \E given \in 0..Len(Batch) :
                   vectors' = vectors \o VectorsBy("service", SubSeq(Batch, 1, given))
             \/ /\ job.ollama
                /\ \E missing \in SUBSET DOMAIN Batch :
                     vectors' = vectors \o [n \in DOMAIN Batch |->
                         [of |-> Batch[n], by |-> IF n \in missing THEN "empty" ELSE "ollama"]]
          /\ job' = [job EXCEPT !.sent = @ + Len(Batch)]
          /\ UNCHANGED <<ocr, texts, inserted>>
       \/ Raise
    /\ UNCHANGED pictures

\* As many vectors as chunks, or the task fails.
Insert ==
    /\ job.at = "embed" /\ job.sent >= Len(Pieces)
    /\ \/ /\ Len(vectors) = Len(Pieces) /\ \A n \in DOMAIN vectors : Fits(vectors[n])
          /\ inserted' = [n \in DOMAIN Pieces |-> [piece |-> Pieces[n], vector |-> vectors[n]]]
          /\ Proceed("ready") /\ UNCHANGED <<ocr, texts, vectors>>
       \/ Raise
    /\ UNCHANGED pictures

IngestNext ==
    \/ DownloadFile \/ ParseText \/ ParseImage \/ ReadLayers \/ StartOcr
    \/ \E p \in PageNumbers : EndOcr(p)
    \/ Assemble \/ Chunk \/ EmbedBatch \/ Insert

IngestSpec == IngestInit /\ [][IngestNext]_ingestVars

-----------------------------------------------------------------------------

\* A transcription in the index is the one the model gave for that page, in whatever
\* order the threads ended.
PageTextIsOwn ==
    \A n \in DOMAIN texts : texts[n].by = "ocr" =>
        \E answer \in ToSet(ocr.ended) :
            texts[n] = TextFrom(answer.page, "ocr", answer, Pictures[answer.page])

\* No page of a PDF is left out that has a text or an image, and the text taken for it is
\* as long, before the cleaner, as its layer.
NoTextLost ==
    job.kind = "pdf" /\ texts # <<>> =>
        \A p \in PageNumbers : Layer[p].raw > 0 \/ Pictures[p] > 0 =>
            \E n \in DOMAIN texts : texts[n].page = p /\ texts[n].length >= Layer[p].raw

\* A ready document has a row for every piece of its texts, with the vector of that
\* piece, whichever service made it, however the texts were put into batches and however
\* many vectors an answer lacked.
VectorsFit ==
    job.at = "ready" =>
        /\ [n \in DOMAIN inserted |-> inserted[n].piece] = Pieces
        /\ \A n \in DOMAIN inserted : inserted[n].vector.of = inserted[n].piece

\* Text, pieces and vectors belong together, whatever overlaps or fails.
IngestInv == PageTextIsOwn /\ NoTextLost /\ VectorsFit

\* All vectors of a document are of one model; false: each batch falls back by itself.
OneModel == \A m, n \in DOMAIN inserted : inserted[m].vector.by = inserted[n].vector.by

\* The text taken for a page leaves no less of it in the index than its layer would; false:
\* the two are compared before the cleaner has been over them.
RicherWhenCleaned ==
    job.kind = "pdf" =>
        \A n \in DOMAIN texts :
            texts[n].content >= Layer[texts[n].page].kept + Pictures[texts[n].page] * LinkLength

\* An image of the file is stored once; false: each attempt stores it again.
ImageStoredOnce == \A x, y \in pictures : x[1] = y[1] => x = y
=============================================================================
