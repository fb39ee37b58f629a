--------------------------- MODULE ContextBlocks ---------------------------
(***************************************************************************)
(* Parent context blocks of a document (core/rag/context_blocks.py, at     *)
(* indexing) and the context given to the language model for the results   *)
(* of a search (core/rag/context_expansion.py).                            *)
(*                                                                         *)
(* A text is a sequence of cells.  Chunk s of a document holds its cells s *)
(* and s + 1: neighbours overlap in one cell.  Lengths count cells.        *)
(***************************************************************************)
EXTENDS Lists

CONSTANTS
    Docs,         \* documents
    Drafts,       \* chunk lists a document can have: records of tokens and heading
    OldDocs,      \* documents indexed before there were context blocks
    MinChildren, MaxChildren, TargetTokens, MaxTokens,
    Adjacent,     \* context_adjacent_window
    Overlap,      \* index_chunk_overlap, times 3 the overlap looked for
    MaxChars,     \* context_max_chars_per_result
    TotalMax,     \* context_total_max_chars
    MaxHits       \* top_k

ASSUME ContextAssumption ==
    /\ {MinChildren, MaxChildren, TargetTokens, MaxTokens, Overlap, MaxChars,
        TotalMax, MaxHits} \subseteq Nat \ {0}
    /\ Adjacent \in Nat /\ OldDocs \subseteq Docs
    /\ Drafts \subseteq Seq([tokens : Nat, heading : BOOLEAN])

VARIABLE context    \* a search from its hits to the groups

contextVars == <<context>>

-----------------------------------------------------------------------------

LeastOf(a, b) == IF a <= b THEN a ELSE b
MostOf(a, b) == IF a >= b THEN a ELSE b

NoGroup == [first |-> 1, size |-> 0, tokens |-> 0, blocks |-> <<>>]

\* A block is the first and the last sequence number of its chunks.
Flush(acc) ==
    IF acc.size = 0 THEN acc
    ELSE [first |-> acc.first + acc.size, size |-> 0, tokens |-> 0,
          blocks |-> Append(acc.blocks, <<acc.first, acc.first + acc.size - 1>>)]

FlushIf(cond, acc) == IF cond THEN Flush(acc) ELSE acc

Exceeds(acc, chunk) ==
    \/ acc.size >= MaxChildren
    \/ acc.tokens + chunk.tokens > MaxTokens /\ acc.size >= MinChildren

\* One chunk: a heading or a full group closes the group before it, the target
\* closes the group with it.
AddChunk(acc, chunk) ==
    LET a == FlushIf(chunk.heading /\ acc.size >= MinChildren, acc)
        b == FlushIf(Exceeds(a, chunk), a)
        c == [b EXCEPT !.size = @ + 1, !.tokens = @ + chunk.tokens]
    IN FlushIf(c.tokens >= TargetTokens /\ c.size >= MinChildren, c)

\* build_context_blocks_for_document; the rest at the end is flushed whatever its size.
Blocks(chunks) ==
    LET grouped[n \in 0..Len(chunks)] ==
            IF n = 0 THEN NoGroup ELSE AddChunk(grouped[n - 1], chunks[n])
    IN  Flush(grouped[Len(chunks)]).blocks

-----------------------------------------------------------------------------

\* Hits are places in documents; a hit of a document that was indexed again after
\* the search is known by its text alone.
Cells(doc, s) == << <<doc, s>>, <<doc, s + 1>> >>

EndsWith(left, part) ==
    Len(part) <= Len(left) /\ SubSeq(left, Len(left) - Len(part) + 1, Len(left)) = part

\* The longest beginning of right that left ends with is kept once.
RemoveOverlap(left, right) ==
    LET most == LeastOf(LeastOf(Len(left), Len(right)), 3 * Overlap)
        shared == {n \in 0..most : EndsWith(left, SubSeq(right, 1, n))}
        n == CHOOSE m \in shared : \A k \in shared : k <= m
    IN SubSeq(right, n + 1, Len(right))

\* _concat_chunks over the chunks lo..hi: each is compared with the chunk before it.
Concat(doc, lo, hi) ==
    LET joined[s \in lo..hi] ==
            IF s = lo THEN Cells(doc, lo)
            ELSE joined[s - 1] \o RemoveOverlap(Cells(doc, s - 1), Cells(doc, s))
    IN  joined[hi]

StartsAt(text, part, i) ==
    i + Len(part) <= Len(text) /\ SubSeq(text, i + 1, i + Len(part)) = part

\* _find_hit_window: offsets before and after the hit; the middle when it is not found.
HitWindow(full, hit) ==
    LET found == {i \in 0..Len(full) : StartsAt(full, hit, i)}
        middle == Len(full) \div 2
    IN IF found = {} THEN <<middle, middle>>
       ELSE LET i == CHOOSE j \in found : \A k \in found : j <= k IN <<i, i + Len(hit)>>

\* _truncate_around_hit
TruncateAround(full, window) ==
    LET hitLen == window[2] - window[1]
        half == (MaxChars - hitLen) \div 2
        start == IF window[1] > half THEN window[1] - half ELSE 0
        end == LeastOf(Len(full), start + MaxChars)
        begin == IF end - start < MaxChars THEN end - MaxChars ELSE start
    IN CASE Len(full) <= MaxChars -> full
         [] Len(full) > MaxChars /\ hitLen >= MaxChars ->
                SubSeq(full, window[1] + 1, window[1] + MaxChars)
         [] OTHER -> SubSeq(full, begin + 1, end)

\* The sequence number stored with a chunk: all chunks of a document that was indexed
\* before there were context blocks have the column's default.
NumberOf(hit) == IF hit.doc \in OldDocs THEN 1 ELSE hit.seq

\* The chunk that the number of a hit finds (chunks_by_doc); of several chunks with
\* one number the last that was read is kept.
Found(hit) == IF hit.doc \in DOMAIN context.kept THEN context.kept[hit.doc] ELSE hit.seq

\* How many neighbours on either side have numbers of their own.
Around(doc) == IF doc \in OldDocs THEN 0 ELSE Adjacent

\* The block a chunk names, when it names one and it was read.
BlockOf(doc, s) ==
    IF doc \in OldDocs \union context.regrouped THEN {}
    ELSE {b \in ToSet(Blocks(context.drafts[doc])) : b[1] <= s /\ s <= b[2]}

\* expand_results for one hit: the chunks of its block, or its own, with their
\* neighbours; the text around the hit.
Expanded(hit) ==
    LET doc == hit.doc
        s == Found(hit)
        last == Len(context.drafts[doc])
        span == IF BlockOf(doc, s) = {} THEN <<s, s>>
                ELSE CHOOSE b \in BlockOf(doc, s) : TRUE
        lo == IF span[1] > Around(doc) THEN span[1] - Around(doc) ELSE 1
        full == Concat(doc, lo, LeastOf(last, span[2] + Around(doc)))
        own == Cells(doc, s)
    IN IF doc \in context.replaced
       THEN [hit |-> hit, parent |-> {}, known |-> FALSE,
             text |-> TruncateAround(own, HitWindow(own, own))]
       ELSE [hit |-> hit, parent |-> BlockOf(doc, s), known |-> TRUE,
             text |-> TruncateAround(full, HitWindow(full, own))]

-----------------------------------------------------------------------------

\* Results are numbered by their final rank.
Ranks(results) == DOMAIN results

SamePlace(results, i) ==
    LET same == {j \in Ranks(results) : /\ results[j].hit.doc = results[i].hit.doc
                                       /\ results[j].parent = results[i].parent}
    IN  InOrder(same, {p \in same \X same : p[1] < p[2]})

\* Results of one parent block, in the order of their ranks.
ParentGroups(results) ==
    {SamePlace(results, i) : i \in {j \in Ranks(results) : results[j].parent # {}}}

Number(results, i) == NumberOf(results[i].hit)

\* Results without a parent, by number and then by rank; each joins the group before
\* it when its window overlaps or touches it.
ByPlace(results, doc) ==
    LET single == {j \in Ranks(results) : /\ results[j].hit.doc = doc
                                         /\ results[j].parent = {} /\ results[j].known}
    IN  InOrder(single, {p \in single \X single :
                            \/ Number(results, p[1]) < Number(results, p[2])
                            \/ Number(results, p[1]) = Number(results, p[2]) /\ p[1] < p[2]})

Touches(results, group, i) ==
    Number(results, i) <= Adjacent + Number(results, group[Len(group)]) + Adjacent + 1

Joined(results, groups, i) ==
    IF groups # <<>> /\ Touches(results, groups[Len(groups)], i)
    THEN [groups EXCEPT ![Len(groups)] = Append(@, i)]
    ELSE Append(groups, <<i>>)

WindowGroups(results, doc) ==
    LET ranks == ByPlace(results, doc)
        merged[n \in 0..Len(ranks)] ==
            IF n = 0 THEN <<>> ELSE Joined(results, merged[n - 1], ranks[n])
    IN  ToSet(merged[Len(ranks)])

\* A result whose place is not known is a group of its own.
LoneGroups(results) == {<<i>> : i \in {j \in Ranks(results) : ~results[j].known}}

BestRank(group) == CHOOSE i \in ToSet(group) : \A j \in ToSet(group) : i <= j

GroupLists(results) ==
    LET groups == ParentGroups(results) \union LoneGroups(results)
                  \union UNION {WindowGroups(results, d) : d \in Docs}
    IN  InOrder(groups, {p \in groups \X groups : BestRank(p[1]) < BestRank(p[2])})

\* _build_group: the texts one after the other, an overlap kept once.
GroupText(results, group) ==
    LET text[n \in 0..Len(group)] ==
            IF n = 0 THEN <<>>
            ELSE IF text[n - 1] = <<>> THEN results[group[n]].text
            ELSE text[n - 1] \o RemoveOverlap(text[n - 1], results[group[n]].text)
    IN  text[Len(group)]

\* MUTANT: what a group has used is not counted.
BudgetedEach(groups) ==
    [i \in DOMAIN groups |->
        [groups[i] EXCEPT !.text = SubSeq(@, 1, LeastOf(Len(@), TotalMax))]]

\* The total budget, spent from the best group on.
Cut(text, left) == IF Len(text) > left THEN SubSeq(text, 1, left) ELSE text

Budgeted(groups) ==
    LET left(total) == IF total >= TotalMax THEN 0 ELSE TotalMax - total
        total[n \in 0..Len(groups)] ==
            IF n = 0 THEN 0
            ELSE total[n - 1] + Len(Cut(groups[n].text, left(total[n - 1])))
    IN  [n \in DOMAIN groups |-> [groups[n] EXCEPT !.text = Cut(@, left(total[n - 1]))]]

\* assemble_context_groups
AssembleGroups(results) ==
    LET lists == GroupLists(results)
    IN Budgeted([k \in DOMAIN lists |->
                    [members |-> lists[k], text |-> GroupText(results, lists[k])]])

-----------------------------------------------------------------------------

Places(drafts) == {[doc |-> d, seq |-> s] : d \in Docs, s \in 1..MaxChildren * 2}

HitLists(drafts) ==
    LET places == {p \in Places(drafts) : p.seq <= Len(drafts[p.doc])}
    IN {h \in UNION {[1..n -> places] : n \in 1..MaxHits} :
           \A i, j \in DOMAIN h : h[i] = h[j] => i = j}

ContextInit ==
    /\ context \in [pc : {"search"}, drafts : [Docs -> Drafts], hits : {<<>>},
                    replaced : {{}}, kept : {<<>>}, regrouped : {{}}, results : {<<>>}, groups : {<<>>}]

\* The final results of a search.
Hit ==
    /\ context.pc = "search"
    /\ \E hits \in HitLists(context.drafts) :
          context' = [context EXCEPT !.pc = "hits", !.hits = hits]

HitDocs == {context.hits[i].doc : i \in DOMAIN context.hits}

\* A document is indexed again between the search and the expansion: the chunks that
\* were hit are gone.
Replace ==
    /\ context.pc = "hits"
    /\ \E d \in HitDocs \ context.replaced :
          context' = [context EXCEPT !.replaced = @ \union {d}]

\* The first SELECT, of the chunks.  Those of a document with one number come in the
\* order of their random ids: any of them may be the last.
OldHits == (OldDocs \intersect HitDocs) \ context.replaced

ReadChunks ==
    /\ context.pc = "hits"
    /\ \E kept \in [OldHits -> 1..MaxChildren * 2] :
          /\ \A d \in OldHits : kept[d] <= Len(context.drafts[d])
          /\ context' = [context EXCEPT !.pc = "chunks", !.kept = kept]

\* A document is indexed again, or its blocks are built again, after its chunks were
\* read: the blocks they name are gone.  Chunks that were not found name none.
Regroup ==
    /\ context.pc = "chunks"
    /\ \E d \in HitDocs \ (context.replaced \union context.regrouped) :
          context' = [context EXCEPT !.regrouped = @ \union {d}]

\* The second SELECT, of the blocks, and what becomes of the hits.
ReadBlocks ==
    /\ context.pc = "chunks"
    /\ context' = [context EXCEPT !.pc = "expanded",
          !.results = [i \in DOMAIN context.hits |-> Expanded(context.hits[i])]]

AssembleContext ==
    /\ context.pc = "expanded"
    /\ context' = [context EXCEPT !.pc = "done",
                                  !.groups = AssembleGroups(context.results)]

ContextNext ==
    Hit \/ Replace \/ ReadChunks \/ Regroup \/ ReadBlocks \/ AssembleContext

ContextSpec == ContextInit /\ [][ContextNext]_contextVars

-----------------------------------------------------------------------------

\* Blocks follow each other without a gap and hold all chunks; none has more than
\* context_parent_max_children, and only the last fewer than
\* context_parent_min_children.
BlocksPartition ==
    \A d \in Docs :
        LET blocks == Blocks(context.drafts[d])
            size(k) == blocks[k][2] - blocks[k][1] + 1
        IN /\ context.drafts[d] # <<>> =>
                 blocks[1][1] = 1 /\ blocks[Len(blocks)][2] = Len(context.drafts[d])
           /\ \A k \in DOMAIN blocks :
                 /\ size(k) \in 1..MaxChildren
                 /\ k < Len(blocks) =>
                       /\ blocks[k + 1][1] = blocks[k][2] + 1
                       /\ size(k) >= LeastOf(MinChildren, MaxChildren)

\* The text holds the chunk.
HoldsChunk(text, doc, s) ==
    MaxChars >= 2 => \E k \in 0..MaxChars : StartsAt(text, Cells(doc, s), k)

\* The text given for a result contains the chunk that was hit, whatever is cut off
\* (_truncate_around_hit), and is not longer than context_max_chars_per_result.  A hit of
\* a document without numbers is given the chunk its number finds.
HitInContext ==
    \A i \in DOMAIN context.results :
        LET r == context.results[i] IN
        /\ Len(r.text) <= MaxChars
        /\ HoldsChunk(r.text, r.hit.doc, Found(r.hit))

\* What the file promises of every hit: its own chunk first, with what lies around it
\* (context_expansion.py:4-5).
HitSupplemented ==
    \A i \in DOMAIN context.results :
        LET r == context.results[i] IN HoldsChunk(r.text, r.hit.doc, r.hit.seq)

\* Every result is in exactly one group; two results of a document share a group
\* exactly when they have the same block or their windows are linked; the groups
\* come in the order of their best results (assemble_context_groups).
Linked(results, i, j) ==
    LET seqs == {Number(results, k) : k \in ToSet(ByPlace(results, results[i].hit.doc))}
        low == LeastOf(Number(results, i), Number(results, j))
        high == MostOf(Number(results, i), Number(results, j))
    IN \A s \in low..high - 1 : \E t \in seqs : s - 2 * Adjacent <= t /\ t <= s /\ t >= low

Together(results, i, j) ==
    /\ results[i].hit.doc = results[j].hit.doc
    /\ results[i].known /\ results[j].known
    /\ results[i].parent = results[j].parent
    /\ results[i].parent # {} \/ Linked(results, i, j)

GroupsMatchPlaces ==
    context.pc = "done" =>
        LET groups == context.groups IN
        /\ \A i \in Ranks(context.results) :
              Cardinality({k \in DOMAIN groups : i \in ToSet(groups[k].members)}) = 1
        /\ \A i, j \in Ranks(context.results) :
              i # j => ((\E k \in DOMAIN groups : {i, j} \subseteq ToSet(groups[k].members))
                        <=> Together(context.results, i, j))
        /\ \A k \in 1..Len(groups) - 1 :
              BestRank(groups[k].members) < BestRank(groups[k + 1].members)

Spent(groups) ==
    LET total[n \in 0..Len(groups)] ==
            IF n = 0 THEN 0 ELSE total[n - 1] + Len(groups[n].text)
    IN  total[Len(groups)]

\* All groups together stay within context_total_max_chars, and a group is cut only
\* when nothing is left for the groups behind it.
BudgetKept ==
    context.pc = "done" =>
        LET groups == context.groups
            whole(k) == GroupText(context.results, groups[k].members)
        IN /\ Spent(groups) <= TotalMax
           /\ \A k \in DOMAIN groups : groups[k].text # whole(k) => Spent(groups) = TotalMax

\* Blocks, windows and groups of a search's results fit together and within the budget.
ContextInv == BlocksPartition /\ HitInContext /\ GroupsMatchPlaces /\ BudgetKept

\* The groups repeat no part of a document.
NoCellTwice ==
    context.pc = "done" =>
        \A k \in DOMAIN context.groups : IsInjective(context.groups[k].text)
=============================================================================
