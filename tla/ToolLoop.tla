------------------------------ MODULE ToolLoop ------------------------------
(***************************************************************************)
(* The tools of one request: the reasoning loop (core/agent/executor.py),  *)
(* the flow around it (core/chat/autonomous_flow.py), the direct export    *)
(* (core/chat/artifact_flow.py) and the tools they call, together with the *)
(* files these submit (ExportTask).                                        *)
(*                                                                         *)
(* A reply of the model is the tools it calls, or the kind of its text:    *)
(* an answer, a request for more material, or nothing.  The list of        *)
(* messages is left out; rounds, the need for a search and the tasks that  *)
(* were submitted are what decides.                                        *)
(***************************************************************************)
EXTENDS ExportTask, Sequences

CONSTANTS MaxIterations   \* settings.max_iterations

ASSUME LoopAssumption == MaxIterations \in Nat \ {0}

VARIABLE loop

loopVars == <<tool, row, work, stored, card, loop>>

\* The tools a model may name: retrieval, search and a file (ppt_generation or
\* pdf_export); the fourth, solution_generator, changes nothing here.
Names == {"knowledge_retrieval", "web_search", "export"}

\* stream_autonomous_execution registers by knowledge base and consent.
Registered == {{"export"} \union s : s \in SUBSET {"knowledge_retrieval", "web_search"}}

LoopInit ==
    /\ ExportInit
    /\ \E kind \in {"agent", "route"}, tools \in Registered, required \in BOOLEAN :
          /\ kind = "route" => tools = {"export"} /\ required
          /\ loop = [kind |-> kind, tools |-> tools, required |-> required,
                     pc |-> IF kind = "agent" THEN "round" ELSE "text",
                     round |-> 0, calls |-> <<>>, needed |-> FALSE, used |-> FALSE,
                     forced |-> FALSE, missed |-> FALSE, content |-> "none",
                     waits |-> {}, artifacts |-> <<>>]

\* Of a request that has ended only the kind of its text and its files are left.
Ended(l, place) ==
    [l EXCEPT !.pc = place, !.round = 0, !.needed = FALSE, !.used = FALSE, !.forced = FALSE,
              !.missed = FALSE, !.tools = {"export"}, !.calls = <<>>]

Has(name) == name \in loop.tools
Submitted == {t \in Tasks : tool[t] # "idle"}
Listed    == {loop.artifacts[i] : i \in DOMAIN loop.artifacts}

\* The search the executor makes itself.
ForceDue == loop.needed /\ ~loop.used /\ ~loop.forced /\ Has("web_search")

ForceSearch ==
    /\ loop.pc = "round" /\ loop.round < MaxIterations
    /\ ForceDue
    /\ loop' = [loop EXCEPT !.used = TRUE, !.needed = FALSE, !.forced = TRUE, !.round = @ + 1]
    /\ UNCHANGED exportVars

\* A text ends the loop; the reminder of the search in front of it has no effect any
\* more, as the forced search has come first.
TextReply ==
    \E content \in {"answer", "asks", "none"} :
        loop' = IF loop.needed /\ ~loop.used /\ Has("web_search")
                THEN [loop EXCEPT !.round = @ + 1]
                ELSE [loop EXCEPT !.content = content,
                                  !.pc = IF content = "none" THEN "final" ELSE "finish"]

CallsReply ==
    \E first \in Names, more \in Names \union {"nothing"} :
        /\ Cardinality({i \in 1..2 : <<first, more>>[i] = "export"})
              <= Cardinality(Tasks \ Submitted)
        /\ loop' = [loop EXCEPT !.pc = "calls",
                       !.calls = IF more = "nothing" THEN <<first>> ELSE <<first, more>>]

\* chat_with_tools; the loop does not catch its errors.
AskModel ==
    /\ loop.pc = "round" /\ loop.round < MaxIterations
    /\ ~ForceDue
    /\ TextReply \/ CallsReply \/ loop' = Ended(loop, "failed")
    /\ UNCHANGED exportVars

\* MUTANT: a round with calls is not counted.
CalledUncounted(l) ==
    LET rest == Tail(l.calls)
    IN [l EXCEPT !.calls = rest, !.pc = IF rest = <<>> THEN "round" ELSE "calls"]

\* After a call: the next one, or the next round.
Called(l) ==
    LET rest == Tail(l.calls)
    IN [l EXCEPT !.calls = rest,
                 !.pc = IF rest = <<>> THEN "round" ELSE "calls",
                 !.round = IF rest = <<>> THEN @ + 1 ELSE @]

Calling(name) == loop.pc = "calls" /\ Head(loop.calls) = name

\* Nothing found, or an error of the retrieval; a tool that is not registered gives
\* an error that does not count as a miss.
CallRetrieval ==
    /\ Calling("knowledge_retrieval")
    /\ \E miss \in IF Has("knowledge_retrieval") THEN BOOLEAN ELSE {FALSE} :
          loop' = Called([loop EXCEPT !.needed = @ \/ miss, !.missed = @ \/ miss])
    /\ UNCHANGED exportVars

\* Whatever the search returns, a result, nothing or an error, counts as used.
CallSearch ==
    /\ Calling("web_search")
    /\ loop' = Called([loop EXCEPT !.used = TRUE, !.needed = FALSE])
    /\ UNCHANGED exportVars

\* The tool is invoked for a new task, whose id is a random one; Tool(t) does the rest.
Invoke(place) ==
    /\ Submitted # Tasks
    /\ LET t == CHOOSE t \in Tasks : tool[t] = "idle"
       IN /\ tool' = [tool EXCEPT ![t] = "insert"]
          /\ loop' = [loop EXCEPT !.pc = place, !.waits = {t}]
    /\ UNCHANGED <<row, work, stored, card>>

\* Arguments that do not fit the tool end in an error text without a task.
CallExport ==
    /\ Calling("export")
    /\ \/ Invoke("export")
       \/ loop' = Called(loop) /\ UNCHANGED exportVars

\* MUTANT: a tool that answers with an error leaves no artifact.
TakeIfPending(t) == IF row[t].status = "pending" THEN Append(loop.artifacts, t) ELSE loop.artifacts

\* The id of the task counts, also next to an error.
Take(t) == Append(loop.artifacts, t)

\* The tool has answered, in the loop, for the enforced export or the direct one.
ExportAnswers ==
    \E t \in loop.waits :
        /\ loop.pc \in {"export", "enforced"}
        /\ tool[t] = "told"
        /\ LET l == [loop EXCEPT !.waits = {}, !.artifacts = Take(t)]
           IN loop' = IF loop.pc = "export" THEN Called(l) ELSE Ended(l, "answered")
        /\ UNCHANGED exportVars

\* No rounds are left: a text is streamed without tools.
Exhausted ==
    /\ loop.pc = "round" /\ loop.round = MaxIterations
    /\ loop' = [loop EXCEPT !.pc = "final"]
    /\ UNCHANGED exportVars

\* _stream_final; an error gives a text that says so, and so does an empty stream
\* when the rounds are used up.
StreamFinal ==
    /\ loop.pc = "final"
    /\ \E content \in {"answer", "asks", "error", "none"} :
          loop' = [loop EXCEPT !.pc = "finish",
                      !.content = IF content = "none" /\ loop.round = MaxIterations
                                  THEN "sorry" ELSE content]
    /\ UNCHANGED exportVars

\* The export the profile of the request requires, unless the text asks for material
\* or reports an error.
EnforceDue ==
    /\ loop.required
    /\ loop.artifacts = <<>>
    /\ loop.content \in {"answer", "sorry"}

Enforce ==
    /\ loop.pc = "finish" /\ EnforceDue
    /\ Invoke("enforced")

Answer ==
    /\ loop.pc = "finish" /\ ~EnforceDue
    /\ loop' = Ended(loop, "answered")
    /\ UNCHANGED exportVars

\* generate_route_artifact: a text, whatever it is, then the tool.
RouteText ==
    /\ loop.pc = "text"
    /\ \/ Invoke("enforced")
       \/ loop' = Ended(loop, "failed") /\ UNCHANGED exportVars

\* The client goes away while the text is streamed.
Leave ==
    /\ loop.pc = "finish"
    /\ loop' = Ended(loop, "failed")
    /\ UNCHANGED exportVars

\* The artifacts follow the text to the page, which makes a card of each.
ShowCards ==
    /\ loop.pc = "answered"
    /\ \E t \in Listed :
          /\ card[t] = "hidden"
          /\ card' = [card EXCEPT ![t] = "polling"]
    /\ UNCHANGED <<tool, row, work, stored, loop>>

Advance ==
    \/ ForceSearch
    \/ AskModel
    \/ CallRetrieval
    \/ CallSearch
    \/ CallExport
    \/ ExportAnswers
    \/ Exhausted
    \/ StreamFinal
    \/ Enforce
    \/ Answer
    \/ RouteText
    \/ ShowCards

LoopNext == Advance \/ Leave \/ (ExportStep /\ UNCHANGED loop)

LoopSpec == LoopInit /\ [][LoopNext]_loopVars /\ ExportFairness /\ WF_loopVars(Advance)

-----------------------------------------------------------------------------
(* Properties.                                                             *)

\* The loop keeps its type.
LoopTypeOK ==
    /\ ExportTypeOK
    /\ loop.round \in 0..MaxIterations
    /\ loop.calls \in Seq(Names) /\ Len(loop.calls) <= 2
    /\ Listed \subseteq Submitted /\ loop.waits \subseteq Submitted
    /\ loop.pc = "calls" => loop.calls # <<>>

\* An answer given after the knowledge base had nothing rests on a search, if the
\* search is available and rounds are left for it.
SearchAfterMiss ==
    loop.kind = "agent" /\ loop.pc = "finish" /\ loop.missed /\ Has("web_search") =>
        loop.used \/ loop.round = MaxIterations

\* A request that is answered lists every file that was submitted for it, also those
\* whose submission failed, and a profile that requires a file has one.
AnswerListsFiles ==
    loop.pc = "answered" =>
        /\ Listed = Submitted
        /\ loop.required /\ loop.content = "answer" => Listed # {}

\* A file's card keeps its word, an empty knowledge base is followed by a search, and
\* an answer names its files.
LoopInv == LoopTypeOK /\ ReadyHasFile /\ CardKeepsWord /\ SearchAfterMiss /\ AnswerListsFiles

\* Every request comes to an end, whatever the model asks for in its rounds, and
\* every file it lists gets its card.
LoopEnds ==
    /\ <>(loop.pc \in {"answered", "failed"})
    /\ \A t \in Tasks : loop.pc = "answered" /\ t \in Listed ~> card[t] # "hidden"
=============================================================================
