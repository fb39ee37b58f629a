---------------------------- MODULE Conversation ----------------------------
(***************************************************************************)
(* A conversation between its clients and the chat endpoint: the part of a *)
(* chat request around the agent run (core/chat/chat_pipeline.py,          *)
(* web_search_state.py, conversation_service.py, attachment_service.py,    *)
(* api/routers/chat.py) and the chat page (components/chat/chat-page.tsx,  *)
(* lib/api.ts).                                                            *)
(*                                                                         *)
(* Consent to search the web is kept in the conversation's meta column.  A *)
(* request takes a copy of it at its start and writes the whole copy back, *)
(* at up to three places; in between other requests do the same.  Assigning*)
(* the dictionary a second time is no change for the ORM, which compares   *)
(* the object with itself, so only the first write of a request reaches    *)
(* the row.  A page always sends its switch; other clients need not.       *)
(***************************************************************************)
EXTENDS Naturals, Sequences, FiniteSets

CONSTANTS
    Requests,      \* chat requests
    Pages,         \* chat pages (tabs) of the user
    Convs,         \* conversations
    Texts,         \* messages, as the sets of keywords found in them
    HistoryLimit,  \* limit of get_history_messages
    MissLimit,     \* misses after which the search is switched on
    MaxOpen,       \* requests under way at once, a bound of the model
    None

Keywords == {"search", "yes", "no"}

ASSUME ConversationAssumption ==
    /\ None \notin Requests \union Pages \union Convs
    /\ Convs # {}
    /\ Texts \subseteq SUBSET Keywords
    /\ HistoryLimit \in Nat \ {0}
    /\ MissLimit \in Nat \ {0}
    /\ MaxOpen \in Nat \ {0}

VARIABLES
    meta,    \* the meta column of a conversation
    made,    \* conversations, oldest first
    rows,    \* messages of a conversation, in the order of created_at
    req,     \* chat requests
    page     \* chat pages

chatVars == <<meta, made, rows, req, page>>

-----------------------------------------------------------------------------

Modes == {"off", "on", "ask"}

\* What the code reads from the dictionary; a missing key reads as off, 0 and "".
Meta == [mode : Modes, misses : 0..MissLimit - 1, query : Requests \union {None}]

NoMeta == [mode |-> "off", misses |-> 0, query |-> None]

Switched(m, mode) == [m EXCEPT !.mode = mode, !.query = None]

\* MUTANT: agreement is looked for first.
ClassifyYesFirst(text) == "yes" \in text

\* classify_yes_no: refusals are looked for first.
ClassifyYesNo(text) == "no" \notin text /\ "yes" \in text

\* process_web_search_explicit_keyword
HasSearchKeyword(text) == "search" \in text

\* handle_ask_pending_response: the next message is the answer to the question.
Replied(m, text) == Switched(m, IF ClassifyYesNo(text) THEN "on" ELSE "off")

\* process_kb_miss, for a request with a knowledge base and without attachments or
\* chunks.
Missed(m, r) ==
    IF m.mode = "on" THEN m
    ELSE IF m.misses + 1 >= MissLimit
    THEN [Switched(m, "on") EXCEPT !.misses = 0]
    ELSE [mode |-> "ask", misses |-> m.misses + 1, query |-> r]

-----------------------------------------------------------------------------

Row(role, r) == [role |-> role, of |-> r]
Bubble(role, r) == [role |-> role, of |-> r, texts |-> {}]

NoRequest == [pc |-> "idle", sender |-> None, conv |-> None, flag |-> "none", text |-> {},
              loaded |-> NoMeta, local |-> NoMeta, written |-> FALSE, history |-> <<>>,
              told |-> "off", alone |-> TRUE, why |-> "none"]

ChatInit ==
    /\ meta = [c \in Convs |-> NoMeta]
    /\ made = <<CHOOSE c \in Convs : TRUE>>
    /\ rows = [c \in Convs |-> <<>>]
    /\ req = [r \in Requests |-> NoRequest]
    /\ page = [p \in Pages |-> [conv |-> None, toggle |-> FALSE, busy |-> None,
                                history |-> "listing", early |-> FALSE, bubbles |-> <<>>]]

Conv(r) == req[r].conv
Goto(r, place) == req' = [req EXCEPT ![r].pc = place]

\* Between reading the conversation and the last write.
Inside == {"question", "toggle", "keyword", "reply", "retrieve", "answer"}
Ended  == {"done", "refused", "dropped"}

\* Requests are named in the order in which they are made.  Two bounds of the model:
\* at most MaxOpen are under way, and one is made while a page loads its history.
IsNext(r) ==
    /\ req[r].pc = "idle"
    /\ r = CHOOSE q \in Requests : req[q].pc = "idle"
    /\ (\E p \in Pages : page[p].history # "shown") => \A q \in Requests : req[q].pc = "idle"
    /\ Cardinality({q \in Requests : req[q].pc \notin Ended \union {"idle"}}) < MaxOpen

-----------------------------------------------------------------------------
(* The page.                                                               *)

\* loadHistory lists the conversations and takes the latest one.
ListConversations(p) ==
    /\ page[p].history = "listing"
    /\ page' = [page EXCEPT ![p].history = "loading", ![p].conv = made[Len(made)]]
    /\ UNCHANGED <<meta, made, rows, req>>

\* Its messages replace what the page shows.
ShowHistory(p) ==
    /\ page[p].history = "loading"
    /\ \E c \in {made[i] : i \in DOMAIN made} :
          /\ c = page[p].conv
          /\ page' = [page EXCEPT ![p].history = "shown",
                        ![p].bubbles = [i \in DOMAIN rows[c] |->
                            [role |-> rows[c][i].role, of |-> rows[c][i].of,
                             texts |-> IF rows[c][i].role = "assistant" THEN {rows[c][i].of} ELSE {}]]]
    /\ UNCHANGED <<meta, made, rows, req>>

\* handleSubmit up to its first await, possibly after a click on the switch.  A page
\* that knows its conversation opens the answer's bubble and sends the request.
Submit(p, r, text, toggle) ==
    LET known == page[p].conv # None
    IN /\ page[p].busy = None
       /\ IsNext(r)
       /\ req' = [req EXCEPT ![r] = [NoRequest EXCEPT
                     !.sender = p, !.text = text, !.conv = page[p].conv,
                     !.flag = IF toggle THEN "on" ELSE "off",
                     !.pc = IF known THEN "posted" ELSE "create"]]
       /\ page' = [page EXCEPT ![p].busy = r, ![p].toggle = toggle,
                     ![p].early = @ \/ page[p].history # "shown",
                     ![p].bubbles = @ \o IF known THEN <<Bubble("user", r), Bubble("assistant", r)>>
                                         ELSE <<Bubble("user", r)>>]
       /\ UNCHANGED <<meta, made, rows>>

\* A page without a conversation creates one first.
CreateConversation(r) ==
    /\ req[r].pc = "create"
    /\ \E c \in Convs \ {made[i] : i \in DOMAIN made} :
          /\ made' = Append(made, c)
          /\ req' = [req EXCEPT ![r].conv = c, ![r].pc = "posted"]
          /\ page' = [page EXCEPT ![req[r].sender].conv = c,
                                  ![req[r].sender].bubbles = Append(@, Bubble("assistant", r))]
    /\ UNCHANGED <<meta, rows>>

\* A client other than the page, which sends no switch.
ApiSend(r, text) ==
    /\ IsNext(r)
    /\ req' = [req EXCEPT ![r] = [NoRequest EXCEPT
                  !.text = text, !.conv = made[Len(made)], !.pc = "posted"]]
    /\ UNCHANGED <<meta, made, rows, page>>

\* MUTANT: the text goes to the first answer on the page.
WrittenFirst(bubbles, r) ==
    IF \E i \in DOMAIN bubbles : bubbles[i].role = "assistant"
    THEN LET first == CHOOSE i \in DOMAIN bubbles : bubbles[i].role = "assistant" /\
                         \A j \in DOMAIN bubbles : bubbles[j].role = "assistant" => i <= j
         IN [bubbles EXCEPT ![first].texts = @ \union {r}]
    ELSE bubbles

Written(bubbles, r) ==
    LET last == Len(bubbles)
    IN IF last > 0 /\ bubbles[last].role = "assistant"
       THEN [bubbles EXCEPT ![last].texts = @ \union {r}]
       ELSE bubbles

\* The stream's text goes to the last bubble; the final chunk sets the switch.
Receive(p) ==
    LET r == page[p].busy
    IN /\ r # None
       /\ req[r].pc = "done"
       /\ page' = [page EXCEPT ![p].busy = None, ![p].toggle = req[r].told = "on",
                               ![p].bubbles = Written(@, r)]
       /\ UNCHANGED <<meta, made, rows, req>>

\* chatStream reads the body of an error like any other: it has no data lines.
NothingShown == <<>>

\* chatStreamWithFiles looks at the status; a connection that breaks raises as well.
ErrorShown == <<Bubble("assistant", None)>>

\* A stream that ends without the final chunk, or an error of the request.
GiveUp(p) ==
    LET r == page[p].busy
    IN /\ r # None
       /\ req[r].pc \in {"refused", "dropped"}
       /\ \E bubble \in {NothingShown, ErrorShown} :
             page' = [page EXCEPT ![p].busy = None, ![p].bubbles = @ \o bubble]
       /\ UNCHANGED <<meta, made, rows, req>>

-----------------------------------------------------------------------------
(* The endpoint.                                                           *)

Overlapping(r) == {q \in Requests \ {r} : Conv(q) = Conv(r) /\ req[q].pc \in Inside}

FirstRows(n, s) == SubSeq(s, 1, IF n < Len(s) THEN n ELSE Len(s))
LastRows(n, s)  == SubSeq(s, IF n < Len(s) THEN Len(s) - n + 1 ELSE 1, Len(s))

\* get_history_messages: ORDER BY created_at LIMIT.
HistoryOf(s) == FirstRows(HistoryLimit, s)

\* validate_conversation, parse_attachments, the check of the knowledge base and the
\* history: everything a request reads before it writes.
Validate(r) ==
    /\ req[r].pc = "posted"
    /\ req' = [q \in Requests |->
          IF q = r THEN [req[r] EXCEPT !.pc = "question", !.loaded = meta[Conv(r)],
                            !.local = meta[Conv(r)], !.history = HistoryOf(rows[Conv(r)]),
                            !.alone = Overlapping(r) = {}]
          ELSE IF q \in Overlapping(r) THEN [req[q] EXCEPT !.alone = FALSE]
          ELSE req[q]]
    /\ UNCHANGED <<meta, made, rows, page>>

\* What a request does next with the copy m of the meta column.
Following(r, m, flagged) ==
    IF flagged /\ req[r].flag # "none" THEN "toggle"
    ELSE IF m.mode # "on" /\ HasSearchKeyword(req[r].text) THEN "keyword"
    ELSE IF m.mode = "ask" THEN "reply"
    ELSE "retrieve"

\* save_user_message
SaveUserMessage(r) ==
    /\ req[r].pc = "question"
    /\ rows' = [rows EXCEPT ![Conv(r)] = Append(@, Row("user", r))]
    /\ Goto(r, Following(r, req[r].local, TRUE))
    /\ UNCHANGED <<meta, made, page>>

\* MUTANT: the default of the column is one dictionary for all rows.
StoreMetaShared(r, new) ==
    IF req[r].written \/ new = req[r].loaded THEN meta
    ELSE [c \in Convs |-> new]

\* conv.meta = conv_meta and commit.  After the first assignment the attribute is the
\* dictionary itself, and a flush finds nothing changed; nor does it when the first
\* value equals what was loaded.
StoreMeta(r, new) ==
    IF req[r].written \/ new = req[r].loaded THEN meta
    ELSE [meta EXCEPT ![Conv(r)] = new]

\* The request with its dictionary changed and assigned, and why.
Changed(r, new, place, why) ==
    [req[r] EXCEPT !.local = new, !.written = TRUE, !.pc = place,
                   !.why = IF new.mode = "on" THEN why ELSE @]

\* The switch the client sent goes before everything the row says.
ApplyToggle(r) ==
    /\ req[r].pc = "toggle"
    /\ LET new == Switched(req[r].local, req[r].flag)
       IN /\ meta' = StoreMeta(r, new)
          /\ req' = [req EXCEPT ![r] = Changed(r, new, Following(r, new, FALSE), "switch")]
    /\ UNCHANGED <<made, rows, page>>

ApplyKeyword(r) ==
    /\ req[r].pc = "keyword"
    /\ LET new == Switched(req[r].local, "on")
       IN /\ meta' = StoreMeta(r, new)
          /\ req' = [req EXCEPT ![r] = Changed(r, new, "retrieve", "words")]
    /\ UNCHANGED <<made, rows, page>>

\* In mode ask the message is taken for the reply; it is not answered otherwise.
TakeReply(r) ==
    /\ req[r].pc = "reply"
    /\ LET new == Replied(req[r].local, req[r].text)
       IN /\ meta' = StoreMeta(r, new)
          /\ req' = [req EXCEPT ![r] = [Changed(r, new, "answer", "reply") EXCEPT
                        !.told = new.mode]]
    /\ UNCHANGED <<made, rows, page>>

\* No knowledge base, or attachments and no chunks: nothing counts.
Uncounted(r) ==
    /\ req' = [req EXCEPT ![r].pc = "answer", ![r].told = req[r].local.mode]
    /\ UNCHANGED meta

\* Retrieval found nothing, failed, or the route has none.
Miss(r) ==
    LET new == Missed(req[r].local, r)
    IN IF new.mode = req[r].local.mode
       THEN Uncounted(r)
       ELSE /\ meta' = StoreMeta(r, new)
            /\ req' = [req EXCEPT ![r] = [Changed(r, new, "answer", "miss") EXCEPT
                          !.told = new.mode]]

FoundChunks(r) ==
    LET new == [req[r].local EXCEPT !.misses = 0]
    IN IF req[r].local.misses = 0
       THEN Uncounted(r)
       ELSE /\ meta' = StoreMeta(r, new)
            /\ req' = [req EXCEPT ![r] = [Changed(r, new, "answer", req[r].why) EXCEPT !.told = new.mode]]

Retrieve(r) ==
    /\ req[r].pc = "retrieve"
    /\ Miss(r) \/ FoundChunks(r) \/ Uncounted(r)
    /\ UNCHANGED <<made, rows, page>>

\* Of a request that has ended only what the client and the rows know is left.
Finish(r, place) ==
    req' = [req EXCEPT ![r] = [NoRequest EXCEPT
                !.pc = place, !.sender = req[r].sender, !.conv = Conv(r),
                !.alone = req[r].alone /\ req[r].sender = None, !.told = req[r].told,
                !.why = IF req[r].why = "none" THEN "none" ELSE "agreed"]]

\* save_assistant_message, after the text has been streamed; the final chunk follows.
SaveAssistantMessage(r) ==
    /\ req[r].pc = "answer"
    /\ rows' = [rows EXCEPT ![Conv(r)] = Append(@, Row("assistant", r))]
    /\ Finish(r, "done")
    /\ UNCHANGED <<meta, made, page>>

\* The client disconnects, or the process or the database fails, while the answer is
\* made; before the question is saved it is as if the request had been refused.
Drop(r) ==
    /\ req[r].pc \in {"retrieve", "answer"}
    /\ Finish(r, "dropped")
    /\ UNCHANGED <<meta, made, rows, page>>

\* A file that is not allowed, too large or not readable, or a hidden knowledge base.
Refuse(r) ==
    /\ req[r].pc \in {"create", "posted"}
    /\ Finish(r, "refused")
    /\ UNCHANGED <<meta, made, rows, page>>

Serve(r) ==
    \/ CreateConversation(r)
    \/ Validate(r)
    \/ SaveUserMessage(r)
    \/ ApplyToggle(r)
    \/ ApplyKeyword(r)
    \/ TakeReply(r)
    \/ Retrieve(r)
    \/ SaveAssistantMessage(r)

PageStep(p) == ListConversations(p) \/ ShowHistory(p) \/ Receive(p) \/ GiveUp(p)

ChatNext ==
    \/ \E r \in Requests : Serve(r) \/ Refuse(r) \/ Drop(r)
    \/ \E p \in Pages : PageStep(p)
    \/ \E r \in Requests, text \in Texts :
          ApiSend(r, text) \/ \E p \in Pages, toggle \in BOOLEAN : Submit(p, r, text, toggle)

ChatSpec == ChatInit /\ [][ChatNext]_chatVars

-----------------------------------------------------------------------------
(* Properties.                                                             *)

ReqPlaces == Inside \union Ended \union {"idle", "create", "posted"}

\* Every variable keeps its type.
ChatTypeOK ==
    /\ meta \in [Convs -> Meta]
    /\ made \in Seq(Convs)
    /\ rows \in [Convs -> Seq([role : {"user", "assistant"}, of : Requests])]
    /\ \A r \in Requests :
          /\ req[r].pc \in ReqPlaces
          /\ req[r].loaded \in Meta /\ req[r].local \in Meta
          /\ req[r].told \in Modes
    /\ \A p \in Pages : page[p].busy \in Requests \union {None}

PlaceOf(row, c) == IF \E i \in DOMAIN rows[c] : rows[c][i] = row
                   THEN CHOOSE i \in DOMAIN rows[c] : rows[c][i] = row ELSE Len(rows[c]) + 1

\* q was answered before r's question was saved.
AnsweredBefore(q, r) == PlaceOf(Row("assistant", q), Conv(r)) < PlaceOf(Row("user", r), Conv(r))

\* However requests overwrite each other's dictionary, the search is on in a
\* conversation only if a request of that conversation switched it on: by the
\* switch, the words, a reply that agrees and does not refuse, or the third miss.
ConsentBehindOn ==
    \A c \in Convs : meta[c].mode = "on" =>
        \E r \in Requests : Conv(r) = c /\ req[r].why # "none"

\* The switch decides over the row: a message whose switch is off is answered with
\* the search only if it asks for it in words or is the miss that reaches the limit,
\* and a reply that refuses never switches it on.
SwitchDecides ==
    \A r \in Requests : req[r].pc = "answer" =>
        /\ req[r].flag = "off" /\ req[r].told = "on" =>
              \/ HasSearchKeyword(req[r].text)
              \/ req[r].loaded.misses = MissLimit - 1
        /\ req[r].why = "reply" => "no" \notin req[r].text /\ req[r].loaded.query # None

\* No request of the conversation has read it after r.
Latest(r) == ~\E q \in Requests \ {r} :
    /\ Conv(q) = Conv(r)
    /\ \/ req[q].pc \in Inside \union {"dropped"}
       \/ req[q].pc = "done" /\ ~AnsweredBefore(q, r)

\* What a request without switch was told is what the row says when it overlapped
\* with no other: the question put to the user is remembered, and so is the reply.
ToldIsStored ==
    \A r \in Requests :
        req[r].pc = "done" /\ req[r].sender = None /\ req[r].alone /\ Latest(r) =>
            meta[Conv(r)].mode = req[r].told

\* A conversation holds for a request its question and then its answer, each at
\* most once, and no answer to a question it does not hold.
AnswerAfterQuestion ==
    \A c \in Convs : \A i \in DOMAIN rows[c] :
        LET r == rows[c][i].of
        IN /\ Conv(r) = c
           /\ \A j \in DOMAIN rows[c] : rows[c][j] = rows[c][i] => i = j
           /\ rows[c][i].role = "assistant" => \E j \in 1..i - 1 : rows[c][j] = Row("user", r)

\* The page shows a conversation as it is stored, every answer in the bubble below
\* its question, when the history came before the first message, nothing was
\* dropped or refused and no other client wrote.
PageShowsRows ==
    \A p \in Pages :
        LET c == page[p].conv
        IN /\ page[p].busy = None /\ page[p].history = "shown" /\ ~page[p].early
           /\ \A r \in Requests : Conv(r) = c => req[r].pc = "done" /\ req[r].sender = p
           => /\ Len(page[p].bubbles) = Len(rows[c])
              /\ \A i \in DOMAIN rows[c] :
                    /\ page[p].bubbles[i].role = rows[c][i].role
                    /\ page[p].bubbles[i].of = rows[c][i].of
                    /\ rows[c][i].role = "assistant" => page[p].bubbles[i].texts = {rows[c][i].of}

\* What requests, rows and page owe each other, in whatever order the requests run.
ChatInv == ChatTypeOK /\ SwitchDecides /\ ToldIsStored /\ AnswerAfterQuestion

\* "Get recent history messages for a conversation"
\* (core/chat/conversation_service.py:171): the model is given the latest messages.
HistoryIsRecent ==
    \A r \in Requests :
        req[r].pc = "question" => req[r].history = LastRows(HistoryLimit, rows[Conv(r)])

\* "reply 好的 ... web_search_mode=on" (docs/chat_pipeline_smoke_test.md:99): agreeing to
\* the question below the page's last answer switches the search on.
AgreementOpensSearch ==
    \A q, r \in Requests :
        /\ req[q].sender # None /\ req[r].sender = req[q].sender /\ Conv(q) = Conv(r)
        /\ req[q].told = "ask" /\ \A x \in Requests \ {q, r} : req[x].pc = "idle"
        /\ req[r].pc = "answer" /\ ClassifyYesNo(req[r].text)
        /\ rows[Conv(r)] = <<Row("user", q), Row("assistant", q), Row("user", r)>>
        => req[r].told = "on"
=============================================================================
