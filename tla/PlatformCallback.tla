-------------------------- MODULE PlatformCallback --------------------------
(***************************************************************************)
(* Messages from chat platforms (api/routers/platform.py,                  *)
(* core/services/platform_user.py).  A platform calls back for a message,  *)
(* at least once and possibly several times at once; every call finds or   *)
(* creates the user and the conversation, saves the message, asks the      *)
(* model, saves the answer, notes the message as processed and sends the   *)
(* answer back.                                                            *)
(*                                                                         *)
(* A call is a coroutine with a database session of its own: what it reads *)
(* may be old when it uses it, and only unique constraints stop it.  Rows  *)
(* a call inserts are named after the call.                                *)
(***************************************************************************)
EXTENDS Naturals, Sequences

CONSTANTS
    Calls,      \* callback requests
    Messages,   \* messages sent on the platform
    Unnamed,    \* the messages whose event brings no message id
    Chats,      \* platform conversations
    Senders,    \* platform users
    ChatOf,     \* chat of a message
    SenderOf,   \* sender of a message
    None

ASSUME PlatformAssumption ==
    /\ Unnamed \subseteq Messages
    /\ ChatOf \in [Messages -> Chats]
    /\ SenderOf \in [Messages -> Senders]
    /\ None \notin Calls

VARIABLES
    pc,        \* where a call is
    message,   \* the message a call is about
    conv,      \* the conversation a call works in
    users,     \* platform_users: the user of a sender
    mapping,   \* platform_conversations: the conversation of a chat
    log,       \* the messages of a conversation, in the order they were saved
    receipts,  \* platform_message_receipts: the call that noted a message
    sent       \* how often an answer to a message reached the platform

vars == <<pc, message, conv, users, mapping, log, receipts, sent>>

-----------------------------------------------------------------------------

Init ==
    /\ pc = [c \in Calls |-> "idle"]
    /\ message \in [Calls -> Messages]
    /\ conv = [c \in Calls |-> None]
    /\ users = [s \in Senders |-> None]
    /\ mapping = [h \in Chats |-> None]
    /\ log = [c \in Calls |-> <<>>]
    /\ receipts = [m \in Messages |-> None]
    /\ sent = [m \in Messages |-> 0]

Goto(c, place) == pc' = [pc EXCEPT ![c] = place]

SenderOfCall(c) == SenderOf[message[c]]
ChatOfCall(c) == ChatOf[message[c]]

Entry(c, role) == [role |-> role, message |-> message[c], call |-> c]

\* A call that passed the signature check and has content.
Receive(c) ==
    /\ pc[c] = "idle"
    /\ Goto(c, "findUser")
    /\ UNCHANGED <<message, conv, users, mapping, log, receipts, sent>>

FindUser(c) ==
    /\ pc[c] = "findUser"
    /\ Goto(c, IF users[SenderOfCall(c)] # None THEN "checkReceipt" ELSE "createUser")
    /\ UNCHANGED <<message, conv, users, mapping, log, receipts, sent>>

\* The insert fails when another call has created the sender's user by now.
CreateUser(c) ==
    /\ pc[c] = "createUser"
    /\ IF users[SenderOfCall(c)] = None
       THEN users' = [users EXCEPT ![SenderOfCall(c)] = c] /\ Goto(c, "checkReceipt")
       ELSE Goto(c, "failed") /\ UNCHANGED users
    /\ UNCHANGED <<message, conv, mapping, log, receipts, sent>>

\* _already_processed
Processed(m) == m \notin Unnamed /\ receipts[m] # None

CheckReceipt(c) ==
    /\ pc[c] = "checkReceipt"
    /\ Goto(c, IF Processed(message[c]) THEN "duplicated" ELSE "findConversation")
    /\ UNCHANGED <<message, conv, users, mapping, log, receipts, sent>>

FindConversation(c) ==
    /\ pc[c] = "findConversation"
    /\ IF mapping[ChatOfCall(c)] # None
       THEN conv' = [conv EXCEPT ![c] = mapping[ChatOfCall(c)]] /\ Goto(c, "saveQuestion")
       ELSE Goto(c, "createConversation") /\ UNCHANGED conv
    /\ UNCHANGED <<message, users, mapping, log, receipts, sent>>

\* MUTANT: no unique constraint on the platform's conversation.
CreateConversationAnyway(c) ==
    /\ pc[c] = "createConversation"
    /\ mapping' = [mapping EXCEPT ![ChatOfCall(c)] = c]
    /\ conv' = [conv EXCEPT ![c] = c]
    /\ Goto(c, "saveQuestion")
    /\ UNCHANGED <<message, users, log, receipts, sent>>

\* The conversation and its mapping are one transaction.
CreateConversation(c) ==
    /\ pc[c] = "createConversation"
    /\ IF mapping[ChatOfCall(c)] = None
       THEN /\ mapping' = [mapping EXCEPT ![ChatOfCall(c)] = c]
            /\ conv' = [conv EXCEPT ![c] = c]
            /\ Goto(c, "saveQuestion")
       ELSE Goto(c, "failed") /\ UNCHANGED <<mapping, conv>>
    /\ UNCHANGED <<message, users, log, receipts, sent>>

Save(c, role) == log' = [log EXCEPT ![conv[c]] = Append(@, Entry(c, role))]

\* MUTANT: the question is left to be saved with the answer.
SaveQuestionLate(c) ==
    /\ pc[c] = "saveQuestion"
    /\ Goto(c, "answer")
    /\ UNCHANGED <<message, conv, users, mapping, log, receipts, sent>>

\* The user's message is committed before the model is asked.
SaveQuestion(c) ==
    /\ pc[c] = "saveQuestion"
    /\ Save(c, "user")
    /\ Goto(c, "answer")
    /\ UNCHANGED <<message, conv, users, mapping, receipts, sent>>

\* _build_assistant_answer: history, retrieval and the model, which may raise.
Answer(c) ==
    /\ pc[c] = "answer"
    /\ \/ Goto(c, "saveAnswer")
       \/ Goto(c, "failed")
    /\ UNCHANGED <<message, conv, users, mapping, log, receipts, sent>>

\* MUTANT: the answer is left to be saved after it is sent.
SaveAnswerLate(c) ==
    /\ pc[c] = "saveAnswer"
    /\ Goto(c, "mark")
    /\ UNCHANGED <<message, conv, users, mapping, log, receipts, sent>>

\* The answer is committed before it is sent.
SaveAnswer(c) ==
    /\ pc[c] = "saveAnswer"
    /\ Save(c, "assistant")
    /\ Goto(c, "mark")
    /\ UNCHANGED <<message, conv, users, mapping, receipts, sent>>

\* MUTANT: the receipt is written over.
MarkAnyway(c) ==
    /\ pc[c] = "mark"
    /\ receipts' = [receipts EXCEPT ![message[c]] = c]
    /\ Goto(c, "send")
    /\ UNCHANGED <<message, conv, users, mapping, log, sent>>

\* _mark_processed: the insert fails when another call has noted the message; a
\* message without an id is not noted.
Mark(c) ==
    /\ pc[c] = "mark"
    /\ IF message[c] \in Unnamed
       THEN Goto(c, "send") /\ UNCHANGED receipts
       ELSE IF receipts[message[c]] = None
       THEN receipts' = [receipts EXCEPT ![message[c]] = c] /\ Goto(c, "send")
       ELSE Goto(c, "failed") /\ UNCHANGED receipts
    /\ UNCHANGED <<message, conv, users, mapping, log, sent>>

\* The platform may have taken an answer whose request then fails.
Send(c) ==
    /\ pc[c] = "send"
    /\ \/ Goto(c, "done") /\ sent' = [sent EXCEPT ![message[c]] = @ + 1]
       \/ Goto(c, "failed") /\ sent' = [sent EXCEPT ![message[c]] = @ + 1]
       \/ Goto(c, "failed") /\ UNCHANGED sent
    /\ UNCHANGED <<message, conv, users, mapping, log, receipts>>

Ended == {"done", "duplicated", "failed"}

\* The process dies, or the database fails, between any two steps.
Die(c) ==
    /\ pc[c] \notin Ended \union {"idle"}
    /\ Goto(c, "failed")
    /\ UNCHANGED <<message, conv, users, mapping, log, receipts, sent>>

Advance(c) ==
    \/ FindUser(c)
    \/ CreateUser(c)
    \/ CheckReceipt(c)
    \/ FindConversation(c)
    \/ CreateConversation(c)
    \/ SaveQuestion(c)
    \/ Answer(c)
    \/ SaveAnswer(c)
    \/ Mark(c)
    \/ Send(c)

Next == \E c \in Calls : Receive(c) \/ Advance(c) \/ Die(c)

Spec == Init /\ [][Next]_vars

-----------------------------------------------------------------------------
(* Properties.                                                             *)

Places == {"idle", "findUser", "createUser", "checkReceipt", "findConversation",
           "createConversation", "saveQuestion", "answer", "saveAnswer", "mark", "send"} \union Ended

Entries == [role : {"user", "assistant"}, message : Messages, call : Calls]

\* Every variable keeps its type.
TypeOK ==
    /\ pc \in [Calls -> Places]
    /\ message \in [Calls -> Messages]
    /\ conv \in [Calls -> Calls \union {None}]
    /\ users \in [Senders -> Calls \union {None}]
    /\ mapping \in [Chats -> Calls \union {None}]
    /\ log \in [Calls -> Seq(Entries)]
    /\ receipts \in [Messages -> Calls \union {None}]
    /\ sent \in [Messages -> Nat]

\* However often and however concurrently a platform calls back for a message with
\* an id, at most one answer to it reaches the platform.
SentOnce == \A m \in Messages \ Unnamed : sent[m] <= 1

Writing == {"saveQuestion", "answer", "saveAnswer", "mark", "send", "done"}

\* All messages of a chat are in one conversation, and a conversation never holds
\* those of two chats, also when two first messages race to create it.
OneConversationPerChat ==
    /\ \A c \in Calls : pc[c] \in Writing => conv[c] = mapping[ChatOfCall(c)]
    /\ \A c \in Calls : \A i \in DOMAIN log[c] : mapping[ChatOf[log[c][i].message]] = c

Asked(c, saved)    == \E i \in DOMAIN saved : saved[i] = Entry(c, "user")
Answered(c, saved) == \E i, j \in DOMAIN saved :
    i < j /\ saved[i] = Entry(c, "user") /\ saved[j] = Entry(c, "assistant")

\* An answer that reached a platform, and one a duplicate call relies on, is kept in
\* the conversation of its chat after the question it answers.
AnswerIsKept ==
    \A m \in Messages \ Unnamed :
        sent[m] > 0 \/ (\E c \in Calls : pc[c] = "duplicated" /\ message[c] = m) =>
            /\ receipts[m] # None /\ message[receipts[m]] = m
            /\ Answered(receipts[m], log[mapping[ChatOf[m]]])

-----------------------------------------------------------------------------
(* What makes the properties inductive.                                    *)

\* A call writes into the conversation its chat is mapped to.
ConversationsFit ==
    /\ \A c \in Calls :
          /\ pc[c] \in Writing => conv[c] # None
          /\ conv[c] # None => conv[c] = mapping[ChatOfCall(c)]
    /\ \A c \in Calls : \A i \in DOMAIN log[c] : mapping[ChatOf[log[c][i].message]] = c

\* What a call has saved by the time it gets to a place.
SavedSoFar ==
    \A c \in Calls :
        /\ pc[c] \in {"answer", "saveAnswer"} => Asked(c, log[conv[c]])
        /\ pc[c] \in {"mark", "send", "done"} => Answered(c, log[conv[c]])

\* A receipt belongs to a call that has saved question and answer, and whoever gets
\* to send a named answer holds its receipt.
ReceiptsFit ==
    /\ \A m \in Messages : receipts[m] # None =>
          /\ message[receipts[m]] = m
          /\ pc[receipts[m]] \in {"send", "done", "failed"}
          /\ conv[receipts[m]] # None
          /\ Answered(receipts[m], log[conv[receipts[m]]])
    /\ \A c \in Calls : pc[c] = "send" /\ message[c] \notin Unnamed => receipts[message[c]] = c
    /\ \A c \in Calls : pc[c] = "duplicated" => Processed(message[c])

\* An answer is sent by the call that holds the receipt, which then ends.
SentFits ==
    \A m \in Messages \ Unnamed :
        /\ sent[m] <= 1
        /\ sent[m] > 0 => receipts[m] # None /\ pc[receipts[m]] # "send"

\* The inductive invariant: conversations, saved messages, receipts and answers that
\* were sent agree, whatever overlaps, fails or dies.
PlatformInv == TypeOK /\ ConversationsFit /\ SavedSoFar /\ ReceiptsFit /\ SentFits

-----------------------------------------------------------------------------
(* The view of the platform.                                               *)

Named == Messages \ Unnamed

\* The answer of the call that noted the message is in the history.
Settled(m) ==
    receipts[m] # None /\ Answered(receipts[m], log[mapping[ChatOf[m]]])

Platform == INSTANCE AnsweredOnce WITH
    Messages <- Named,
    kept     <- {m \in Named : Settled(m)},
    sent     <- [m \in Named |-> sent[m]],
    repeated <- {m \in Named : \E c \in Calls : pc[c] = "duplicated" /\ message[c] = m}

\* However calls overlap, fail and die, each message with an id is answered as
\* AnsweredOnce says (platform_callback as a whole).
AnswerSpec == Platform!Spec
=============================================================================
