----------------------- MODULE PlatformCallbackProofs -----------------------
(***************************************************************************)
(* What TLAPS proves of PlatformCallback for any calls, messages, chats    *)
(* and senders.                                                            *)
(*                                                                         *)
(* PlatformInv is inductive.  Nothing a call has written is ever undone    *)
(* (Monotone), so what it saved on the way to a place is still there       *)
(* (Kept); each lemma after that preserves one part of the invariant.      *)
(* The refinement of AnsweredOnce follows from it.                         *)
(***************************************************************************)
EXTENDS PlatformCallback, TLAPS

\* Appending to a sequence leaves its elements where they are.
LEMMA Appending ==
    ASSUME NEW S, NEW s \in Seq(S), NEW e \in S
    PROVE  /\ Append(s, e) \in Seq(S)
           /\ DOMAIN Append(s, e) = DOMAIN s \union {Len(s) + 1}
           /\ \A i \in DOMAIN s : Append(s, e)[i] = s[i] /\ i < Len(s) + 1
           /\ Append(s, e)[Len(s) + 1] = e
  OBVIOUS

\* The elements of a conversation are messages.
LEMMA ElementTyped ==
    ASSUME TypeOK, NEW k \in Calls, NEW i \in DOMAIN log[k]
    PROVE  log[k][i].message \in Messages
<1>1. log[k] \in Seq(Entries)
  BY DEF TypeOK
<1>2. log[k][i] \in Entries
  BY <1>1
<1>3. QED
  BY <1>2 DEF Entries

\* An entry that a call saves is an entry.
LEMMA EntryTyped ==
    ASSUME TypeOK, NEW c \in Calls, NEW role \in {"user", "assistant"}
    PROVE  Entry(c, role) \in Entries
  BY DEF TypeOK, Entry, Entries

\* Every step keeps the types; a call that saves a message has a conversation.
LEMMA TypedStep ==
    ASSUME TypeOK, ConversationsFit, [Next]_vars
    PROVE  TypeOK'
<1> USE PlatformAssumption
<1>0. ASSUME NEW c \in Calls, NEW place \in Places, Goto(c, place)
      PROVE  pc' \in [Calls -> Places]
  BY <1>0 DEF Goto, TypeOK
<1>p. {"checkReceipt", "saveQuestion", "createConversation", "send", "done", "failed"} \subseteq Places
  BY DEF Places, Ended
<1>1. ASSUME NEW c \in Calls, Receive(c)
      PROVE  TypeOK'
  BY <1>1 DEF Receive, Goto, TypeOK, Places, Ended
<1>2. ASSUME NEW c \in Calls, FindUser(c)
      PROVE  TypeOK'
  BY <1>2 DEF FindUser, Goto, TypeOK, Places, Ended
<1>3. ASSUME NEW c \in Calls, CreateUser(c)
      PROVE  TypeOK'
  <2>1. pc' \in [Calls -> Places]
    <3>1. Goto(c, "checkReceipt") \/ Goto(c, "failed")
      BY <1>3 DEF CreateUser
    <3> QED
      BY <1>0, <1>p, <3>1
  <2>2. users' \in [Senders -> Calls \union {None}]
    BY <1>3 DEF CreateUser, SenderOfCall, TypeOK
  <2>3. QED
    BY <1>3, <2>1, <2>2 DEF CreateUser, TypeOK
<1>4. ASSUME NEW c \in Calls, CheckReceipt(c)
      PROVE  TypeOK'
  BY <1>4 DEF CheckReceipt, Goto, TypeOK, Places, Ended, Processed
<1>5. ASSUME NEW c \in Calls, FindConversation(c)
      PROVE  TypeOK'
  <2>1. pc' \in [Calls -> Places]
    <3>1. Goto(c, "saveQuestion") \/ Goto(c, "createConversation")
      BY <1>5 DEF FindConversation
    <3> QED
      BY <1>0, <1>p, <3>1
  <2>2. conv' \in [Calls -> Calls \union {None}]
    BY <1>5 DEF FindConversation, ChatOfCall, TypeOK
  <2>3. QED
    BY <1>5, <2>1, <2>2 DEF FindConversation, TypeOK
<1>6. ASSUME NEW c \in Calls, CreateConversation(c)
      PROVE  TypeOK'
  <2>1. pc' \in [Calls -> Places]
    <3>1. Goto(c, "saveQuestion") \/ Goto(c, "failed")
      BY <1>6 DEF CreateConversation
    <3> QED
      BY <1>0, <1>p, <3>1
  <2>2. conv' \in [Calls -> Calls \union {None}] /\ mapping' \in [Chats -> Calls \union {None}]
    BY <1>6 DEF CreateConversation, ChatOfCall, TypeOK
  <2>3. QED
    BY <1>6, <2>1, <2>2 DEF CreateConversation, TypeOK
<1>7. ASSUME NEW c \in Calls, SaveQuestion(c)
      PROVE  TypeOK'
  <2>1. conv[c] \in Calls /\ log[conv[c]] \in Seq(Entries)
    BY <1>7 DEF SaveQuestion, TypeOK, ConversationsFit, Writing
  <2>2. Append(log[conv[c]], Entry(c, "user")) \in Seq(Entries)
    BY <2>1, EntryTyped, Appending
  <2>3. QED
    BY <1>7, <2>1, <2>2 DEF SaveQuestion, Save, Goto, TypeOK, Places, Ended
<1>8. ASSUME NEW c \in Calls, Answer(c)
      PROVE  TypeOK'
  BY <1>8 DEF Answer, Goto, TypeOK, Places, Ended
<1>9. ASSUME NEW c \in Calls, SaveAnswer(c)
      PROVE  TypeOK'
  <2>1. conv[c] \in Calls /\ log[conv[c]] \in Seq(Entries)
    BY <1>9 DEF SaveAnswer, TypeOK, ConversationsFit, Writing
  <2>2. Append(log[conv[c]], Entry(c, "assistant")) \in Seq(Entries)
    BY <2>1, EntryTyped, Appending
  <2>3. QED
    BY <1>9, <2>1, <2>2 DEF SaveAnswer, Save, Goto, TypeOK, Places, Ended
<1>10. ASSUME NEW c \in Calls, Mark(c)
      PROVE  TypeOK'
  <2>1. pc' \in [Calls -> Places]
    <3>1. Goto(c, "send") \/ Goto(c, "failed")
      BY <1>10 DEF Mark
    <3> QED
      BY <1>0, <1>p, <3>1
  <2>2. receipts' \in [Messages -> Calls \union {None}]
    BY <1>10 DEF Mark, TypeOK
  <2>3. QED
    BY <1>10, <2>1, <2>2 DEF Mark, TypeOK
<1>11. ASSUME NEW c \in Calls, Send(c)
      PROVE  TypeOK'
  <2>1. pc' \in [Calls -> Places]
    <3>1. Goto(c, "done") \/ Goto(c, "failed")
      BY <1>11 DEF Send
    <3> QED
      BY <1>0, <1>p, <3>1
  <2>2. sent' \in [Messages -> Nat]
    BY <1>11 DEF Send, TypeOK
  <2>3. QED
    BY <1>11, <2>1, <2>2 DEF Send, TypeOK
<1>12. ASSUME NEW c \in Calls, Die(c)
      PROVE  TypeOK'
  BY <1>12 DEF Die, Goto, TypeOK, Places, Ended
<1>13. CASE UNCHANGED vars
  BY <1>13 DEF vars, TypeOK, Places, Ended
<1>14. QED
  BY <1>1, <1>2, <1>3, <1>4, <1>5, <1>6, <1>7, <1>8, <1>9, <1>10, <1>11, <1>12, <1>13 DEF Next, Advance

\* Nothing that is written is changed or taken back.
Grown ==
    /\ message' = message
    /\ \A h \in Chats : mapping[h] # None => mapping'[h] = mapping[h]
    /\ \A c \in Calls : conv[c] # None => conv'[c] = conv[c]
    /\ \A m \in Messages : receipts[m] # None => receipts'[m] = receipts[m]
    /\ \A k \in Calls :
          /\ DOMAIN log[k] \subseteq DOMAIN log'[k]
          /\ \A i \in DOMAIN log[k] : log'[k][i] = log[k][i]

\* No step of any call undoes what is written.
LEMMA Monotone ==
    ASSUME TypeOK, ConversationsFit, [Next]_vars
    PROVE  Grown
<1> USE PlatformAssumption
<1>1. ASSUME NEW c \in Calls, Receive(c)
      PROVE  Grown
  BY <1>1 DEF Receive, Goto, Grown, TypeOK, ConversationsFit, ChatOfCall
<1>2. ASSUME NEW c \in Calls, FindUser(c)
      PROVE  Grown
  BY <1>2 DEF FindUser, Goto, Grown, TypeOK, ConversationsFit, ChatOfCall
<1>3. ASSUME NEW c \in Calls, CreateUser(c)
      PROVE  Grown
  BY <1>3 DEF CreateUser, Goto, Grown, TypeOK, ConversationsFit, ChatOfCall
<1>4. ASSUME NEW c \in Calls, CheckReceipt(c)
      PROVE  Grown
  BY <1>4 DEF CheckReceipt, Goto, Grown, TypeOK, ConversationsFit, ChatOfCall, Processed
<1>5. ASSUME NEW c \in Calls, FindConversation(c)
      PROVE  Grown
  BY <1>5 DEF FindConversation, Goto, Grown, TypeOK, ConversationsFit, ChatOfCall
<1>6. ASSUME NEW c \in Calls, CreateConversation(c)
      PROVE  Grown
  BY <1>6 DEF CreateConversation, Goto, Grown, TypeOK, ConversationsFit, ChatOfCall
<1>7. ASSUME NEW c \in Calls, SaveQuestion(c)
      PROVE  Grown
  <2>1. conv[c] \in Calls /\ log[conv[c]] \in Seq(Entries)
    BY <1>7 DEF SaveQuestion, TypeOK, ConversationsFit, Writing
  <2>2. log' = [log EXCEPT ![conv[c]] = Append(log[conv[c]], Entry(c, "user"))]
    BY <1>7 DEF SaveQuestion, Save
  <2>3. ASSUME NEW k \in Calls
        PROVE  /\ DOMAIN log[k] \subseteq DOMAIN log'[k]
               /\ \A i \in DOMAIN log[k] : log'[k][i] = log[k][i]
    <3>1. CASE k = conv[c]
      BY <2>1, <2>2, <3>1, EntryTyped, Appending DEF TypeOK
    <3>2. CASE k # conv[c]
      BY <2>1, <2>2, <3>2 DEF TypeOK
    <3>3. QED
      BY <3>1, <3>2
  <2>4. QED
    BY <1>7, <2>3 DEF SaveQuestion, Grown
<1>8. ASSUME NEW c \in Calls, Answer(c)
      PROVE  Grown
  BY <1>8 DEF Answer, Goto, Grown, TypeOK, ConversationsFit, ChatOfCall
<1>9. ASSUME NEW c \in Calls, SaveAnswer(c)
      PROVE  Grown
  <2>1. conv[c] \in Calls /\ log[conv[c]] \in Seq(Entries)
    BY <1>9 DEF SaveAnswer, TypeOK, ConversationsFit, Writing
  <2>2. log' = [log EXCEPT ![conv[c]] = Append(log[conv[c]], Entry(c, "assistant"))]
    BY <1>9 DEF SaveAnswer, Save
  <2>3. ASSUME NEW k \in Calls
        PROVE  /\ DOMAIN log[k] \subseteq DOMAIN log'[k]
               /\ \A i \in DOMAIN log[k] : log'[k][i] = log[k][i]
    <3>1. CASE k = conv[c]
      BY <2>1, <2>2, <3>1, EntryTyped, Appending DEF TypeOK
    <3>2. CASE k # conv[c]
      BY <2>1, <2>2, <3>2 DEF TypeOK
    <3>3. QED
      BY <3>1, <3>2
  <2>4. QED
    BY <1>9, <2>3 DEF SaveAnswer, Grown
<1>10. ASSUME NEW c \in Calls, Mark(c)
      PROVE  Grown
  BY <1>10 DEF Mark, Goto, Grown, TypeOK, ConversationsFit, ChatOfCall
<1>11. ASSUME NEW c \in Calls, Send(c)
      PROVE  Grown
  BY <1>11 DEF Send, Goto, Grown, TypeOK, ConversationsFit, ChatOfCall
<1>12. ASSUME NEW c \in Calls, Die(c)
      PROVE  Grown
  BY <1>12 DEF Die, Goto, Grown, TypeOK, ConversationsFit, ChatOfCall
<1>13. CASE UNCHANGED vars
  BY <1>13 DEF vars, Grown, TypeOK, ConversationsFit, ChatOfCall
<1>14. QED
  BY <1>1, <1>2, <1>3, <1>4, <1>5, <1>6, <1>7, <1>8, <1>9, <1>10, <1>11, <1>12, <1>13 DEF Next, Advance

\* What a call has saved in a conversation stays in it.
LEMMA Kept ==
    ASSUME TypeOK, TypeOK', Grown, NEW c \in Calls, NEW k \in Calls
    PROVE  /\ Asked(c, log[k]) => Asked(c, log[k])'
           /\ Answered(c, log[k]) => Answered(c, log[k])'
<1>1. Entry(c, "user")' = Entry(c, "user") /\ Entry(c, "assistant")' = Entry(c, "assistant")
  BY DEF Grown, Entry
<1>2. DOMAIN log[k] \subseteq DOMAIN log'[k] /\ \A i \in DOMAIN log[k] : log'[k][i] = log[k][i]
  BY DEF Grown
<1>3. QED
  BY <1>1, <1>2 DEF Asked, Answered

\* Calls keep writing into the conversation of their chat.
LEMMA ConversationsStep ==
    ASSUME TypeOK, ConversationsFit, [Next]_vars
    PROVE  ConversationsFit'
<1> USE PlatformAssumption
<1>1. ASSUME NEW c \in Calls, Receive(c)
      PROVE  ConversationsFit'
  BY <1>1 DEF Receive, Goto, TypeOK, ConversationsFit, Writing, ChatOfCall
<1>2. ASSUME NEW c \in Calls, FindUser(c)
      PROVE  ConversationsFit'
  BY <1>2 DEF FindUser, Goto, TypeOK, ConversationsFit, Writing, ChatOfCall
<1>3. ASSUME NEW c \in Calls, CreateUser(c)
      PROVE  ConversationsFit'
  BY <1>3 DEF CreateUser, Goto, TypeOK, ConversationsFit, Writing, ChatOfCall
<1>4. ASSUME NEW c \in Calls, CheckReceipt(c)
      PROVE  ConversationsFit'
  BY <1>4 DEF CheckReceipt, Goto, TypeOK, ConversationsFit, Writing, ChatOfCall, Processed
<1>5. ASSUME NEW c \in Calls, FindConversation(c)
      PROVE  ConversationsFit'
  <2>1. ChatOfCall(c) \in Chats
    BY DEF TypeOK, ChatOfCall
  <2>2. UNCHANGED <<message, mapping, log>>
    BY <1>5 DEF FindConversation
  <2>3. \A d \in Calls \ {c} : pc'[d] = pc[d] /\ conv'[d] = conv[d]
    BY <1>5 DEF FindConversation, Goto, TypeOK
  <2>4. \/ conv'[c] = mapping[ChatOfCall(c)] /\ conv'[c] # None
        \/ pc'[c] = "createConversation" /\ conv' = conv
    BY <1>5, <2>1 DEF FindConversation, Goto, TypeOK
  <2>5. QED
    BY <2>2, <2>3, <2>4 DEF ConversationsFit, Writing, ChatOfCall
<1>6. ASSUME NEW c \in Calls, CreateConversation(c)
      PROVE  ConversationsFit'
  <2>1. \A k \in Calls : \A i \in DOMAIN log[k] : ChatOf[log[k][i].message] \in Chats
    BY ElementTyped
  <2>2. \A d \in Calls : ChatOfCall(d) \in Chats
    BY DEF TypeOK, ChatOfCall
  <2>3. UNCHANGED <<message, log>>
    BY <1>6 DEF CreateConversation
  <2>4. \A d \in Calls \ {c} : pc'[d] = pc[d] /\ conv'[d] = conv[d]
    BY <1>6 DEF CreateConversation, Goto, TypeOK
  <2>5. \A h \in Chats : mapping[h] # None => mapping'[h] = mapping[h]
    BY <1>6 DEF CreateConversation, TypeOK
  <2>6. \/ conv'[c] = mapping'[ChatOfCall(c)] /\ conv'[c] # None
        \/ pc'[c] = "failed" /\ conv' = conv
    BY <1>6, <2>2 DEF CreateConversation, Goto, TypeOK
  <2>7. \A k \in Calls : \A i \in DOMAIN log'[k] : mapping'[ChatOf[log'[k][i].message]] = k
    BY <2>1, <2>3, <2>5 DEF ConversationsFit
  <2>8. \A d \in Calls : conv[d] # None => conv[d] = mapping'[ChatOfCall(d)]
    BY <2>2, <2>5 DEF ConversationsFit
  <2>9. QED
    BY <2>3, <2>4, <2>6, <2>7, <2>8 DEF ConversationsFit, Writing, ChatOfCall
<1>7. ASSUME NEW c \in Calls, SaveQuestion(c)
      PROVE  ConversationsFit'
  <2>1. conv[c] \in Calls /\ log[conv[c]] \in Seq(Entries) /\ conv[c] = mapping[ChatOfCall(c)]
    BY <1>7 DEF SaveQuestion, TypeOK, ConversationsFit, Writing
  <2>2. log' = [log EXCEPT ![conv[c]] = Append(log[conv[c]], Entry(c, "user"))]
    BY <1>7 DEF SaveQuestion, Save
  <2>3. UNCHANGED <<message, conv, mapping>> /\ pc' = [pc EXCEPT ![c] = "answer"]
    BY <1>7 DEF SaveQuestion, Goto
  <2>4. ASSUME NEW k \in Calls, NEW i \in DOMAIN log'[k]
        PROVE  mapping[ChatOf[log'[k][i].message]] = k
    <3>1. CASE k = conv[c]
      <4>1x. log[k] \in Seq(Entries) /\ log'[k] = Append(log[k], Entry(c, "user"))
        BY <2>1, <2>2, <3>1 DEF TypeOK
      <4>2x. /\ DOMAIN log'[k] = DOMAIN log[k] \union {Len(log[k]) + 1}
            /\ \A j \in DOMAIN log[k] : log'[k][j] = log[k][j]
            /\ log'[k][Len(log[k]) + 1] = Entry(c, "user")
        BY <4>1x, EntryTyped, Appending
      <4>1. CASE i \in DOMAIN log[k]
        BY <4>2x, <4>1 DEF ConversationsFit
      <4>2. CASE i = Len(log[k]) + 1
        <5>1. log'[k][i] = Entry(c, "user")
          BY <3>1, <4>1x, <4>2x, <4>2
        <5>2. QED
          BY <2>1, <3>1, <5>1 DEF Entry, ChatOfCall
      <4>3. QED
        BY <4>1x, <4>2x, <4>1, <4>2
    <3>2. CASE k # conv[c]
      BY <2>1, <2>2, <3>2 DEF TypeOK, ConversationsFit
    <3>3. QED
      BY <3>1, <3>2
  <2>5. \A d \in Calls : pc'[d] \in Writing => pc[d] \in Writing
    BY <1>7, <2>3 DEF SaveQuestion, TypeOK, Writing
  <2>6. QED
    BY <2>3, <2>4, <2>5 DEF ConversationsFit, ChatOfCall
<1>8. ASSUME NEW c \in Calls, Answer(c)
      PROVE  ConversationsFit'
  BY <1>8 DEF Answer, Goto, TypeOK, ConversationsFit, Writing, ChatOfCall
<1>9. ASSUME NEW c \in Calls, SaveAnswer(c)
      PROVE  ConversationsFit'
  <2>1. conv[c] \in Calls /\ log[conv[c]] \in Seq(Entries) /\ conv[c] = mapping[ChatOfCall(c)]
    BY <1>9 DEF SaveAnswer, TypeOK, ConversationsFit, Writing
  <2>2. log' = [log EXCEPT ![conv[c]] = Append(log[conv[c]], Entry(c, "assistant"))]
    BY <1>9 DEF SaveAnswer, Save
  <2>3. UNCHANGED <<message, conv, mapping>> /\ pc' = [pc EXCEPT ![c] = "mark"]
    BY <1>9 DEF SaveAnswer, Goto
  <2>4. ASSUME NEW k \in Calls, NEW i \in DOMAIN log'[k]
        PROVE  mapping[ChatOf[log'[k][i].message]] = k
    <3>1. CASE k = conv[c]
      <4>1x. log[k] \in Seq(Entries) /\ log'[k] = Append(log[k], Entry(c, "assistant"))
        BY <2>1, <2>2, <3>1 DEF TypeOK
      <4>2x. /\ DOMAIN log'[k] = DOMAIN log[k] \union {Len(log[k]) + 1}
            /\ \A j \in DOMAIN log[k] : log'[k][j] = log[k][j]
            /\ log'[k][Len(log[k]) + 1] = Entry(c, "assistant")
        BY <4>1x, EntryTyped, Appending
      <4>1. CASE i \in DOMAIN log[k]
        BY <4>2x, <4>1 DEF ConversationsFit
      <4>2. CASE i = Len(log[k]) + 1
        <5>1. log'[k][i] = Entry(c, "assistant")
          BY <3>1, <4>1x, <4>2x, <4>2
        <5>2. QED
          BY <2>1, <3>1, <5>1 DEF Entry, ChatOfCall
      <4>3. QED
        BY <4>1x, <4>2x, <4>1, <4>2
    <3>2. CASE k # conv[c]
      BY <2>1, <2>2, <3>2 DEF TypeOK, ConversationsFit
    <3>3. QED
      BY <3>1, <3>2
  <2>5. \A d \in Calls : pc'[d] \in Writing => pc[d] \in Writing
    BY <1>9, <2>3 DEF SaveAnswer, TypeOK, Writing
  <2>6. QED
    BY <2>3, <2>4, <2>5 DEF ConversationsFit, ChatOfCall
<1>10. ASSUME NEW c \in Calls, Mark(c)
      PROVE  ConversationsFit'
  BY <1>10 DEF Mark, Goto, TypeOK, ConversationsFit, Writing, ChatOfCall
<1>11. ASSUME NEW c \in Calls, Send(c)
      PROVE  ConversationsFit'
  BY <1>11 DEF Send, Goto, TypeOK, ConversationsFit, Writing, ChatOfCall
<1>12. ASSUME NEW c \in Calls, Die(c)
      PROVE  ConversationsFit'
  BY <1>12 DEF Die, Goto, TypeOK, ConversationsFit, Writing, ChatOfCall
<1>13. CASE UNCHANGED vars
  BY <1>13 DEF vars, TypeOK, ConversationsFit, Writing, ChatOfCall
<1>14. QED
  BY <1>1, <1>2, <1>3, <1>4, <1>5, <1>6, <1>7, <1>8, <1>9, <1>10, <1>11, <1>12, <1>13 DEF Next, Advance

\* What holds at a place holds there after a step that brings no call to it.
LEMMA StaySaved ==
    ASSUME TypeOK, TypeOK', Grown, ConversationsFit, SavedSoFar, NEW d \in Calls,
           pc'[d] \in {"answer", "saveAnswer"} => pc[d] \in {"answer", "saveAnswer"},
           pc'[d] \in {"mark", "send", "done"} => pc[d] \in {"mark", "send", "done"}
    PROVE  /\ pc'[d] \in {"answer", "saveAnswer"} => Asked(d, log[conv[d]])'
           /\ pc'[d] \in {"mark", "send", "done"} => Answered(d, log[conv[d]])'
<1>1. ASSUME pc'[d] \in {"answer", "saveAnswer", "mark", "send", "done"}
      PROVE  conv[d] \in Calls /\ conv'[d] = conv[d]
  BY <1>1 DEF TypeOK, ConversationsFit, Writing, Grown
<1>2. ASSUME pc'[d] \in {"answer", "saveAnswer"}
      PROVE  Asked(d, log[conv[d]])'
  <2>1. Asked(d, log[conv[d]])
    BY <1>2 DEF SavedSoFar
  <2>2. ASSUME NEW k \in Calls, k = conv[d]
        PROVE  Asked(d, log[k])'
    BY <2>1, <2>2, Kept
  <2>3. QED
    BY <1>1, <1>2, <2>2 DEF Asked
<1>3. ASSUME pc'[d] \in {"mark", "send", "done"}
      PROVE  Answered(d, log[conv[d]])'
  <2>1. Answered(d, log[conv[d]])
    BY <1>3 DEF SavedSoFar
  <2>2. ASSUME NEW k \in Calls, k = conv[d]
        PROVE  Answered(d, log[k])'
    BY <2>1, <2>2, Kept
  <2>3. QED
    BY <1>1, <1>3, <2>2 DEF Answered
<1>4. QED
  BY <1>2, <1>3

\* A call that is past saving has saved.
LEMMA SavedStep ==
    ASSUME TypeOK, TypeOK', Grown, ConversationsFit, SavedSoFar, [Next]_vars
    PROVE  SavedSoFar'
<1> USE PlatformAssumption
<1>1. ASSUME NEW c \in Calls, Receive(c)
      PROVE  SavedSoFar'
  <2>1. \A d \in Calls :
          /\ pc'[d] \in {"answer", "saveAnswer"} => pc[d] \in {"answer", "saveAnswer"}
          /\ pc'[d] \in {"mark", "send", "done"} => pc[d] \in {"mark", "send", "done"}
    BY <1>1 DEF Receive, Goto, TypeOK
  <2>2. QED
    BY <2>1, StaySaved DEF SavedSoFar
<1>2. ASSUME NEW c \in Calls, FindUser(c)
      PROVE  SavedSoFar'
  <2>1. \A d \in Calls :
          /\ pc'[d] \in {"answer", "saveAnswer"} => pc[d] \in {"answer", "saveAnswer"}
          /\ pc'[d] \in {"mark", "send", "done"} => pc[d] \in {"mark", "send", "done"}
    BY <1>2 DEF FindUser, Goto, TypeOK
  <2>2. QED
    BY <2>1, StaySaved DEF SavedSoFar
<1>3. ASSUME NEW c \in Calls, CreateUser(c)
      PROVE  SavedSoFar'
  <2>1. \A d \in Calls :
          /\ pc'[d] \in {"answer", "saveAnswer"} => pc[d] \in {"answer", "saveAnswer"}
          /\ pc'[d] \in {"mark", "send", "done"} => pc[d] \in {"mark", "send", "done"}
    BY <1>3 DEF CreateUser, Goto, TypeOK
  <2>2. QED
    BY <2>1, StaySaved DEF SavedSoFar
<1>4. ASSUME NEW c \in Calls, CheckReceipt(c)
      PROVE  SavedSoFar'
  <2>1. \A d \in Calls :
          /\ pc'[d] \in {"answer", "saveAnswer"} => pc[d] \in {"answer", "saveAnswer"}
          /\ pc'[d] \in {"mark", "send", "done"} => pc[d] \in {"mark", "send", "done"}
    BY <1>4 DEF CheckReceipt, Goto, TypeOK
  <2>2. QED
    BY <2>1, StaySaved DEF SavedSoFar
<1>5. ASSUME NEW c \in Calls, FindConversation(c)
      PROVE  SavedSoFar'
  <2>1. \A d \in Calls :
          /\ pc'[d] \in {"answer", "saveAnswer"} => pc[d] \in {"answer", "saveAnswer"}
          /\ pc'[d] \in {"mark", "send", "done"} => pc[d] \in {"mark", "send", "done"}
    BY <1>5 DEF FindConversation, Goto, TypeOK
  <2>2. QED
    BY <2>1, StaySaved DEF SavedSoFar
<1>6. ASSUME NEW c \in Calls, CreateConversation(c)
      PROVE  SavedSoFar'
  <2>1. \A d \in Calls :
          /\ pc'[d] \in {"answer", "saveAnswer"} => pc[d] \in {"answer", "saveAnswer"}
          /\ pc'[d] \in {"mark", "send", "done"} => pc[d] \in {"mark", "send", "done"}
    BY <1>6 DEF CreateConversation, Goto, TypeOK
  <2>2. QED
    BY <2>1, StaySaved DEF SavedSoFar
<1>7. ASSUME NEW c \in Calls, SaveQuestion(c)
      PROVE  SavedSoFar'
  <2>1. /\ conv[c] \in Calls /\ log[conv[c]] \in Seq(Entries)
        /\ log'[conv[c]] = Append(log[conv[c]], Entry(c, "user"))
        /\ conv' = conv /\ message' = message /\ pc' = [pc EXCEPT ![c] = "answer"]
    BY <1>7 DEF SaveQuestion, Save, Goto, TypeOK, ConversationsFit, Writing
  <2>2. Entry(c, "user")' = Entry(c, "user") /\ Entry(c, "assistant")' = Entry(c, "assistant")
    BY <2>1 DEF Entry
  <2>3. Asked(c, log[conv[c]])'
    <3>1. Len(log[conv[c]]) + 1 \in DOMAIN log'[conv[c]]
          /\ log'[conv[c]][Len(log[conv[c]]) + 1] = Entry(c, "user")
      BY <2>1, EntryTyped, Appending
    <3>2. QED
      BY <2>1, <2>2, <3>1 DEF Asked
  <2>4. ASSUME NEW d \in Calls, d # c
        PROVE  /\ pc'[d] \in {"answer", "saveAnswer"} => Asked(d, log[conv[d]])'
               /\ pc'[d] \in {"mark", "send", "done"} => Answered(d, log[conv[d]])'
    BY <2>1, <2>4, StaySaved DEF TypeOK
  <2>5. pc'[c] = "answer"
    BY <2>1 DEF TypeOK
  <2>6. QED
    BY <2>3, <2>4, <2>5 DEF SavedSoFar
<1>8. ASSUME NEW c \in Calls, Answer(c)
      PROVE  SavedSoFar'
  <2>1. \A d \in Calls :
          /\ pc'[d] \in {"answer", "saveAnswer"} => pc[d] \in {"answer", "saveAnswer"}
          /\ pc'[d] \in {"mark", "send", "done"} => pc[d] \in {"mark", "send", "done"}
    BY <1>8 DEF Answer, Goto, TypeOK
  <2>2. QED
    BY <2>1, StaySaved DEF SavedSoFar
<1>9. ASSUME NEW c \in Calls, SaveAnswer(c)
      PROVE  SavedSoFar'
  <2>1. /\ conv[c] \in Calls /\ log[conv[c]] \in Seq(Entries)
        /\ log'[conv[c]] = Append(log[conv[c]], Entry(c, "assistant"))
        /\ conv' = conv /\ message' = message /\ pc' = [pc EXCEPT ![c] = "mark"]
    BY <1>9 DEF SaveAnswer, Save, Goto, TypeOK, ConversationsFit, Writing
  <2>2. Entry(c, "user")' = Entry(c, "user") /\ Entry(c, "assistant")' = Entry(c, "assistant")
    BY <2>1 DEF Entry
  <2>3. Answered(c, log[conv[c]])'
    <3>1. PICK i \in DOMAIN log[conv[c]] : log[conv[c]][i] = Entry(c, "user")
      BY <1>9 DEF SaveAnswer, SavedSoFar, Asked
    <3>2. i \in DOMAIN log'[conv[c]] /\ log'[conv[c]][i] = Entry(c, "user")
          /\ i < Len(log[conv[c]]) + 1
      BY <2>1, <3>1, EntryTyped, Appending
    <3>3. Len(log[conv[c]]) + 1 \in DOMAIN log'[conv[c]]
          /\ log'[conv[c]][Len(log[conv[c]]) + 1] = Entry(c, "assistant")
      BY <2>1, EntryTyped, Appending
    <3>4. QED
      BY <2>1, <2>2, <3>2, <3>3 DEF Answered
  <2>4. ASSUME NEW d \in Calls, d # c
        PROVE  /\ pc'[d] \in {"answer", "saveAnswer"} => Asked(d, log[conv[d]])'
               /\ pc'[d] \in {"mark", "send", "done"} => Answered(d, log[conv[d]])'
    BY <2>1, <2>4, StaySaved DEF TypeOK
  <2>5. pc'[c] = "mark"
    BY <2>1 DEF TypeOK
  <2>6. QED
    BY <2>3, <2>4, <2>5 DEF SavedSoFar
<1>10. ASSUME NEW c \in Calls, Mark(c)
      PROVE  SavedSoFar'
  <2>1. \A d \in Calls :
          /\ pc'[d] \in {"answer", "saveAnswer"} => pc[d] \in {"answer", "saveAnswer"}
          /\ pc'[d] \in {"mark", "send", "done"} => pc[d] \in {"mark", "send", "done"}
    BY <1>10 DEF Mark, Goto, TypeOK
  <2>2. QED
    BY <2>1, StaySaved DEF SavedSoFar
<1>11. ASSUME NEW c \in Calls, Send(c)
      PROVE  SavedSoFar'
  <2>1. \A d \in Calls :
          /\ pc'[d] \in {"answer", "saveAnswer"} => pc[d] \in {"answer", "saveAnswer"}
          /\ pc'[d] \in {"mark", "send", "done"} => pc[d] \in {"mark", "send", "done"}
    BY <1>11 DEF Send, Goto, TypeOK
  <2>2. QED
    BY <2>1, StaySaved DEF SavedSoFar
<1>12. ASSUME NEW c \in Calls, Die(c)
      PROVE  SavedSoFar'
  <2>1. \A d \in Calls :
          /\ pc'[d] \in {"answer", "saveAnswer"} => pc[d] \in {"answer", "saveAnswer"}
          /\ pc'[d] \in {"mark", "send", "done"} => pc[d] \in {"mark", "send", "done"}
    BY <1>12 DEF Die, Goto, TypeOK
  <2>2. QED
    BY <2>1, StaySaved DEF SavedSoFar
<1>13. CASE UNCHANGED vars
  BY <1>13, StaySaved DEF vars, SavedSoFar
<1>14. QED
  BY <1>1, <1>2, <1>3, <1>4, <1>5, <1>6, <1>7, <1>8, <1>9, <1>10, <1>11, <1>12, <1>13 DEF Next, Advance

\* The answer a receipt stands for stays where it is.
LEMMA StayReceived ==
    ASSUME TypeOK, TypeOK', Grown, ReceiptsFit, NEW m \in Messages, receipts[m] # None
    PROVE  /\ receipts'[m] = receipts[m] /\ receipts[m] \in Calls
           /\ message'[receipts[m]] = m
           /\ conv'[receipts[m]] = conv[receipts[m]] /\ conv[receipts[m]] # None
           /\ Answered(receipts[m], log[conv[receipts[m]]])'
<1>1. PICK k \in Calls : k = receipts[m]
  BY DEF TypeOK
<1>2. PICK q \in Calls : q = conv[k]
  BY <1>1 DEF TypeOK, ReceiptsFit
<1>3. receipts'[m] = k /\ message'[k] = m /\ conv'[k] = q
  BY <1>1, <1>2 DEF Grown, ReceiptsFit
<1>4. Answered(k, log[q])
  BY <1>1, <1>2 DEF ReceiptsFit
<1>5. Answered(k, log[q])'
  BY <1>4, Kept
<1>6. QED
  BY <1>1, <1>2, <1>3, <1>5 DEF ReceiptsFit, Answered

\* A receipt stands for an answer that is saved, and its call alone may send it.
LEMMA ReceiptsStep ==
    ASSUME TypeOK, TypeOK', Grown, ConversationsFit, SavedSoFar, ReceiptsFit, [Next]_vars
    PROVE  ReceiptsFit'
<1> USE PlatformAssumption
<1>1. ASSUME NEW c \in Calls, Receive(c)
      PROVE  ReceiptsFit'
  <2>1. /\ receipts' = receipts
        /\ \A d \in Calls : /\ pc[d] \in {"send", "done", "failed"} => pc'[d] \in {"send", "done", "failed"}
                            /\ pc'[d] = "send" => pc[d] = "send"
    BY <1>1 DEF Receive, Goto, TypeOK, Ended
  <2>2. \A d \in Calls : pc'[d] = "duplicated" => pc[d] = "duplicated"
    BY <1>1 DEF Receive, Goto, TypeOK
  <2>3. message' = message
    BY DEF Grown
  <2>4. ASSUME NEW m \in Messages, receipts'[m] # None
        PROVE  /\ message'[receipts'[m]] = m
               /\ pc'[receipts'[m]] \in {"send", "done", "failed"}
               /\ conv'[receipts'[m]] # None
               /\ Answered(receipts[m], log[conv[receipts[m]]])'
    BY <2>1, <2>4, StayReceived DEF ReceiptsFit
  <2>5. QED
    BY <2>1, <2>2, <2>3, <2>4 DEF ReceiptsFit, Processed
<1>2. ASSUME NEW c \in Calls, FindUser(c)
      PROVE  ReceiptsFit'
  <2>1. /\ receipts' = receipts
        /\ \A d \in Calls : /\ pc[d] \in {"send", "done", "failed"} => pc'[d] \in {"send", "done", "failed"}
                            /\ pc'[d] = "send" => pc[d] = "send"
    BY <1>2 DEF FindUser, Goto, TypeOK, Ended
  <2>2. \A d \in Calls : pc'[d] = "duplicated" => pc[d] = "duplicated"
    BY <1>2 DEF FindUser, Goto, TypeOK
  <2>3. message' = message
    BY DEF Grown
  <2>4. ASSUME NEW m \in Messages, receipts'[m] # None
        PROVE  /\ message'[receipts'[m]] = m
               /\ pc'[receipts'[m]] \in {"send", "done", "failed"}
               /\ conv'[receipts'[m]] # None
               /\ Answered(receipts[m], log[conv[receipts[m]]])'
    BY <2>1, <2>4, StayReceived DEF ReceiptsFit
  <2>5. QED
    BY <2>1, <2>2, <2>3, <2>4 DEF ReceiptsFit, Processed
<1>3. ASSUME NEW c \in Calls, CreateUser(c)
      PROVE  ReceiptsFit'
  <2>1. /\ receipts' = receipts
        /\ \A d \in Calls : /\ pc[d] \in {"send", "done", "failed"} => pc'[d] \in {"send", "done", "failed"}
                            /\ pc'[d] = "send" => pc[d] = "send"
    BY <1>3 DEF CreateUser, Goto, TypeOK, Ended
  <2>2. \A d \in Calls : pc'[d] = "duplicated" => pc[d] = "duplicated"
    BY <1>3 DEF CreateUser, Goto, TypeOK
  <2>3. message' = message
    BY DEF Grown
  <2>4. ASSUME NEW m \in Messages, receipts'[m] # None
        PROVE  /\ message'[receipts'[m]] = m
               /\ pc'[receipts'[m]] \in {"send", "done", "failed"}
               /\ conv'[receipts'[m]] # None
               /\ Answered(receipts[m], log[conv[receipts[m]]])'
    BY <2>1, <2>4, StayReceived DEF ReceiptsFit
  <2>5. QED
    BY <2>1, <2>2, <2>3, <2>4 DEF ReceiptsFit, Processed
<1>4. ASSUME NEW c \in Calls, CheckReceipt(c)
      PROVE  ReceiptsFit'
  <2>1. /\ receipts' = receipts
        /\ \A d \in Calls : /\ pc[d] \in {"send", "done", "failed"} => pc'[d] \in {"send", "done", "failed"}
                            /\ pc'[d] = "send" => pc[d] = "send"
    BY <1>4 DEF CheckReceipt, Goto, TypeOK, Ended
  <2>2. \A d \in Calls : pc'[d] = "duplicated" => pc[d] = "duplicated" \/ Processed(message[d])
    BY <1>4 DEF CheckReceipt, Goto, TypeOK
  <2>3. message' = message
    BY DEF Grown
  <2>4. ASSUME NEW m \in Messages, receipts'[m] # None
        PROVE  /\ message'[receipts'[m]] = m
               /\ pc'[receipts'[m]] \in {"send", "done", "failed"}
               /\ conv'[receipts'[m]] # None
               /\ Answered(receipts[m], log[conv[receipts[m]]])'
    BY <2>1, <2>4, StayReceived DEF ReceiptsFit
  <2>5. QED
    BY <2>1, <2>2, <2>3, <2>4 DEF ReceiptsFit, Processed
<1>5. ASSUME NEW c \in Calls, FindConversation(c)
      PROVE  ReceiptsFit'
  <2>1. /\ receipts' = receipts
        /\ \A d \in Calls : /\ pc[d] \in {"send", "done", "failed"} => pc'[d] \in {"send", "done", "failed"}
                            /\ pc'[d] = "send" => pc[d] = "send"
    BY <1>5 DEF FindConversation, Goto, TypeOK, Ended
  <2>2. \A d \in Calls : pc'[d] = "duplicated" => pc[d] = "duplicated"
    BY <1>5 DEF FindConversation, Goto, TypeOK
  <2>3. message' = message
    BY DEF Grown
  <2>4. ASSUME NEW m \in Messages, receipts'[m] # None
        PROVE  /\ message'[receipts'[m]] = m
               /\ pc'[receipts'[m]] \in {"send", "done", "failed"}
               /\ conv'[receipts'[m]] # None
               /\ Answered(receipts[m], log[conv[receipts[m]]])'
    BY <2>1, <2>4, StayReceived DEF ReceiptsFit
  <2>5. QED
    BY <2>1, <2>2, <2>3, <2>4 DEF ReceiptsFit, Processed
<1>6. ASSUME NEW c \in Calls, CreateConversation(c)
      PROVE  ReceiptsFit'
  <2>1. /\ receipts' = receipts
        /\ \A d \in Calls : /\ pc[d] \in {"send", "done", "failed"} => pc'[d] \in {"send", "done", "failed"}
                            /\ pc'[d] = "send" => pc[d] = "send"
    BY <1>6 DEF CreateConversation, Goto, TypeOK, Ended
  <2>2. \A d \in Calls : pc'[d] = "duplicated" => pc[d] = "duplicated"
    BY <1>6 DEF CreateConversation, Goto, TypeOK
  <2>3. message' = message
    BY DEF Grown
  <2>4. ASSUME NEW m \in Messages, receipts'[m] # None
        PROVE  /\ message'[receipts'[m]] = m
               /\ pc'[receipts'[m]] \in {"send", "done", "failed"}
               /\ conv'[receipts'[m]] # None
               /\ Answered(receipts[m], log[conv[receipts[m]]])'
    BY <2>1, <2>4, StayReceived DEF ReceiptsFit
  <2>5. QED
    BY <2>1, <2>2, <2>3, <2>4 DEF ReceiptsFit, Processed
<1>7. ASSUME NEW c \in Calls, SaveQuestion(c)
      PROVE  ReceiptsFit'
  <2>1. /\ receipts' = receipts
        /\ \A d \in Calls : /\ pc[d] \in {"send", "done", "failed"} => pc'[d] \in {"send", "done", "failed"}
                            /\ pc'[d] = "send" => pc[d] = "send"
    BY <1>7 DEF SaveQuestion, Goto, TypeOK, Ended
  <2>2. \A d \in Calls : pc'[d] = "duplicated" => pc[d] = "duplicated"
    BY <1>7 DEF SaveQuestion, Goto, TypeOK
  <2>3. message' = message
    BY DEF Grown
  <2>4. ASSUME NEW m \in Messages, receipts'[m] # None
        PROVE  /\ message'[receipts'[m]] = m
               /\ pc'[receipts'[m]] \in {"send", "done", "failed"}
               /\ conv'[receipts'[m]] # None
               /\ Answered(receipts[m], log[conv[receipts[m]]])'
    BY <2>1, <2>4, StayReceived DEF ReceiptsFit
  <2>5. QED
    BY <2>1, <2>2, <2>3, <2>4 DEF ReceiptsFit, Processed
<1>8. ASSUME NEW c \in Calls, Answer(c)
      PROVE  ReceiptsFit'
  <2>1. /\ receipts' = receipts
        /\ \A d \in Calls : /\ pc[d] \in {"send", "done", "failed"} => pc'[d] \in {"send", "done", "failed"}
                            /\ pc'[d] = "send" => pc[d] = "send"
    BY <1>8 DEF Answer, Goto, TypeOK, Ended
  <2>2. \A d \in Calls : pc'[d] = "duplicated" => pc[d] = "duplicated"
    BY <1>8 DEF Answer, Goto, TypeOK
  <2>3. message' = message
    BY DEF Grown
  <2>4. ASSUME NEW m \in Messages, receipts'[m] # None
        PROVE  /\ message'[receipts'[m]] = m
               /\ pc'[receipts'[m]] \in {"send", "done", "failed"}
               /\ conv'[receipts'[m]] # None
               /\ Answered(receipts[m], log[conv[receipts[m]]])'
    BY <2>1, <2>4, StayReceived DEF ReceiptsFit
  <2>5. QED
    BY <2>1, <2>2, <2>3, <2>4 DEF ReceiptsFit, Processed
<1>9. ASSUME NEW c \in Calls, SaveAnswer(c)
      PROVE  ReceiptsFit'
  <2>1. /\ receipts' = receipts
        /\ \A d \in Calls : /\ pc[d] \in {"send", "done", "failed"} => pc'[d] \in {"send", "done", "failed"}
                            /\ pc'[d] = "send" => pc[d] = "send"
    BY <1>9 DEF SaveAnswer, Goto, TypeOK, Ended
  <2>2. \A d \in Calls : pc'[d] = "duplicated" => pc[d] = "duplicated"
    BY <1>9 DEF SaveAnswer, Goto, TypeOK
  <2>3. message' = message
    BY DEF Grown
  <2>4. ASSUME NEW m \in Messages, receipts'[m] # None
        PROVE  /\ message'[receipts'[m]] = m
               /\ pc'[receipts'[m]] \in {"send", "done", "failed"}
               /\ conv'[receipts'[m]] # None
               /\ Answered(receipts[m], log[conv[receipts[m]]])'
    BY <2>1, <2>4, StayReceived DEF ReceiptsFit
  <2>5. QED
    BY <2>1, <2>2, <2>3, <2>4 DEF ReceiptsFit, Processed
<1>10. ASSUME NEW c \in Calls, Mark(c)
      PROVE  ReceiptsFit'
  <2>1. /\ message' = message /\ conv' = conv /\ log' = log
        /\ \A d \in Calls \ {c} : pc'[d] = pc[d]
        /\ pc'[c] \in {"send", "failed"} /\ pc[c] = "mark"
    BY <1>10 DEF Mark, Goto, TypeOK
  <2>2. \A m \in Messages : receipts'[m] # receipts[m] =>
            m = message[c] /\ receipts'[m] = c /\ receipts[m] = None
    BY <1>10 DEF Mark, TypeOK
  <2>3. pc'[c] = "send" /\ message[c] \notin Unnamed => receipts'[message[c]] = c
    BY <1>10 DEF Mark, Goto, TypeOK
  <2>4. ASSUME NEW m \in Messages, receipts'[m] # None
        PROVE  /\ message'[receipts'[m]] = m
               /\ pc'[receipts'[m]] \in {"send", "done", "failed"}
               /\ conv'[receipts'[m]] # None
               /\ Answered(receipts[m], log[conv[receipts[m]]])'
    <3>1. CASE receipts[m] # None
      BY <2>1, <3>1, StayReceived DEF ReceiptsFit
    <3>2. CASE receipts[m] = None
      <4>1. m = message[c] /\ receipts'[m] = c
        BY <2>2, <2>4, <3>2
      <4>2. conv[c] # None /\ Answered(c, log[conv[c]])
        BY <2>1 DEF SavedSoFar, ConversationsFit, Writing
      <4>3. Entry(c, "user")' = Entry(c, "user") /\ Entry(c, "assistant")' = Entry(c, "assistant")
        BY <2>1 DEF Entry
      <4>4. QED
        BY <2>1, <4>1, <4>2, <4>3 DEF Answered
    <3>3. QED
      BY <3>1, <3>2
  <2>5. \A d \in Calls : pc'[d] = "send" /\ message'[d] \notin Unnamed => receipts'[message'[d]] = d
    <3>1. ASSUME NEW d \in Calls \ {c}, pc'[d] = "send", message[d] \notin Unnamed
          PROVE  receipts'[message[d]] = d
      <4>1. receipts[message[d]] = d /\ message[d] \in Messages
        BY <2>1, <3>1 DEF ReceiptsFit, TypeOK
      <4>2. QED
        BY <2>2, <4>1
    <3>2. QED
      BY <2>1, <2>3, <3>1
  <2>6. \A d \in Calls : pc'[d] = "duplicated" => Processed(message[d])'
    BY <2>1, <2>2 DEF ReceiptsFit, Processed, TypeOK
  <2>7. QED
    BY <2>4, <2>5, <2>6 DEF ReceiptsFit
<1>11. ASSUME NEW c \in Calls, Send(c)
      PROVE  ReceiptsFit'
  <2>1. /\ receipts' = receipts
        /\ \A d \in Calls : /\ pc[d] \in {"send", "done", "failed"} => pc'[d] \in {"send", "done", "failed"}
                            /\ pc'[d] = "send" => pc[d] = "send"
    BY <1>11 DEF Send, Goto, TypeOK, Ended
  <2>2. \A d \in Calls : pc'[d] = "duplicated" => pc[d] = "duplicated"
    BY <1>11 DEF Send, Goto, TypeOK
  <2>3. message' = message
    BY DEF Grown
  <2>4. ASSUME NEW m \in Messages, receipts'[m] # None
        PROVE  /\ message'[receipts'[m]] = m
               /\ pc'[receipts'[m]] \in {"send", "done", "failed"}
               /\ conv'[receipts'[m]] # None
               /\ Answered(receipts[m], log[conv[receipts[m]]])'
    BY <2>1, <2>4, StayReceived DEF ReceiptsFit
  <2>5. QED
    BY <2>1, <2>2, <2>3, <2>4 DEF ReceiptsFit, Processed
<1>12. ASSUME NEW c \in Calls, Die(c)
      PROVE  ReceiptsFit'
  <2>1. /\ receipts' = receipts
        /\ \A d \in Calls : /\ pc[d] \in {"send", "done", "failed"} => pc'[d] \in {"send", "done", "failed"}
                            /\ pc'[d] = "send" => pc[d] = "send"
    BY <1>12 DEF Die, Goto, TypeOK, Ended
  <2>2. \A d \in Calls : pc'[d] = "duplicated" => pc[d] = "duplicated"
    BY <1>12 DEF Die, Goto, TypeOK
  <2>3. message' = message
    BY DEF Grown
  <2>4. ASSUME NEW m \in Messages, receipts'[m] # None
        PROVE  /\ message'[receipts'[m]] = m
               /\ pc'[receipts'[m]] \in {"send", "done", "failed"}
               /\ conv'[receipts'[m]] # None
               /\ Answered(receipts[m], log[conv[receipts[m]]])'
    BY <2>1, <2>4, StayReceived DEF ReceiptsFit
  <2>5. QED
    BY <2>1, <2>2, <2>3, <2>4 DEF ReceiptsFit, Processed
<1>13. CASE UNCHANGED vars
  <2>1. /\ receipts' = receipts
        /\ \A d \in Calls : /\ pc[d] \in {"send", "done", "failed"} => pc'[d] \in {"send", "done", "failed"}
                            /\ pc'[d] = "send" => pc[d] = "send"
    BY <1>13 DEF vars
  <2>2. \A d \in Calls : pc'[d] = "duplicated" => pc[d] = "duplicated"
    BY <1>13 DEF vars
  <2>3. message' = message
    BY DEF Grown
  <2>4. ASSUME NEW m \in Messages, receipts'[m] # None
        PROVE  /\ message'[receipts'[m]] = m
               /\ pc'[receipts'[m]] \in {"send", "done", "failed"}
               /\ conv'[receipts'[m]] # None
               /\ Answered(receipts[m], log[conv[receipts[m]]])'
    BY <2>1, <2>4, StayReceived DEF ReceiptsFit
  <2>5. QED
    BY <2>1, <2>2, <2>3, <2>4 DEF ReceiptsFit, Processed
<1>14. QED
  BY <1>1, <1>2, <1>3, <1>4, <1>5, <1>6, <1>7, <1>8, <1>9, <1>10, <1>11, <1>12, <1>13 DEF Next, Advance

\* An answer is sent by the holder of the receipt, in the step that ends it.
LEMMA SentStep ==
    ASSUME TypeOK, TypeOK', Grown, ReceiptsFit, SentFits, [Next]_vars
    PROVE  SentFits'
<1> USE PlatformAssumption
<1>1. ASSUME NEW c \in Calls, Receive(c)
      PROVE  SentFits'
  BY <1>1 DEF Receive, Goto, TypeOK, SentFits, Grown, ReceiptsFit
<1>2. ASSUME NEW c \in Calls, FindUser(c)
      PROVE  SentFits'
  BY <1>2 DEF FindUser, Goto, TypeOK, SentFits, Grown, ReceiptsFit
<1>3. ASSUME NEW c \in Calls, CreateUser(c)
      PROVE  SentFits'
  BY <1>3 DEF CreateUser, Goto, TypeOK, SentFits, Grown, ReceiptsFit
<1>4. ASSUME NEW c \in Calls, CheckReceipt(c)
      PROVE  SentFits'
  BY <1>4 DEF CheckReceipt, Goto, TypeOK, SentFits, Grown, ReceiptsFit, Processed
<1>5. ASSUME NEW c \in Calls, FindConversation(c)
      PROVE  SentFits'
  BY <1>5 DEF FindConversation, Goto, TypeOK, SentFits, Grown, ReceiptsFit
<1>6. ASSUME NEW c \in Calls, CreateConversation(c)
      PROVE  SentFits'
  BY <1>6 DEF CreateConversation, Goto, TypeOK, SentFits, Grown, ReceiptsFit
<1>7. ASSUME NEW c \in Calls, SaveQuestion(c)
      PROVE  SentFits'
  BY <1>7 DEF SaveQuestion, Goto, TypeOK, SentFits, Grown, ReceiptsFit, Save
<1>8. ASSUME NEW c \in Calls, Answer(c)
      PROVE  SentFits'
  BY <1>8 DEF Answer, Goto, TypeOK, SentFits, Grown, ReceiptsFit
<1>9. ASSUME NEW c \in Calls, SaveAnswer(c)
      PROVE  SentFits'
  BY <1>9 DEF SaveAnswer, Goto, TypeOK, SentFits, Grown, ReceiptsFit, Save
<1>10. ASSUME NEW c \in Calls, Mark(c)
      PROVE  SentFits'
  BY <1>10 DEF Mark, Goto, TypeOK, SentFits, Grown, ReceiptsFit
<1>11. ASSUME NEW c \in Calls, Send(c)
      PROVE  SentFits'
  BY <1>11 DEF Send, Goto, TypeOK, SentFits, Grown, ReceiptsFit
<1>12. ASSUME NEW c \in Calls, Die(c)
      PROVE  SentFits'
  BY <1>12 DEF Die, Goto, TypeOK, SentFits, Grown, ReceiptsFit
<1>13. CASE UNCHANGED vars
  BY <1>13 DEF vars, TypeOK, SentFits, Grown, ReceiptsFit
<1>14. QED
  BY <1>1, <1>2, <1>3, <1>4, <1>5, <1>6, <1>7, <1>8, <1>9, <1>10, <1>11, <1>12, <1>13 DEF Next, Advance

\* The inductive invariant holds in every reachable state: conversations, saved
\* messages, receipts and answers that were sent agree.
THEOREM PlatformSafe == Spec => []PlatformInv
<1>1. Init => PlatformInv
  BY PlatformAssumption DEF Init, PlatformInv, TypeOK, Places, Ended, ConversationsFit, Writing,
     SavedSoFar, ReceiptsFit, SentFits
<1>2. PlatformInv /\ [Next]_vars => PlatformInv'
  <2> SUFFICES ASSUME PlatformInv, [Next]_vars
               PROVE  PlatformInv'
    OBVIOUS
  <2>1. TypeOK'
    BY TypedStep DEF PlatformInv
  <2>2. Grown
    BY Monotone DEF PlatformInv
  <2>3. ConversationsFit'
    BY ConversationsStep DEF PlatformInv
  <2>4. SavedSoFar'
    BY <2>1, <2>2, SavedStep DEF PlatformInv
  <2>5. ReceiptsFit'
    BY <2>1, <2>2, ReceiptsStep DEF PlatformInv
  <2>6. SentFits'
    BY <2>1, <2>2, SentStep DEF PlatformInv
  <2>7. QED
    BY <2>1, <2>3, <2>4, <2>5, <2>6 DEF PlatformInv
<1>3. QED
  BY <1>1, <1>2, PTL DEF Spec

\* At most one answer to a named message reaches the platform, however often and
\* however concurrently the platform calls back for it.
THEOREM AnswersOnce == Spec => []SentOnce
<1>1. PlatformInv => SentOnce
  BY DEF PlatformInv, SentFits, SentOnce
<1>2. QED
  BY <1>1, PlatformSafe, PTL

\* The messages of a chat are all in one conversation, which holds no other chat's.
THEOREM ChatsStayApart == Spec => []OneConversationPerChat
<1>1. PlatformInv => OneConversationPerChat
  BY DEF PlatformInv, ConversationsFit, OneConversationPerChat
<1>2. QED
  BY <1>1, PlatformSafe, PTL

\* An answer that was sent, or that a duplicate call relies on, is kept after its
\* question in the conversation of its chat.
THEOREM AnswersAreKept == Spec => []AnswerIsKept
<1>1. ASSUME PlatformInv, NEW m \in Messages \ Unnamed,
             sent[m] > 0 \/ \E c \in Calls : pc[c] = "duplicated" /\ message[c] = m
      PROVE  /\ receipts[m] # None /\ message[receipts[m]] = m
             /\ Answered(receipts[m], log[mapping[ChatOf[m]]])
  <2>1. receipts[m] # None
    BY <1>1 DEF PlatformInv, SentFits, ReceiptsFit, Processed
  <2>2. PICK k \in Calls : k = receipts[m]
    BY <1>1, <2>1 DEF PlatformInv, TypeOK
  <2>3. message[k] = m /\ conv[k] # None /\ Answered(k, log[conv[k]])
    BY <1>1, <2>1, <2>2 DEF PlatformInv, ReceiptsFit
  <2>4. conv[k] = mapping[ChatOf[m]]
    BY <1>1, <2>3 DEF PlatformInv, ConversationsFit, ChatOfCall
  <2>5. QED
    BY <2>1, <2>2, <2>3, <2>4
<1>2. PlatformInv => AnswerIsKept
  BY <1>1 DEF AnswerIsKept
<1>3. QED
  BY <1>2, PlatformSafe, PTL

-----------------------------------------------------------------------------
(* PlatformCallback implements AnsweredOnce.  A message is settled when its *)
(* receipt is written, because whoever writes it has saved the answer and   *)
(* what is saved stays; so only three steps show: the receipt, the sending  *)
(* and the end of a repetition.                                             *)

Noted == {m \in Named : receipts[m] # None}
TurnedAway == {m \in Named : \E c \in Calls : pc[c] = "duplicated" /\ message[c] = m}

\* The answer of a message with a receipt is in the conversation of its chat.
LEMMA SettledIsNoted == PlatformInv => {m \in Named : Settled(m)} = Noted
<1> SUFFICES ASSUME PlatformInv PROVE {m \in Named : Settled(m)} = Noted
  OBVIOUS
<1>1. ASSUME NEW m \in Named, receipts[m] # None
      PROVE  Settled(m)
  <2>1. PICK k \in Calls : k = receipts[m]
    BY <1>1 DEF PlatformInv, TypeOK, Named
  <2>2. message[k] = m /\ conv[k] # None /\ Answered(k, log[conv[k]])
    BY <1>1, <2>1 DEF PlatformInv, ReceiptsFit, Named
  <2>3. conv[k] = mapping[ChatOf[m]]
    BY <2>2 DEF PlatformInv, ConversationsFit, ChatOfCall
  <2> QED
    BY <1>1, <2>1, <2>2, <2>3 DEF Settled
<1> QED
  BY <1>1 DEF Noted, Settled

\* After a step it is so as well.
LEMMA SettledIsNotedThen == PlatformInv' => {m \in Named : Settled(m)}' = Noted'
<1>1. (PlatformInv => {m \in Named : Settled(m)} = Noted)'
  BY SettledIsNoted, PTL
<1> QED
  BY <1>1

\* A step that neither writes a receipt nor sends nor ends a repetition does not show.
LEMMA Unseen ==
    ASSUME PlatformInv, PlatformInv', Grown, receipts' = receipts, sent' = sent,
           \A c \in Calls : pc'[c] = "duplicated" <=> pc[c] = "duplicated"
    PROVE  UNCHANGED Platform!vars
<1>1. Noted' = Noted
  BY DEF Noted
<1>2. TurnedAway' = TurnedAway
  BY DEF TurnedAway, Grown
<1>3. {m \in Named : Settled(m)} = Noted /\ {m \in Named : Settled(m)}' = Noted'
  BY SettledIsNoted, SettledIsNotedThen
<1> QED
  BY <1>1, <1>2, <1>3 DEF Platform!vars, TurnedAway

\* Every step of a call is a step of the promise, or does not show.
LEMMA PromiseStep ==
    ASSUME PlatformInv, PlatformInv', Grown, [Next]_vars
    PROVE  [Platform!Next]_(Platform!vars)
<1> USE PlatformAssumption
<1>0. /\ TypeOK /\ message' = message
      /\ {m \in Named : Settled(m)} = Noted /\ {m \in Named : Settled(m)}' = Noted'
  BY SettledIsNoted, SettledIsNotedThen DEF PlatformInv, Grown
<1>1. ASSUME NEW c \in Calls, Receive(c) \/ FindUser(c) \/ CreateUser(c) \/ FindConversation(c)
             \/ CreateConversation(c) \/ SaveQuestion(c) \/ Answer(c) \/ SaveAnswer(c) \/ Die(c)
      PROVE  UNCHANGED Platform!vars
  <2>1. receipts' = receipts /\ sent' = sent
    BY <1>1 DEF Receive, FindUser, CreateUser, FindConversation, CreateConversation, SaveQuestion,
       Answer, SaveAnswer, Die
  <2>2. \E p : p # "duplicated" /\ pc[c] # "duplicated" /\ Goto(c, p)
    BY <1>1 DEF Receive, FindUser, CreateUser, FindConversation, CreateConversation, SaveQuestion,
       Answer, SaveAnswer, Die, Ended
  <2>3. \A d \in Calls : pc'[d] = "duplicated" <=> pc[d] = "duplicated"
    BY <1>0, <2>2 DEF Goto, TypeOK
  <2> QED
    BY <2>1, <2>3, Unseen
<1>2. ASSUME NEW c \in Calls, CheckReceipt(c)
      PROVE  [Platform!Next]_(Platform!vars)
  <2>1. receipts' = receipts /\ sent' = sent
    BY <1>2 DEF CheckReceipt
  <2>2. CASE ~Processed(message[c])
    <3>1. \A d \in Calls : pc'[d] = "duplicated" <=> pc[d] = "duplicated"
      BY <1>0, <1>2, <2>2 DEF CheckReceipt, Goto, TypeOK
    <3> QED
      BY <2>1, <3>1, Unseen
  <2>3. CASE Processed(message[c])
    <3>1. message[c] \in Named /\ message[c] \in Noted
      BY <1>0, <2>3 DEF Processed, Noted, Named, TypeOK
    <3>2. \A d \in Calls : pc'[d] = "duplicated" <=> pc[d] = "duplicated" \/ d = c
      BY <1>0, <1>2, <2>3 DEF CheckReceipt, Goto, TypeOK
    <3>3. TurnedAway' = TurnedAway \union {message[c]}
      BY <1>0, <3>1, <3>2 DEF TurnedAway
    <3>4. Noted' = Noted
      BY <2>1 DEF Noted
    <3>5. PICK m \in Named : m = message[c]
      BY <3>1
    <3>6. Platform!TurnAway(m)
      BY <1>0, <2>1, <3>1, <3>3, <3>4, <3>5 DEF Platform!TurnAway, TurnedAway
    <3> QED
      BY <3>6 DEF Platform!Next
  <2> QED
    BY <2>2, <2>3
<1>3. ASSUME NEW c \in Calls, Mark(c)
      PROVE  [Platform!Next]_(Platform!vars)
  <2>0. message[c] \in Messages
    BY <1>0 DEF TypeOK
  <2>1. sent' = sent /\ \A d \in Calls : pc'[d] = "duplicated" <=> pc[d] = "duplicated"
    BY <1>0, <1>3 DEF Mark, Goto, TypeOK
  <2>2. CASE message[c] \in Unnamed \/ receipts[message[c]] # None
    <3>1. receipts' = receipts
      BY <1>3, <2>2 DEF Mark
    <3> QED
      BY <2>1, <3>1, Unseen
  <2>3. CASE message[c] \notin Unnamed /\ receipts[message[c]] = None
    <3>1. receipts' = [receipts EXCEPT ![message[c]] = c]
      BY <1>3, <2>3 DEF Mark
    <3>2. message[c] \in Named /\ message[c] \notin Noted
      BY <2>0, <2>3 DEF Noted, Named
    <3>3. Noted' = Noted \union {message[c]}
      BY <1>0, <3>1, <3>2 DEF Noted, TypeOK, Named
    <3>4. TurnedAway' = TurnedAway
      BY <1>0, <2>1 DEF TurnedAway
    <3>5. PICK m \in Named : m = message[c]
      BY <3>2
    <3>6. Platform!Keep(m)
      BY <1>0, <2>1, <3>2, <3>3, <3>4, <3>5 DEF Platform!Keep, TurnedAway
    <3> QED
      BY <3>6 DEF Platform!Next
  <2> QED
    BY <2>2, <2>3
<1>4. ASSUME NEW c \in Calls, Send(c)
      PROVE  [Platform!Next]_(Platform!vars)
  <2>0. message[c] \in Messages
    BY <1>0 DEF TypeOK
  <2>1. receipts' = receipts /\ \A d \in Calls : pc'[d] = "duplicated" <=> pc[d] = "duplicated"
    BY <1>0, <1>4 DEF Send, Goto, TypeOK
  <2>2. Noted' = Noted /\ TurnedAway' = TurnedAway
    BY <1>0, <2>1 DEF Noted, TurnedAway
  <2>3. CASE sent' = sent
    BY <2>1, <2>3, Unseen
  <2>4. CASE sent' # sent
    <3>1. sent' = [sent EXCEPT ![message[c]] = sent[message[c]] + 1]
      BY <1>4, <2>4 DEF Send
    <3>2. CASE message[c] \in Unnamed
      <4>1. [m \in Named |-> sent[m]]' = [m \in Named |-> sent[m]]
        BY <1>0, <3>1, <3>2 DEF Named, TypeOK
      <4> QED
        BY <1>0, <2>2, <4>1 DEF Platform!vars, TurnedAway
    <3>3. CASE message[c] \in Named
      <4>1. receipts[message[c]] = c /\ message[c] \in Noted
        BY <1>4, <2>0, <3>3 DEF Send, PlatformInv, ReceiptsFit, Noted, Named
      <4>2. sent[message[c]] = 0
        BY <1>4, <1>0, <3>3, <4>1 DEF Send, PlatformInv, SentFits, Named, TypeOK
      <4>3. [m \in Named |-> sent[m]]'
            = [[m \in Named |-> sent[m]] EXCEPT ![message[c]] = 1]
        <5>1. \A m \in Named : sent'[m] = IF m = message[c] THEN 1 ELSE sent[m]
          BY <1>0, <3>1, <3>3, <4>2 DEF Named, TypeOK
        <5> QED
          BY <5>1
      <4>4. PICK m \in Named : m = message[c]
        BY <3>3
      <4>5. Platform!Send(m)
        BY <1>0, <2>2, <4>1, <4>2, <4>3, <4>4 DEF Platform!Send, TurnedAway
      <4> QED
        BY <4>5 DEF Platform!Next
    <3> QED
      BY <2>0, <3>2, <3>3 DEF Named
  <2> QED
    BY <2>3, <2>4
<1>5. CASE UNCHANGED vars
  BY <1>5, Unseen DEF vars
<1> QED
  BY <1>1, <1>2, <1>3, <1>4, <1>5 DEF Next, Advance

\* The code keeps the promise of AnsweredOnce to the platform, however calls overlap,
\* fail and die: an answer is kept before it is sent, sent at most once, and a
\* repetition is turned away only when there is one.
THEOREM KeepsPromise == Spec => AnswerSpec
<1>1. Init => Platform!Init
  <2> SUFFICES ASSUME Init PROVE Platform!Init
    OBVIOUS
  <2>1. {m \in Named : Settled(m)} = {}
    BY DEF Init, Settled, Named
  <2>2. \A c \in Calls : pc[c] # "duplicated"
    BY DEF Init
  <2>3. [m \in Named |-> sent[m]] = [m \in Named |-> 0]
    BY DEF Init, Named
  <2> QED
    BY <2>1, <2>2, <2>3 DEF Platform!Init
<1>2. PlatformInv /\ PlatformInv' /\ [Next]_vars => [Platform!Next]_(Platform!vars)
  BY Monotone, PromiseStep DEF PlatformInv
<1> QED
  BY <1>1, <1>2, PlatformSafe, PTL DEF Spec, AnswerSpec, Platform!Spec
=============================================================================
