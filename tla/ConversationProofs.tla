-------------------------- MODULE ConversationProofs --------------------------
(***************************************************************************)
(* Types, ConsentBehindOn, ChatInv and PageShowsRows for any pages,        *)
(* conversations, requests and texts, however many requests are under way  *)
(* at once.  The inductive invariant comes in layers, each proved with the *)
(* ones before it:                                                         *)
(*   ConsentInv  a request that works on a copy of the meta column in which*)
(*               the search is on has, or its conversation has, a request  *)
(*               that switched it on, and no conversation loses it;        *)
(*   MemoInv     what a request knows at its place: the copy it loaded, the*)
(*               switch it carries and why the search is on;               *)
(*   FiledInv    which of its rows a request has saved at its place;       *)
(*   StoredInv   alone in its conversation and not yet overtaken, a request*)
(*               holds what the meta column holds;                         *)
(*   ShownInv    a page waits for one request, and its bubbles are the rows*)
(*               of its conversation and then that request's question and  *)
(*               answer.                                                   *)
(***************************************************************************)
EXTENDS Conversation, SequenceTheorems, TLAPS

RowSet == [role : {"user", "assistant"}, of : Requests]

BubbleSet == [role : {"user", "assistant"}, of : Requests \union {None}, texts : SUBSET Requests]

Reasons == {"none", "switch", "words", "reply", "miss", "agreed"}

ReqType ==
    [pc : ReqPlaces, sender : Pages \union {None}, conv : Convs \union {None},
     flag : {"none", "on", "off"}, text : SUBSET Keywords, loaded : Meta, local : Meta,
     written : BOOLEAN, history : Seq(RowSet), told : Modes, alone : BOOLEAN, why : Reasons]

PageType ==
    [conv : Convs \union {None}, toggle : BOOLEAN, busy : Requests \union {None},
     history : {"listing", "loading", "shown"}, early : BOOLEAN, bubbles : Seq(BubbleSet)]

StoreTypes ==
    /\ made \in Seq(Convs) /\ made # <<>>
    /\ rows \in [Convs -> Seq(RowSet)]
    /\ page \in [Pages -> PageType]

\* A conversation one of whose requests switched the search on.
Backed(c) == \E r \in Requests : Conv(r) = c /\ req[r].why # "none"

ReqTypes ==
    /\ meta \in [Convs -> Meta]
    /\ req \in [Requests -> ReqType]
    /\ \A r \in Requests : req[r].pc \in Inside \union {"posted"} => Conv(r) \in Convs
    /\ \A r \in Requests : req[r].pc = "toggle" => req[r].flag # "none"

CopiesBacked ==
    \A r \in Requests : req[r].pc \in Inside /\ req[r].local.mode = "on" => Backed(Conv(r))

NoReasonYet ==
    \A r \in Requests : req[r].pc \in {"idle", "create"} => req[r].why = "none"

ReqInv == ReqTypes /\ ConsentBehindOn /\ CopiesBacked /\ NoReasonYet

ConsentInv == StoreTypes /\ ReqInv

-----------------------------------------------------------------------------

\* The values a meta column can take.
LEMMA MetaValues ==
    /\ NoMeta \in Meta
    /\ \A m \in Meta, mode \in Modes : Switched(m, mode) \in Meta /\ Switched(m, mode).mode = mode
    /\ \A m \in Meta, r \in Requests : Missed(m, r) \in Meta
    /\ \A m \in Meta : [m EXCEPT !.misses = 0] \in Meta /\ [m EXCEPT !.misses = 0].mode = m.mode
<1>1. 0 \in 0..MissLimit - 1
  BY ConversationAssumption
<1>2. NoMeta \in Meta
  BY <1>1 DEF NoMeta, Meta, Modes
<1>3. ASSUME NEW m \in Meta, NEW mode \in Modes
      PROVE  Switched(m, mode) \in Meta /\ Switched(m, mode).mode = mode
  BY DEF Switched, Meta
<1>4. ASSUME NEW m \in Meta
      PROVE  [m EXCEPT !.misses = 0] \in Meta /\ [m EXCEPT !.misses = 0].mode = m.mode
  BY <1>1 DEF Meta
<1>5. ASSUME NEW m \in Meta, NEW r \in Requests PROVE Missed(m, r) \in Meta
  <2>1. CASE m.mode = "on"
    BY <2>1 DEF Missed
  <2>2. CASE m.mode # "on" /\ m.misses + 1 >= MissLimit
    BY <2>2, <1>3, <1>4 DEF Missed, Modes
  <2>3. CASE m.mode # "on" /\ ~(m.misses + 1 >= MissLimit)
    <3>1. m.misses + 1 \in 0..MissLimit - 1
      BY <2>3, ConversationAssumption DEF Meta
    <3> QED
      BY <2>3, <3>1 DEF Missed, Meta, Modes
  <2> QED
    BY <2>1, <2>2, <2>3
<1> QED
  BY <1>2, <1>3, <1>4, <1>5

\* A request before it is made.
LEMMA NoRequestTyped == NoRequest \in ReqType /\ NoRequest.why = "none"
  BY MetaValues DEF NoRequest, ReqType, ReqPlaces, Reasons, Modes, Keywords

\* No request, no consent.
LEMMA ConsentInit == ChatInit => ConsentInv
<1> SUFFICES ASSUME ChatInit PROVE ConsentInv
  OBVIOUS
<1>1. StoreTypes
  <2>1. (CHOOSE c \in Convs : TRUE) \in Convs
    BY ConversationAssumption
  <2> QED
    BY <2>1 DEF ChatInit, StoreTypes, PageType
<1>2. ReqTypes
  BY NoRequestTyped, MetaValues DEF ChatInit, ReqTypes, NoRequest, Inside
<1>3. ConsentBehindOn /\ CopiesBacked /\ NoReasonYet
  BY DEF ChatInit, ConsentBehindOn, CopiesBacked, NoReasonYet, NoRequest, NoMeta, Inside
<1> QED
  BY <1>1, <1>2, <1>3 DEF ConsentInv, ReqInv

\* One request goes on, and writes the column of its conversation or nothing.
LEMMA RequestStep ==
    ASSUME ReqInv, NEW r \in Requests, NEW n \in ReqType,
           req' = [req EXCEPT ![r] = n],
           req[r].why # "none" => n.why # "none" /\ n.conv = Conv(r),
           n.pc \in Inside \union {"posted"} => n.conv \in Convs,
           n.pc \in {"idle", "create"} => n.why = "none",
           n.pc = "toggle" => n.flag # "none",
           n.pc \in Inside /\ n.local.mode = "on" => n.why # "none" \/ Backed(n.conv),
           NEW m \in Meta,
           meta' = meta \/ meta' = [meta EXCEPT ![n.conv] = m],
           m.mode = "on" => n.why # "none" \/ Backed(n.conv)
    PROVE  ReqInv'
<1>1. \A c : Backed(c) => Backed(c)'
  BY DEF Backed, Conv, ReqInv, ReqTypes
<1>2. n.why # "none" => Backed(n.conv)'
  BY DEF Backed, Conv, ReqInv, ReqTypes
<1>3. ReqTypes'
  BY DEF ReqInv, ReqTypes, Conv, Inside
<1>4. ConsentBehindOn'
  <2> SUFFICES ASSUME NEW c \in Convs, meta'[c].mode = "on" PROVE Backed(c)'
    BY DEF ConsentBehindOn, Backed
  <2>1. CASE meta'[c] = meta[c]
    BY <1>1, <2>1 DEF ReqInv, ConsentBehindOn, Backed
  <2>2. CASE c = n.conv /\ meta'[c] = m
    BY <1>1, <1>2, <2>2
  <2> QED
    BY <2>1, <2>2 DEF ReqInv, ReqTypes
<1>5. CopiesBacked'
  <2> SUFFICES ASSUME NEW q \in Requests, (req[q].pc \in Inside)', (req[q].local.mode = "on")'
               PROVE  Backed(Conv(q))'
    BY DEF CopiesBacked
  <2>1. CASE q = r
    <3>1. Conv(q)' = n.conv
      BY <2>1 DEF ReqInv, ReqTypes, Conv
    <3>2. n.why # "none" \/ Backed(n.conv)
      BY <2>1 DEF ReqInv, ReqTypes, Inside
    <3>3. Backed(n.conv)'
      BY <1>1, <1>2, <3>2
    <3> QED
      BY <3>1, <3>3 DEF Backed
  <2>2. CASE q # r
    <3>1. Conv(q)' = Conv(q) /\ Backed(Conv(q))
      BY <2>2 DEF ReqInv, ReqTypes, CopiesBacked, Conv, Inside
    <3>2. Backed(Conv(q))
      BY <3>1
    <3> DEFINE c == Conv(q)
    <3>3. Backed(c) => \E x \in Requests : Conv(x)' = c /\ (req[x].why # "none")'
      BY DEF Backed, Conv, ReqInv, ReqTypes
    <3> QED
      BY <3>1, <3>2, <3>3 DEF Backed
  <2> QED
    BY <2>1, <2>2
<1>6. NoReasonYet'
  BY DEF ReqInv, ReqTypes, NoReasonYet
<1> QED
  BY <1>3, <1>4, <1>5, <1>6 DEF ReqInv

\* Of a request that ends, only that it consented is kept.
LEMMA FinishStep ==
    ASSUME ReqInv, NEW r \in Requests, NEW place \in Ended, Finish(r, place), meta' = meta
    PROVE  ReqInv'
<1> DEFINE n == [NoRequest EXCEPT
                    !.pc = place, !.sender = req[r].sender, !.conv = Conv(r),
                    !.alone = req[r].alone /\ req[r].sender = None, !.told = req[r].told,
                    !.why = IF req[r].why = "none" THEN "none" ELSE "agreed"]
<1>1. (req[r].alone /\ req[r].sender = None) \in BOOLEAN
  OBVIOUS
<1>2. n \in ReqType
  <2>1. /\ req[r].sender \in Pages \union {None} /\ Conv(r) \in Convs \union {None}
        /\ req[r].told \in Modes /\ place \in ReqPlaces
    BY DEF ReqInv, ReqTypes, ReqType, ReqPlaces, Conv
  <2>2. (IF req[r].why = "none" THEN "none" ELSE "agreed") \in Reasons
    BY DEF Reasons
  <2> QED
    BY <1>1, <2>1, <2>2, NoRequestTyped DEF ReqType
<1>3. n.pc = place /\ n.conv = Conv(r) /\ (req[r].why # "none" => n.why # "none")
  BY DEF NoRequest
<1>4. req' = [req EXCEPT ![r] = n]
  BY DEF Finish
<1>5. place \notin Inside \union {"posted", "idle", "create", "toggle"}
  BY DEF Inside, Ended
<1>6. NoMeta \in Meta /\ NoMeta.mode # "on"
  BY MetaValues DEF NoMeta
<1> HIDE DEF n
<1> QED
  BY <1>2, <1>3, <1>4, <1>5, <1>6, RequestStep

\* A request on its way that writes the copy it works on.
LEMMA WriteStep ==
    ASSUME ReqInv, NEW r \in Requests, req[r].pc \in Inside, NEW n \in ReqType,
           req' = [req EXCEPT ![r] = n],
           n.conv = Conv(r), n.pc \in Inside, n.pc = "toggle" => n.flag # "none",
           NEW new \in Meta, n.local = new,
           req[r].why # "none" => n.why # "none",
           new.mode = "on" => n.why # "none" \/ Backed(Conv(r)),
           meta' \in {meta, StoreMeta(r, new)}
    PROVE  ReqInv'
<1>1. Conv(r) \in Convs
  BY DEF ReqInv, ReqTypes
<1>2. meta' = meta \/ meta' = [meta EXCEPT ![n.conv] = new]
  BY DEF StoreMeta
<1>3. n.pc \notin {"idle", "create"}
  BY DEF Inside
<1> QED
  BY <1>1, <1>2, <1>3, RequestStep

\* What a changed and assigned dictionary makes of a request.
LEMMA ChangedTyped ==
    ASSUME ReqInv, NEW r \in Requests, NEW new \in Meta, NEW place \in Inside, NEW why \in Reasons
    PROVE  LET n == Changed(r, new, place, why)
           IN /\ n \in ReqType /\ n.conv = Conv(r) /\ n.pc = place /\ n.local = new
              /\ n.why = IF new.mode = "on" THEN why ELSE req[r].why
<1> DEFINE n == Changed(r, new, place, why)
           reason == IF new.mode = "on" THEN why ELSE req[r].why
<1>1. req[r] \in ReqType /\ place \in ReqPlaces
  BY DEF ReqInv, ReqTypes, ReqPlaces
<1>2. reason \in Reasons
  BY <1>1 DEF ReqType
<1>3. n = [req[r] EXCEPT !.local = new, !.written = TRUE, !.pc = place, !.why = reason]
  BY DEF Changed
<1> HIDE DEF reason
<1>4. n \in ReqType /\ n.pc = place /\ n.local = new /\ n.why = reason /\ n.conv = Conv(r)
  BY <1>1, <1>2, <1>3 DEF ReqType, Conv
<1> QED
  BY <1>4 DEF reason

\* A request keeps its type when it is told its mode.
LEMMA ToldTyped ==
    ASSUME NEW n \in ReqType, NEW told \in Modes
    PROVE  LET k == [n EXCEPT !.told = told]
           IN k \in ReqType /\ k.conv = n.conv /\ k.pc = n.pc /\ k.local = n.local /\ k.why = n.why
  BY DEF ReqType

\* A request goes on without writing.
LEMMA MoveStep ==
    ASSUME ReqInv, NEW r \in Requests, req[r].pc \in Inside, NEW place \in Inside, NEW told \in Modes,
           place = "toggle" => req[r].flag # "none",
           req' = [req EXCEPT ![r] = [req[r] EXCEPT !.pc = place, !.told = told]],
           meta' = meta
    PROVE  ReqInv'
<1> DEFINE n == [req[r] EXCEPT !.pc = place, !.told = told]
<1>1. req' = [req EXCEPT ![r] = n]
  OBVIOUS
<1>2. n \in ReqType /\ n.conv = Conv(r) /\ n.pc = place /\ n.local = req[r].local
      /\ n.why = req[r].why /\ n.flag = req[r].flag
  BY DEF ReqInv, ReqTypes, ReqType, ReqPlaces, Conv
<1>3. req[r].local \in Meta
  BY DEF ReqInv, ReqTypes, ReqType
<1>4. req[r].local.mode = "on" => Backed(Conv(r))
  BY DEF ReqInv, CopiesBacked
<1> HIDE DEF n
<1>5. n.pc \notin {"idle", "create"} /\ (n.pc = "toggle" => n.flag # "none") /\ n.conv \in Convs
  BY <1>2 DEF Inside, ReqInv, ReqTypes
<1>6. req[r].why # "none" => n.why # "none" /\ n.conv = Conv(r)
  BY <1>2
<1>7. n.local.mode = "on" => n.why # "none" \/ Backed(n.conv)
  BY <1>2, <1>4
<1> QED
  BY <1>1, <1>2, <1>3, <1>5, <1>6, <1>7, RequestStep

-----------------------------------------------------------------------------
(* The steps of the endpoint.                                              *)

\* A request that changes its dictionary to new, assigns it and goes on.
LEMMA ChangeStep ==
    ASSUME ReqInv, NEW r \in Requests, req[r].pc \in Inside, NEW new \in Meta,
           NEW place \in Inside \ {"toggle"}, NEW why \in Reasons,
           why = "none" => new.mode = req[r].local.mode /\ why = req[r].why,
           meta' = StoreMeta(r, new),
           \/ req' = [req EXCEPT ![r] = Changed(r, new, place, why)]
           \/ req' = [req EXCEPT ![r] = [Changed(r, new, place, why) EXCEPT !.told = new.mode]]
    PROVE  ReqInv'
<1> DEFINE k == Changed(r, new, place, why)
           t == [k EXCEPT !.told = new.mode]
<1>1. new.mode \in Modes
  BY DEF Meta
<1>2. k \in ReqType /\ k.conv = Conv(r) /\ k.pc = place /\ k.local = new
      /\ k.why = IF new.mode = "on" THEN why ELSE req[r].why
  BY ChangedTyped
<1> HIDE DEF k
<1>3. t \in ReqType /\ t.conv = Conv(r) /\ t.pc = place /\ t.local = new /\ t.why = k.why
  BY <1>1, <1>2, ToldTyped
<1> HIDE DEF t
<1>4. new.mode = "on" => why # "none" \/ Backed(Conv(r))
  BY DEF ReqInv, CopiesBacked
<1>5. req[r].why # "none" => k.why # "none"
  BY <1>2
<1>6. req' = [req EXCEPT ![r] = k] \/ req' = [req EXCEPT ![r] = t]
  BY DEF k, t
<1>7. CASE req' = [req EXCEPT ![r] = k]
  BY <1>2, <1>4, <1>5, <1>7, WriteStep
<1>8. CASE req' = [req EXCEPT ![r] = t]
  BY <1>2, <1>3, <1>4, <1>5, <1>8, WriteStep
<1> QED
  BY <1>6, <1>7, <1>8

\* What a request on its way holds.
LEMMA OnItsWay ==
    ASSUME ReqInv, NEW r \in Requests
    PROVE  /\ req[r] \in ReqType /\ req[r].local \in Meta /\ req[r].why \in Reasons
           /\ req[r].local.mode \in Modes
  BY DEF ReqInv, ReqTypes, ReqType, Meta

\* The client's switch.
LEMMA ToggleStep ==
    ASSUME ReqInv, NEW r \in Requests, ApplyToggle(r) PROVE ReqInv'
<1> DEFINE new == Switched(req[r].local, req[r].flag)
           place == Following(r, new, FALSE)
<1>1. req[r].pc \in Inside /\ req[r].flag \in Modes
  BY DEF ApplyToggle, Inside, ReqInv, ReqTypes, ReqType, Modes
<1>2. new \in Meta
  BY <1>1, OnItsWay, MetaValues
<1>3. place \in Inside \ {"toggle"}
  BY DEF Following, Inside
<1>4. meta' = StoreMeta(r, new) /\ req' = [req EXCEPT ![r] = Changed(r, new, place, "switch")]
  BY DEF ApplyToggle
<1>5. "switch" \in Reasons /\ "switch" # "none"
  BY DEF Reasons
<1> HIDE DEF new, place
<1> QED
  BY <1>1, <1>2, <1>3, <1>4, <1>5, ChangeStep

\* The words that ask for a search.
LEMMA KeywordStep ==
    ASSUME ReqInv, NEW r \in Requests, ApplyKeyword(r) PROVE ReqInv'
<1> DEFINE new == Switched(req[r].local, "on")
<1>1. req[r].pc \in Inside
  BY DEF ApplyKeyword, Inside
<1>2. new \in Meta
  BY OnItsWay, MetaValues DEF Modes
<1>3. meta' = StoreMeta(r, new) /\ req' = [req EXCEPT ![r] = Changed(r, new, "retrieve", "words")]
  BY DEF ApplyKeyword
<1>4. "words" \in Reasons /\ "words" # "none" /\ "retrieve" \in Inside \ {"toggle"}
  BY DEF Reasons, Inside
<1> HIDE DEF new
<1> QED
  BY <1>1, <1>2, <1>3, <1>4, ChangeStep

\* The reply to the question put to the user.
LEMMA ReplyStep ==
    ASSUME ReqInv, NEW r \in Requests, TakeReply(r) PROVE ReqInv'
<1> DEFINE new == Replied(req[r].local, req[r].text)
<1>1. req[r].pc \in Inside
  BY DEF TakeReply, Inside
<1>2. new \in Meta
  BY OnItsWay, MetaValues DEF Replied, Modes
<1>3. /\ meta' = StoreMeta(r, new)
      /\ req' = [req EXCEPT ![r] = [Changed(r, new, "answer", "reply") EXCEPT !.told = new.mode]]
  BY DEF TakeReply
<1>4. "reply" \in Reasons /\ "reply" # "none" /\ "answer" \in Inside \ {"toggle"}
  BY DEF Reasons, Inside
<1> HIDE DEF new
<1> QED
  BY <1>1, <1>2, <1>3, <1>4, ChangeStep

\* A request whose retrieval does not count.
LEMMA UncountedStep ==
    ASSUME ReqInv, NEW r \in Requests, req[r].pc \in Inside, Uncounted(r) PROVE ReqInv'
<1>1. req' = [req EXCEPT ![r] = [req[r] EXCEPT !.pc = "answer", !.told = req[r].local.mode]]
  BY DEF Uncounted, ReqInv, ReqTypes
<1>2. "answer" \in Inside /\ "answer" # "toggle"
  BY DEF Inside
<1>3. meta' = meta
  BY DEF Uncounted
<1>4. req[r].local.mode \in Modes
  BY OnItsWay
<1> QED
  BY <1>1, <1>2, <1>3, <1>4, MoveStep

\* A miss, chunks, or neither.
LEMMA RetrieveStep ==
    ASSUME ReqInv, NEW r \in Requests, Retrieve(r) PROVE ReqInv'
<1>1. req[r].pc \in Inside /\ "answer" \in Inside \ {"toggle"}
  BY DEF Retrieve, Inside
<1>2. CASE Uncounted(r)
  BY <1>1, <1>2, UncountedStep
<1>3. CASE Miss(r) /\ ~Uncounted(r)
  <2> DEFINE new == Missed(req[r].local, r)
  <2>1. new \in Meta
    BY OnItsWay, MetaValues
  <2>2. /\ meta' = StoreMeta(r, new)
        /\ req' = [req EXCEPT ![r] = [Changed(r, new, "answer", "miss") EXCEPT !.told = new.mode]]
    BY <1>3 DEF Miss
  <2>3. "miss" \in Reasons /\ "miss" # "none"
    BY DEF Reasons
  <2> HIDE DEF new
  <2> QED
    BY <1>1, <2>1, <2>2, <2>3, ChangeStep
<1>4. CASE FoundChunks(r) /\ ~Uncounted(r)
  <2> DEFINE new == [req[r].local EXCEPT !.misses = 0]
  <2>1. new \in Meta /\ new.mode = req[r].local.mode
    BY OnItsWay, MetaValues
  <2>2. /\ meta' = StoreMeta(r, new)
        /\ req' = [req EXCEPT ![r] = [Changed(r, new, "answer", req[r].why) EXCEPT !.told = new.mode]]
    BY <1>4 DEF FoundChunks
  <2>3. req[r].why \in Reasons
    BY OnItsWay
  <2> HIDE DEF new
  <2> QED
    BY <1>1, <2>1, <2>2, <2>3, ChangeStep
<1> QED
  BY <1>2, <1>3, <1>4 DEF Retrieve

\* The question is saved, and the request turns to its copy.
LEMMA QuestionStep ==
    ASSUME ReqInv, NEW r \in Requests, SaveUserMessage(r) PROVE ReqInv'
<1> DEFINE place == Following(r, req[r].local, TRUE)
<1>1. req[r].pc \in Inside /\ meta' = meta
  BY DEF SaveUserMessage, Inside
<1>2. place \in Inside /\ (place = "toggle" => req[r].flag # "none")
  BY DEF Following, Inside
<1>3. req[r] \in ReqType /\ req[r].told \in Modes
  BY OnItsWay DEF ReqType
<1>4. req' = [req EXCEPT ![r] = [req[r] EXCEPT !.pc = place]]
  BY DEF SaveUserMessage, Goto
<1> HIDE DEF place
<1>5. [req[r] EXCEPT !.pc = place] = [req[r] EXCEPT !.pc = place, !.told = req[r].told]
  BY <1>3 DEF ReqType
<1>6. req' = [req EXCEPT ![r] = [req[r] EXCEPT !.pc = place, !.told = req[r].told]]
  BY <1>4, <1>5
<1> QED
  BY <1>1, <1>2, <1>3, <1>6, MoveStep

\* A request that ends, with its answer or without.
LEMMA EndStep ==
    ASSUME ReqInv, NEW r \in Requests, SaveAssistantMessage(r) \/ Drop(r) \/ Refuse(r)
    PROVE  ReqInv'
<1>1. PICK place \in Ended : Finish(r, place) /\ meta' = meta
  BY DEF SaveAssistantMessage, Drop, Refuse, Ended
<1> QED
  BY <1>1, FinishStep

\* A request reads its conversation; those it overlaps with learn that they are not
\* alone.
LEMMA ValidateStep ==
    ASSUME ReqInv, StoreTypes, NEW r \in Requests, Validate(r) PROVE ReqInv'
<1> DEFINE n == [req[r] EXCEPT !.pc = "question", !.loaded = meta[Conv(r)],
                            !.local = meta[Conv(r)], !.history = HistoryOf(rows[Conv(r)]),
                            !.alone = Overlapping(r) = {}]
           others == [q \in Requests |->
                         IF q \in Overlapping(r) THEN [req[q] EXCEPT !.alone = FALSE] ELSE req[q]]
<1>1. Conv(r) \in Convs /\ meta[Conv(r)] \in Meta
  BY DEF Validate, ReqInv, ReqTypes
<1>2. HistoryOf(rows[Conv(r)]) \in Seq(RowSet)
  <2>1. rows[Conv(r)] \in Seq(RowSet)
    BY <1>1 DEF StoreTypes
  <2> DEFINE s == rows[Conv(r)]
             n0 == IF HistoryLimit < Len(s) THEN HistoryLimit ELSE Len(s)
  <2>2. n0 \in 0..Len(s)
    BY <2>1, ConversationAssumption
  <2>3. SubSeq(s, 1, n0) \in Seq(RowSet)
    BY <2>1, <2>2
  <2> QED
    BY <2>3 DEF HistoryOf, FirstRows
<1>3. n \in ReqType /\ n.conv = Conv(r) /\ n.pc = "question" /\ n.local = meta[Conv(r)]
      /\ n.why = req[r].why
  BY <1>1, <1>2, OnItsWay DEF ReqType, ReqPlaces, Inside, Conv
<1>4. ASSUME NEW q \in Requests \ {r}
      PROVE  /\ req'[q] \in ReqType /\ req'[q].conv = Conv(q) /\ req'[q].pc = req[q].pc
             /\ req'[q].local = req[q].local /\ req'[q].why = req[q].why
             /\ req'[q].flag = req[q].flag
  BY OnItsWay DEF Validate, ReqType, Conv
<1>5. req'[r] = n /\ DOMAIN req' = Requests /\ req' = [q \in Requests |-> req'[q]] /\ meta' = meta
  BY DEF Validate
<1> HIDE DEF n
<1>6. req' \in [Requests -> ReqType]
  BY <1>3, <1>4, <1>5
<1>7. \A q \in Requests : Conv(q)' = Conv(q) /\ req'[q].why = req[q].why
  BY <1>3, <1>4, <1>5 DEF Conv
<1>8. \A c : Backed(c) => Backed(c)'
  BY <1>7 DEF Backed
<1>9. ReqTypes'
  BY <1>1, <1>3, <1>4, <1>5, <1>6, <1>7 DEF ReqTypes, ReqInv
<1>10. ConsentBehindOn'
  BY <1>5, <1>8 DEF ReqInv, ConsentBehindOn, Backed
<1>11. CopiesBacked'
  <2> SUFFICES ASSUME NEW q \in Requests, (req[q].pc \in Inside)', (req[q].local.mode = "on")'
               PROVE  Backed(Conv(q))'
    BY DEF CopiesBacked
  <2>1. Backed(Conv(q))
    BY <1>1, <1>3, <1>4, <1>5 DEF ReqInv, CopiesBacked, ConsentBehindOn, Backed
  <2> DEFINE c == Conv(q)
  <2>2. Backed(c) => \E x \in Requests : Conv(x)' = c /\ (req[x].why # "none")'
    BY <1>7 DEF Backed
  <2> QED
    BY <1>7, <2>1, <2>2 DEF Backed
<1>12. NoReasonYet'
  BY <1>3, <1>4, <1>5 DEF NoReasonYet, ReqInv
<1> QED
  BY <1>9, <1>10, <1>11, <1>12 DEF ReqInv

\* A client sends a message.
LEMMA SendStep ==
    ASSUME ReqInv, StoreTypes, NEW r \in Requests, NEW text \in Texts,
           ApiSend(r, text) \/ \E p \in Pages, toggle \in BOOLEAN : Submit(p, r, text, toggle)
    PROVE  ReqInv'
<1>1. text \in SUBSET Keywords
  BY ConversationAssumption
<1>2. req[r].pc = "idle" /\ req[r].why = "none" /\ meta' = meta
  BY DEF ApiSend, Submit, IsNext, ReqInv, NoReasonYet
<1>3. CASE ApiSend(r, text)
  <2> DEFINE n == [NoRequest EXCEPT !.text = text, !.conv = made[Len(made)], !.pc = "posted"]
  <2>1. made[Len(made)] \in Convs
    BY DEF StoreTypes
  <2>2. n \in ReqType
    BY <1>1, <2>1, NoRequestTyped DEF ReqType, ReqPlaces
  <2>3. n.pc = "posted" /\ n.conv \in Convs /\ n.why = "none"
    BY <2>1 DEF NoRequest
  <2>4. req' = [req EXCEPT ![r] = n]
    BY <1>3 DEF ApiSend
  <2>5. NoMeta \in Meta /\ NoMeta.mode # "on" /\ "posted" \notin Inside
    BY MetaValues DEF NoMeta, Inside
  <2> HIDE DEF n
  <2> QED
    BY <1>2, <2>2, <2>3, <2>4, <2>5, RequestStep
<1>4. CASE \E p \in Pages, toggle \in BOOLEAN : Submit(p, r, text, toggle)
  <2>1. PICK p \in Pages, toggle \in BOOLEAN : Submit(p, r, text, toggle)
    BY <1>4
  <2> DEFINE n == [NoRequest EXCEPT
                     !.sender = p, !.text = text, !.conv = page[p].conv,
                     !.flag = IF toggle THEN "on" ELSE "off",
                     !.pc = IF page[p].conv # None THEN "posted" ELSE "create"]
  <2>2. page[p].conv \in Convs \union {None}
    BY DEF StoreTypes, PageType
  <2>3. n \in ReqType
    BY <1>1, <2>2, NoRequestTyped DEF ReqType, ReqPlaces
  <2>4. n.pc \in {"posted", "create"} /\ (n.pc = "posted" => n.conv \in Convs) /\ n.why = "none"
    BY <2>2 DEF NoRequest
  <2>5. req' = [req EXCEPT ![r] = n]
    BY <2>1 DEF Submit
  <2>6. NoMeta \in Meta /\ NoMeta.mode # "on" /\ "posted" \notin Inside /\ "create" \notin Inside
    BY MetaValues DEF NoMeta, Inside
  <2> HIDE DEF n
  <2> QED
    BY <1>2, <2>3, <2>4, <2>5, <2>6, RequestStep
<1> QED
  BY <1>3, <1>4

\* The page has its conversation made.
LEMMA CreateStep ==
    ASSUME ReqInv, NEW r \in Requests, CreateConversation(r) PROVE ReqInv'
<1>1. PICK c \in Convs : req' = [req EXCEPT ![r].conv = c, ![r].pc = "posted"]
  BY DEF CreateConversation
<1>2. req[r].pc = "create" /\ req[r].why = "none" /\ meta' = meta
  BY DEF CreateConversation, ReqInv, NoReasonYet
<1> DEFINE n == [req[r] EXCEPT !.conv = c, !.pc = "posted"]
<1>3. n \in ReqType /\ n.pc = "posted" /\ n.conv = c /\ n.why = "none"
  BY <1>2, OnItsWay DEF ReqType, ReqPlaces
<1>4. req' = [req EXCEPT ![r] = n]
  BY <1>1 DEF ReqInv, ReqTypes
<1>5. NoMeta \in Meta /\ NoMeta.mode # "on" /\ "posted" \notin Inside
  BY MetaValues DEF NoMeta, Inside
<1> HIDE DEF n
<1> QED
  BY <1>2, <1>3, <1>4, <1>5, RequestStep

-----------------------------------------------------------------------------
(* The rows and the pages.                                                 *)

\* A page changes: it stays one.
LEMMA PageStepTyped ==
    ASSUME StoreTypes, NEW p \in Pages, NEW v \in PageType,
           page' = [page EXCEPT ![p] = v], made' = made, rows' = rows
    PROVE  StoreTypes'
  BY DEF StoreTypes

\* Messages and bubbles are added at the end.
LEMMA Appended ==
    ASSUME NEW S, NEW s \in Seq(S), NEW e \in S
    PROVE  Append(s, e) \in Seq(S) /\ Append(s, e) # <<>>
<1>1. Append(s, e) \in Seq(S) /\ Len(Append(s, e)) = Len(s) + 1 /\ Len(s) \in Nat
  OBVIOUS
<1>2. Len(Append(s, e)) # 0
  BY <1>1
<1>3. Len(<<>>) = 0
  OBVIOUS
<1> QED
  BY <1>1, <1>2, <1>3

\* A bubble of a question or an answer.
LEMMA BubbleTyped ==
    ASSUME NEW role \in {"user", "assistant"}, NEW r \in Requests \union {None}
    PROVE  Bubble(role, r) \in BubbleSet
  BY DEF Bubble, BubbleSet

\* The text that arrives goes to the last bubble.
LEMMA WrittenTyped ==
    ASSUME NEW bubbles \in Seq(BubbleSet), NEW r \in Requests
    PROVE  Written(bubbles, r) \in Seq(BubbleSet)
<1> DEFINE last == Len(bubbles)
<1>1. CASE last > 0 /\ bubbles[last].role = "assistant"
  <2>1. last \in 1..Len(bubbles) /\ bubbles[last] \in BubbleSet
    BY <1>1
  <2> DEFINE b == [bubbles[last] EXCEPT !.texts = @ \union {r}]
  <2>2. b \in BubbleSet
    BY <2>1 DEF BubbleSet
  <2>3. Written(bubbles, r) = [bubbles EXCEPT ![last] = b]
    BY <1>1 DEF Written
  <2> HIDE DEF b
  <2>4. [bubbles EXCEPT ![last] = b] \in Seq(BubbleSet)
    BY <2>1, <2>2
  <2> QED
    BY <2>3, <2>4
<1>2. CASE ~(last > 0 /\ bubbles[last].role = "assistant")
  BY <1>2 DEF Written
<1> QED
  BY <1>1, <1>2

\* The steps of the page.
LEMMA PageTyped ==
    ASSUME StoreTypes, NEW p \in Pages, PageStep(p) PROVE StoreTypes'
<1>1. page[p] \in PageType /\ made' = made /\ rows' = rows
  BY DEF StoreTypes, PageStep, ListConversations, ShowHistory, Receive, GiveUp
<1>2. CASE ListConversations(p)
  <2> DEFINE v == [page[p] EXCEPT !.history = "loading", !.conv = made[Len(made)]]
  <2>1. made[Len(made)] \in Convs
    BY DEF StoreTypes
  <2>2. v \in PageType
    BY <1>1, <2>1 DEF PageType
  <2>3. page' = [page EXCEPT ![p] = v]
    BY <1>2 DEF ListConversations, StoreTypes
  <2> QED
    BY <1>1, <2>2, <2>3, PageStepTyped
<1>3. CASE ShowHistory(p)
  <2>1. PICK c \in {made[i] : i \in DOMAIN made} :
           page' = [page EXCEPT ![p].history = "shown",
                        ![p].bubbles = [i \in DOMAIN rows[c] |->
                            [role |-> rows[c][i].role, of |-> rows[c][i].of,
                             texts |-> IF rows[c][i].role = "assistant" THEN {rows[c][i].of} ELSE {}]]]
    BY <1>3 DEF ShowHistory
  <2>2. rows[c] \in Seq(RowSet)
    BY DEF StoreTypes
  <2> DEFINE b == [i \in DOMAIN rows[c] |->
                      [role |-> rows[c][i].role, of |-> rows[c][i].of,
                       texts |-> IF rows[c][i].role = "assistant" THEN {rows[c][i].of} ELSE {}]]
             v == [page[p] EXCEPT !.history = "shown", !.bubbles = b]
  <2>3. b \in Seq(BubbleSet)
    <3>1. DOMAIN rows[c] = 1..Len(rows[c]) /\ Len(rows[c]) \in Nat
      BY <2>2
    <3>2. \A i \in 1..Len(rows[c]) : b[i] \in BubbleSet
      <4> SUFFICES ASSUME NEW i \in 1..Len(rows[c]) PROVE b[i] \in BubbleSet
        OBVIOUS
      <4>1. rows[c][i] \in RowSet
        BY <2>2, <3>1
      <4>2. rows[c][i].role \in {"user", "assistant"} /\ rows[c][i].of \in Requests
        BY <4>1 DEF RowSet
      <4> QED
        BY <3>1, <4>2 DEF BubbleSet
    <3> HIDE DEF b
    <3>3. b \in [1..Len(rows[c]) -> BubbleSet]
      BY <3>1, <3>2 DEF b
    <3> QED
      BY <3>1, <3>3, SeqDef
  <2> HIDE DEF b
  <2>4. v \in PageType
    BY <1>1, <2>3 DEF PageType
  <2>5. page' = [page EXCEPT ![p] = v]
    BY <2>1 DEF StoreTypes, b
  <2> QED
    BY <1>1, <2>4, <2>5, PageStepTyped
<1>4. CASE Receive(p)
  <2> DEFINE r == page[p].busy
             v == [page[p] EXCEPT !.busy = None, !.toggle = req[r].told = "on",
                                  !.bubbles = Written(page[p].bubbles, r)]
  <2>1. r \in Requests
    BY <1>1, <1>4 DEF Receive, PageType
  <2>2. page[p].bubbles \in Seq(BubbleSet)
    BY <1>1 DEF PageType
  <2>3. Written(page[p].bubbles, r) \in Seq(BubbleSet)
    BY <2>1, <2>2, WrittenTyped
  <2>4. v \in PageType
    BY <1>1, <2>3 DEF PageType
  <2>5. page' = [page EXCEPT ![p] = v]
    BY <1>4 DEF Receive, StoreTypes
  <2> QED
    BY <1>1, <2>4, <2>5, PageStepTyped
<1>5. CASE GiveUp(p)
  <2>1. PICK bubble \in {NothingShown, ErrorShown} :
           page' = [page EXCEPT ![p].busy = None, ![p].bubbles = @ \o bubble]
    BY <1>5 DEF GiveUp
  <2>2. page[p].bubbles \in Seq(BubbleSet)
    BY <1>1 DEF PageType
  <2>3. bubble \in Seq(BubbleSet)
    <3>1. Bubble("assistant", None) \in BubbleSet
      BY BubbleTyped
    <3>2. \A e \in BubbleSet : <<e>> \in Seq(BubbleSet)
      OBVIOUS
    <3>3. ErrorShown \in Seq(BubbleSet)
      BY <3>1, <3>2 DEF ErrorShown
    <3>4. NothingShown \in Seq(BubbleSet)
      BY EmptySeq DEF NothingShown
    <3> QED
      BY <3>3, <3>4
  <2> DEFINE b == page[p].bubbles \o bubble
             v == [page[p] EXCEPT !.busy = None, !.bubbles = b]
  <2>4. b \in Seq(BubbleSet)
    BY <2>2, <2>3
  <2>5. v \in PageType
    BY <1>1, <2>4 DEF PageType
  <2>6. page' = [page EXCEPT ![p] = v]
    BY <2>1 DEF StoreTypes
  <2> QED
    BY <1>1, <2>5, <2>6, PageStepTyped
<1> QED
  BY <1>2, <1>3, <1>4, <1>5 DEF PageStep

\* A page sends a message.
LEMMA SubmitTyped ==
    ASSUME StoreTypes, NEW r \in Requests, NEW text, NEW p \in Pages, NEW toggle \in BOOLEAN,
           Submit(p, r, text, toggle)
    PROVE  StoreTypes'
<1> DEFINE more == IF page[p].conv # None THEN <<Bubble("user", r), Bubble("assistant", r)>>
                   ELSE <<Bubble("user", r)>>
           early == page[p].early \/ page[p].history # "shown"
           b == page[p].bubbles \o more
           v == [page[p] EXCEPT !.busy = r, !.toggle = toggle, !.early = early, !.bubbles = b]
<1>1. page[p] \in PageType /\ page[p].bubbles \in Seq(BubbleSet)
  BY DEF StoreTypes, PageType
<1>2. more \in Seq(BubbleSet)
  <2>1. Bubble("user", r) \in BubbleSet /\ Bubble("assistant", r) \in BubbleSet
    BY BubbleTyped
  <2> QED
    BY <2>1
<1> HIDE DEF more
<1>3. b \in Seq(BubbleSet)
  BY <1>1, <1>2
<1>4. early \in BOOLEAN
  BY <1>1 DEF PageType
<1>5. page' = [page EXCEPT ![p] = v] /\ made' = made /\ rows' = rows
  BY DEF Submit, StoreTypes, more
<1> HIDE DEF b, early
<1>6. v \in PageType
  BY <1>1, <1>3, <1>4 DEF PageType
<1> QED
  BY <1>5, <1>6, PageStepTyped

\* A message is saved.
LEMMA RowTyped ==
    ASSUME ReqInv, StoreTypes, NEW r \in Requests, SaveUserMessage(r) \/ SaveAssistantMessage(r)
    PROVE  StoreTypes'
<1>1. Conv(r) \in Convs
  BY DEF SaveUserMessage, SaveAssistantMessage, Inside, ReqInv, ReqTypes
<1>2. PICK role \in {"user", "assistant"} :
         rows' = [rows EXCEPT ![Conv(r)] = Append(@, Row(role, r))]
  BY DEF SaveUserMessage, SaveAssistantMessage
<1>3. rows[Conv(r)] \in Seq(RowSet) /\ Row(role, r) \in RowSet
  BY <1>1 DEF StoreTypes, Row, RowSet
<1>4. Append(rows[Conv(r)], Row(role, r)) \in Seq(RowSet)
  BY <1>3
<1>5. made' = made /\ page' = page
  BY DEF SaveUserMessage, SaveAssistantMessage
<1> QED
  BY <1>1, <1>2, <1>4, <1>5 DEF StoreTypes

\* A conversation is made.
LEMMA MadeTyped ==
    ASSUME ReqInv, StoreTypes, NEW r \in Requests, CreateConversation(r) PROVE StoreTypes'
<1> DEFINE s == req[r].sender
<1>1. PICK c \in Convs :
         /\ made' = Append(made, c)
         /\ page' = [page EXCEPT ![s].conv = c, ![s].bubbles = Append(@, Bubble("assistant", r))]
  BY DEF CreateConversation
<1>2. made' \in Seq(Convs) /\ made' # <<>> /\ rows' = rows
  BY <1>1, Appended DEF StoreTypes, CreateConversation
<1>3. CASE s \in Pages
  <2> DEFINE b == Append(page[s].bubbles, Bubble("assistant", r))
             v == [page[s] EXCEPT !.conv = c, !.bubbles = b]
  <2>1. page[s] \in PageType /\ page[s].bubbles \in Seq(BubbleSet)
    BY <1>3 DEF StoreTypes, PageType
  <2>2. b \in Seq(BubbleSet)
    BY <2>1, BubbleTyped, Appended
  <2>3. page' = [page EXCEPT ![s] = v]
    BY <1>1, <1>3 DEF StoreTypes
  <2> HIDE DEF b
  <2>4. v \in PageType
    BY <2>1, <2>2 DEF PageType
  <2> QED
    BY <1>2, <1>3, <2>3, <2>4 DEF StoreTypes
<1>4. CASE s \notin Pages
  <2>1. page' = page
    BY <1>1, <1>4 DEF StoreTypes
  <2> QED
    BY <1>2, <2>1 DEF StoreTypes
<1> QED
  BY <1>3, <1>4

-----------------------------------------------------------------------------

\* Every step keeps the invariant.
LEMMA ConsentStep == ConsentInv /\ [ChatNext]_chatVars => ConsentInv'
<1> SUFFICES ASSUME ConsentInv, [ChatNext]_chatVars PROVE ConsentInv'
  OBVIOUS
<1> USE DEF ConsentInv
<1>1. CASE UNCHANGED chatVars
  <2>1. StoreTypes'
    BY <1>1 DEF chatVars, StoreTypes
  <2>2. ReqInv'
    BY <1>1 DEF chatVars, ReqInv, ReqTypes, ConsentBehindOn, CopiesBacked, NoReasonYet, Backed, Conv
  <2> QED
    BY <2>1, <2>2
<1>2. ASSUME NEW r \in Requests, Serve(r) PROVE ConsentInv'
  <2>1. CASE CreateConversation(r)
    BY <2>1, CreateStep, MadeTyped
  <2>2. CASE Validate(r)
    BY <2>2, ValidateStep DEF Validate, StoreTypes
  <2>3. CASE SaveUserMessage(r)
    BY <2>3, QuestionStep, RowTyped
  <2>4. CASE ApplyToggle(r)
    BY <2>4, ToggleStep DEF ApplyToggle, StoreTypes
  <2>5. CASE ApplyKeyword(r)
    BY <2>5, KeywordStep DEF ApplyKeyword, StoreTypes
  <2>6. CASE TakeReply(r)
    BY <2>6, ReplyStep DEF TakeReply, StoreTypes
  <2>7. CASE Retrieve(r)
    BY <2>7, RetrieveStep DEF Retrieve, StoreTypes
  <2>8. CASE SaveAssistantMessage(r)
    BY <2>8, EndStep, RowTyped
  <2> QED
    BY <1>2, <2>1, <2>2, <2>3, <2>4, <2>5, <2>6, <2>7, <2>8 DEF Serve
<1>3. ASSUME NEW r \in Requests, Refuse(r) \/ Drop(r) PROVE ConsentInv'
  BY <1>3, EndStep DEF Refuse, Drop, StoreTypes
<1>4. ASSUME NEW p \in Pages, PageStep(p) PROVE ConsentInv'
  <2>1. meta' = meta /\ req' = req
    BY <1>4 DEF PageStep, ListConversations, ShowHistory, Receive, GiveUp
  <2>2. ReqInv'
    BY <2>1 DEF ReqInv, ReqTypes, ConsentBehindOn, CopiesBacked, NoReasonYet, Backed, Conv
  <2> QED
    BY <1>4, <2>2, PageTyped
<1>5. ASSUME NEW r \in Requests, NEW text \in Texts, ApiSend(r, text) PROVE ConsentInv'
  BY <1>5, SendStep DEF ApiSend, StoreTypes
<1>6. ASSUME NEW r \in Requests, NEW text \in Texts, NEW p \in Pages, NEW toggle \in BOOLEAN,
             Submit(p, r, text, toggle)
      PROVE  ConsentInv'
  BY <1>6, SendStep, SubmitTyped
<1> QED
  BY <1>1, <1>2, <1>3, <1>4, <1>5, <1>6 DEF ChatNext

\* Whatever requests overwrite of each other's dictionary, the search is on in a
\* conversation only if one of its requests switched it on.
THEOREM ConsentHolds == ChatSpec => []ConsentBehindOn
<1>1. ConsentInv => ConsentBehindOn
  BY DEF ConsentInv, ReqInv
<1> QED
  BY <1>1, ConsentInit, ConsentStep, PTL DEF ChatSpec

\* Every variable of a conversation keeps its type.
THEOREM ChatTyped == ChatSpec => []ChatTypeOK
<1>1. ConsentInv => ChatTypeOK
  BY DEF ConsentInv, ReqInv, ReqTypes, StoreTypes, ChatTypeOK, ReqType, PageType, RowSet
<1> QED
  BY <1>1, ConsentInit, ConsentStep, PTL DEF ChatSpec

-----------------------------------------------------------------------------
(* What a request knows: SwitchDecides.                                    *)

\* The search was put to the user by a request.
Asked(m) == m.mode = "ask" => m.query # None

Unwritten(n) == ~n.written /\ n.local = n.loaded

\* What a request knows at each place.
Memo(n) ==
    /\ n.pc \in Inside => Asked(n.loaded) /\ Asked(n.local)
    /\ n.pc \in Inside \union {"create", "posted"} /\ n.sender = None => n.flag = "none"
    /\ n.pc \in {"create", "posted"} => ~n.written /\ n.why = "none"
    /\ n.pc \in {"question", "toggle"} => Unwritten(n) /\ n.why = "none"
    /\ n.pc = "keyword" => HasSearchKeyword(n.text)
    /\ n.pc = "reply" => n.flag = "none" /\ n.local.mode = "ask"
    /\ n.pc \in {"keyword", "reply"} /\ n.flag = "none" => Unwritten(n)
    /\ n.pc \in {"keyword", "reply", "retrieve"} =>
          n.local.misses = n.loaded.misses /\ n.why \in {"none", "switch", "words"}
    /\ n.pc = "retrieve" =>
          /\ n.flag = "off" /\ n.local.mode = "on" => HasSearchKeyword(n.text)
          /\ n.flag = "none" => Unwritten(n) \/ (n.written /\ n.local.mode = "on")
    /\ n.pc = "answer" =>
          /\ n.flag = "off" /\ n.told = "on" =>
                HasSearchKeyword(n.text) \/ n.loaded.misses = MissLimit - 1
          /\ n.why = "reply" => "no" \notin n.text /\ n.loaded.query # None

MemoInv == (\A c \in Convs : Asked(meta[c])) /\ \A r \in Requests : Memo(req[r])


\* What a request knows when it has ended, or is sent.
LEMMA MemoEnded ==
    ASSUME NEW n, n.pc \in Ended PROVE Memo(n)
  BY DEF Memo, Ended, Inside

\* One request goes on knowing what it has to, and what it writes has a question
\* where it asks one.
LEMMA MemoKept ==
    ASSUME MemoInv, ReqTypes, NEW r \in Requests, NEW n, Memo(n), req' = [req EXCEPT ![r] = n],
           meta' = meta \/ \E m : Asked(m) /\ meta' = StoreMeta(r, m)
    PROVE  MemoInv'
<1>1. \A q \in Requests : Memo(req'[q])
  BY DEF MemoInv, ReqTypes
<1>2. \A c \in Convs : Asked(meta'[c])
  BY DEF MemoInv, ReqTypes, StoreMeta
<1> QED
  BY <1>1, <1>2 DEF MemoInv

\* The switch.
LEMMA MemoToggle ==
    ASSUME MemoInv, ReqInv, NEW r \in Requests, ApplyToggle(r) PROVE MemoInv'
<1> DEFINE new == Switched(req[r].local, req[r].flag)
           n == Changed(r, new, Following(r, new, FALSE), "switch")
<1>1. req[r] \in ReqType /\ req[r].flag \in {"on", "off"} /\ req[r].pc = "toggle" /\ Memo(req[r])
  BY OnItsWay DEF ApplyToggle, ReqInv, ReqTypes, ReqType, MemoInv
<1>2. new \in Meta /\ new.mode = req[r].flag /\ new.misses = req[r].local.misses
  BY <1>1, OnItsWay DEF Switched, Meta, Modes
<1>3. Asked(new)
  BY <1>1, <1>2 DEF Asked
<1>4. req' = [req EXCEPT ![r] = n] /\ meta' = StoreMeta(r, new)
  BY DEF ApplyToggle
<1>5. Following(r, new, FALSE) = IF new.mode # "on" /\ HasSearchKeyword(req[r].text) THEN "keyword" ELSE "retrieve"
  BY <1>1, <1>2 DEF Following
<1> HIDE DEF new
<1>6. /\ n.pc = Following(r, new, FALSE) /\ n.local = new /\ n.loaded = req[r].loaded
      /\ n.flag = req[r].flag /\ n.text = req[r].text /\ n.sender = req[r].sender
      /\ n.why \in {"none", "switch"}
  BY <1>1 DEF Changed, ReqType, Memo
<1> HIDE DEF n
<1>7. Memo(n)
  BY <1>1, <1>2, <1>3, <1>5, <1>6 DEF Memo, Inside, Unwritten
<1> QED
  BY <1>3, <1>4, <1>7, MemoKept DEF ReqInv

\* The words.
LEMMA MemoKeyword ==
    ASSUME MemoInv, ReqInv, NEW r \in Requests, ApplyKeyword(r) PROVE MemoInv'
<1> DEFINE new == Switched(req[r].local, "on")
           n == Changed(r, new, "retrieve", "words")
<1>1. req[r] \in ReqType /\ req[r].pc = "keyword" /\ Memo(req[r])
  BY OnItsWay DEF ApplyKeyword, MemoInv
<1>2. new \in Meta /\ new.mode = "on" /\ new.misses = req[r].local.misses
  BY <1>1, OnItsWay DEF Switched, Meta, Modes
<1>3. Asked(new)
  BY <1>2 DEF Asked
<1>4. req' = [req EXCEPT ![r] = n] /\ meta' = StoreMeta(r, new)
  BY DEF ApplyKeyword
<1> HIDE DEF new
<1>5. /\ n.pc = "retrieve" /\ n.local = new /\ n.loaded = req[r].loaded /\ n.written
      /\ n.flag = req[r].flag /\ n.text = req[r].text /\ n.sender = req[r].sender
      /\ n.why = "words"
  BY <1>1, <1>2 DEF Changed, ReqType
<1> HIDE DEF n
<1>6. Memo(n)
  BY <1>1, <1>2, <1>3, <1>5 DEF Memo, Inside
<1> QED
  BY <1>3, <1>4, <1>6, MemoKept DEF ReqInv

\* The reply.
LEMMA MemoReply ==
    ASSUME MemoInv, ReqInv, NEW r \in Requests, TakeReply(r) PROVE MemoInv'
<1> DEFINE new == Replied(req[r].local, req[r].text)
           n == [Changed(r, new, "answer", "reply") EXCEPT !.told = new.mode]
<1>1. req[r] \in ReqType /\ req[r].pc = "reply" /\ Memo(req[r])
  BY OnItsWay DEF TakeReply, MemoInv
<1>2. new \in Meta /\ new.mode = IF ClassifyYesNo(req[r].text) THEN "on" ELSE "off"
  BY <1>1, OnItsWay DEF Switched, Replied, Meta, Modes
<1>3. Asked(new)
  BY <1>2 DEF Asked
<1>4. req' = [req EXCEPT ![r] = n] /\ meta' = StoreMeta(r, new)
  BY DEF TakeReply
<1> HIDE DEF new
<1>5. /\ n.pc = "answer" /\ n.local = new /\ n.loaded = req[r].loaded
      /\ n.flag = req[r].flag /\ n.text = req[r].text /\ n.sender = req[r].sender
      /\ n.why = IF new.mode = "on" THEN "reply" ELSE req[r].why
  BY <1>1 DEF Changed, ReqType
<1> HIDE DEF n
<1>6. req[r].flag = "none" /\ req[r].loaded.query # None /\ req[r].why # "reply"
      /\ Asked(req[r].loaded)
  BY <1>1 DEF Memo, Unwritten, Asked, Inside
<1>7. Memo(n)
  BY <1>1, <1>2, <1>3, <1>5, <1>6 DEF Memo, Inside, ClassifyYesNo
<1> QED
  BY <1>3, <1>4, <1>7, MemoKept DEF ReqInv

\* A miss, chunks, or neither.
LEMMA MemoRetrieve ==
    ASSUME MemoInv, ReqInv, NEW r \in Requests, Retrieve(r) PROVE MemoInv'
<1>1. req[r] \in ReqType /\ req[r].pc = "retrieve" /\ Memo(req[r]) /\ req[r].local \in Meta
  BY OnItsWay DEF Retrieve, MemoInv
<1>2. Asked(req[r].local) /\ Asked(req[r].loaded) /\ req[r].local.misses = req[r].loaded.misses
      /\ req[r].why # "reply"
      /\ (req[r].flag = "off" /\ req[r].local.mode = "on" => HasSearchKeyword(req[r].text))
  BY <1>1 DEF Memo, Inside
<1>3. CASE Uncounted(r)
  <2> DEFINE n == [req[r] EXCEPT !.pc = "answer", !.told = req[r].local.mode]
  <2>1. req' = [req EXCEPT ![r] = n] /\ meta' = meta
    BY <1>3 DEF Uncounted, ReqInv, ReqTypes
  <2>2. /\ n.pc = "answer" /\ n.local = req[r].local /\ n.loaded = req[r].loaded
        /\ n.flag = req[r].flag /\ n.text = req[r].text /\ n.sender = req[r].sender
        /\ n.why = req[r].why /\ n.told = req[r].local.mode
    BY <1>1 DEF ReqType
  <2> HIDE DEF n
  <2>3. Memo(n)
    BY <1>1, <1>2, <2>2 DEF Memo, Inside
  <2> QED
    BY <1>2, <2>1, <2>3, MemoKept DEF ReqInv
<1>4. CASE Miss(r) /\ ~Uncounted(r)
  <2> DEFINE new == Missed(req[r].local, r)
             n == [Changed(r, new, "answer", "miss") EXCEPT !.told = new.mode]
  <2>1. req' = [req EXCEPT ![r] = n] /\ meta' = StoreMeta(r, new) /\ new.mode # req[r].local.mode
    BY <1>4 DEF Miss
  <2>2. Asked(new) /\ (new.mode = "on" => req[r].local.misses = MissLimit - 1)
    BY <1>1, <1>2, <2>1, ConversationAssumption DEF Missed, Meta, Modes, Switched, Asked
  <2> HIDE DEF new
  <2>3. /\ n.pc = "answer" /\ n.local = new /\ n.loaded = req[r].loaded
        /\ n.flag = req[r].flag /\ n.text = req[r].text /\ n.sender = req[r].sender
        /\ n.why \in {"miss", req[r].why} /\ n.told = new.mode
    BY <1>1 DEF Changed, ReqType
  <2> HIDE DEF n
  <2>4. Memo(n)
    BY <1>1, <1>2, <2>2, <2>3 DEF Memo, Inside
  <2> QED
    BY <2>1, <2>2, <2>4, MemoKept DEF ReqInv
<1>5. CASE FoundChunks(r) /\ ~Uncounted(r)
  <2> DEFINE new == [req[r].local EXCEPT !.misses = 0]
             n == [Changed(r, new, "answer", req[r].why) EXCEPT !.told = new.mode]
  <2>1. req' = [req EXCEPT ![r] = n] /\ meta' = StoreMeta(r, new)
    BY <1>5 DEF FoundChunks
  <2>2. Asked(new) /\ new.mode = req[r].local.mode
    BY <1>1, <1>2 DEF Meta, Asked
  <2> HIDE DEF new
  <2>3. /\ n.pc = "answer" /\ n.local = new /\ n.loaded = req[r].loaded
        /\ n.flag = req[r].flag /\ n.text = req[r].text /\ n.sender = req[r].sender
        /\ n.why = req[r].why /\ n.told = new.mode
    BY <1>1 DEF Changed, ReqType
  <2> HIDE DEF n
  <2>4. Memo(n)
    BY <1>1, <1>2, <2>2, <2>3 DEF Memo, Inside
  <2> QED
    BY <2>1, <2>2, <2>4, MemoKept DEF ReqInv
<1> QED
  BY <1>3, <1>4, <1>5 DEF Retrieve

\* The question is saved.
LEMMA MemoQuestion ==
    ASSUME MemoInv, ReqInv, NEW r \in Requests, SaveUserMessage(r) PROVE MemoInv'
<1> DEFINE place == Following(r, req[r].local, TRUE)
           n == [req[r] EXCEPT !.pc = place]
<1>1. req[r] \in ReqType /\ req[r].pc = "question" /\ Memo(req[r])
  BY OnItsWay DEF SaveUserMessage, MemoInv
<1>2. req' = [req EXCEPT ![r] = n] /\ meta' = meta
  BY DEF SaveUserMessage, Goto, ReqInv, ReqTypes
<1>3. place = IF req[r].flag # "none" THEN "toggle"
              ELSE IF req[r].local.mode # "on" /\ HasSearchKeyword(req[r].text) THEN "keyword"
              ELSE IF req[r].local.mode = "ask" THEN "reply" ELSE "retrieve"
  BY DEF Following
<1> HIDE DEF place
<1>4. /\ n.pc = place /\ n.local = req[r].local /\ n.loaded = req[r].loaded
      /\ n.flag = req[r].flag /\ n.text = req[r].text /\ n.sender = req[r].sender
      /\ n.why = req[r].why /\ n.written = req[r].written
  BY <1>1 DEF ReqType
<1> HIDE DEF n
<1>5. /\ Asked(req[r].loaded) /\ Asked(req[r].local) /\ Unwritten(req[r]) /\ req[r].why = "none"
      /\ (req[r].sender = None => req[r].flag = "none")
  BY <1>1 DEF Memo, Inside
<1>6. Unwritten(n)
  BY <1>4, <1>5 DEF Unwritten
<1>7. Memo(n)
  BY <1>3, <1>4, <1>5, <1>6 DEF Memo, Inside, Unwritten
<1> QED
  BY <1>2, <1>5, <1>7, MemoKept DEF ReqInv

\* A request reads its conversation.
LEMMA MemoValidate ==
    ASSUME MemoInv, ReqInv, NEW r \in Requests, Validate(r) PROVE MemoInv'
<1>1. req[r] \in ReqType /\ req[r].pc = "posted" /\ Memo(req[r]) /\ meta' = meta
      /\ Conv(r) \in Convs /\ Asked(meta[Conv(r)])
  BY OnItsWay DEF Validate, MemoInv, ReqInv, ReqTypes
<1> DEFINE n == [req[r] EXCEPT !.pc = "question", !.loaded = meta[Conv(r)],
                            !.local = meta[Conv(r)], !.history = HistoryOf(rows[Conv(r)]),
                            !.alone = Overlapping(r) = {}]
<1>2. req'[r] = n
  BY DEF Validate
<1>3. /\ n.pc = "question" /\ n.local = meta[Conv(r)] /\ n.loaded = meta[Conv(r)]
      /\ n.flag = req[r].flag /\ n.sender = req[r].sender
      /\ n.why = req[r].why /\ n.written = req[r].written
  BY <1>1 DEF ReqType
<1> HIDE DEF n
<1>4. Memo(n)
  BY <1>1, <1>3 DEF Memo, Inside, Unwritten
<1>5. ASSUME NEW q \in Requests \ {r} PROVE Memo(req'[q])
  <2> DEFINE k == [req[q] EXCEPT !.alone = FALSE]
  <2>1. Memo(req[q]) /\ req[q] \in ReqType /\ req'[q] \in {req[q], k}
    BY OnItsWay DEF MemoInv, Validate
  <2>2. /\ k.pc = req[q].pc /\ k.local = req[q].local /\ k.loaded = req[q].loaded
        /\ k.flag = req[q].flag /\ k.sender = req[q].sender /\ k.text = req[q].text
        /\ k.why = req[q].why /\ k.written = req[q].written /\ k.told = req[q].told
    BY <2>1 DEF ReqType
  <2> HIDE DEF k
  <2>3. Memo(k)
    BY <2>1, <2>2 DEF Memo, Unwritten
  <2> QED
    BY <2>1, <2>3
<1> QED
  BY <1>1, <1>2, <1>4, <1>5 DEF MemoInv

\* A client sends a message: none but the page sends a switch.
LEMMA MemoSend ==
    ASSUME MemoInv, ReqInv, NEW r \in Requests, NEW text \in Texts,
           ApiSend(r, text) \/ \E p \in Pages, toggle \in BOOLEAN : Submit(p, r, text, toggle)
    PROVE  MemoInv'
<1>1. CASE ApiSend(r, text)
  <2> DEFINE n == [NoRequest EXCEPT !.text = text, !.conv = made[Len(made)], !.pc = "posted"]
  <2>1. req' = [req EXCEPT ![r] = n] /\ meta' = meta
    BY <1>1 DEF ApiSend
  <2>2. n.pc = "posted" /\ n.flag = "none" /\ n.written = FALSE /\ n.why = "none"
    BY DEF NoRequest
  <2> HIDE DEF n
  <2>3. Memo(n)
    BY <2>2 DEF Memo, Inside
  <2> QED
    BY <2>1, <2>3, MemoKept DEF ReqInv
<1>2. CASE \E p \in Pages, toggle \in BOOLEAN : Submit(p, r, text, toggle)
  <2>1. PICK p \in Pages, toggle \in BOOLEAN : Submit(p, r, text, toggle)
    BY <1>2
  <2> DEFINE n == [NoRequest EXCEPT
                     !.sender = p, !.text = text, !.conv = page[p].conv,
                     !.flag = IF toggle THEN "on" ELSE "off",
                     !.pc = IF page[p].conv # None THEN "posted" ELSE "create"]
  <2>2. req' = [req EXCEPT ![r] = n] /\ meta' = meta
    BY <2>1 DEF Submit
  <2>3. n.pc \in {"posted", "create"} /\ n.sender = p /\ n.written = FALSE /\ n.why = "none"
    BY DEF NoRequest
  <2> HIDE DEF n
  <2>4. Memo(n)
    BY <2>3, ConversationAssumption DEF Memo, Inside
  <2> QED
    BY <2>2, <2>4, MemoKept DEF ReqInv
<1> QED
  BY <1>1, <1>2

\* The page has its conversation made.
LEMMA MemoCreate ==
    ASSUME MemoInv, ReqInv, NEW r \in Requests, CreateConversation(r) PROVE MemoInv'
<1>1. PICK c \in Convs : req' = [req EXCEPT ![r].conv = c, ![r].pc = "posted"]
  BY DEF CreateConversation
<1> DEFINE n == [req[r] EXCEPT !.conv = c, !.pc = "posted"]
<1>2. req[r] \in ReqType /\ Memo(req[r]) /\ req[r].pc = "create" /\ meta' = meta
  BY OnItsWay DEF CreateConversation, MemoInv
<1>3. n.pc = "posted" /\ n.sender = req[r].sender /\ n.flag = req[r].flag
      /\ n.written = req[r].written /\ n.why = req[r].why
  BY <1>2 DEF ReqType
<1>4. req' = [req EXCEPT ![r] = n]
  BY <1>1 DEF ReqInv, ReqTypes
<1> HIDE DEF n
<1>5. Memo(n)
  BY <1>2, <1>3 DEF Memo, Inside
<1> QED
  BY <1>2, <1>4, <1>5, MemoKept DEF ReqInv

\* A request ends.
LEMMA MemoEnd ==
    ASSUME MemoInv, ReqInv, NEW r \in Requests, SaveAssistantMessage(r) \/ Drop(r) \/ Refuse(r)
    PROVE  MemoInv'
<1>1. PICK place \in Ended : Finish(r, place) /\ meta' = meta
  BY DEF SaveAssistantMessage, Drop, Refuse, Ended
<1> DEFINE n == [NoRequest EXCEPT
                    !.pc = place, !.sender = req[r].sender, !.conv = Conv(r),
                    !.alone = req[r].alone /\ req[r].sender = None, !.told = req[r].told,
                    !.why = IF req[r].why = "none" THEN "none" ELSE "agreed"]
<1>2. req' = [req EXCEPT ![r] = n] /\ n.pc = place
  BY <1>1 DEF Finish, NoRequest
<1> HIDE DEF n
<1>3. Memo(n)
  BY <1>2, MemoEnded
<1> QED
  BY <1>1, <1>2, <1>3, MemoKept DEF ReqInv

\* Every step keeps what requests know.
LEMMA MemoStep == ConsentInv /\ MemoInv /\ [ChatNext]_chatVars => MemoInv'
<1> SUFFICES ASSUME ConsentInv, MemoInv, [ChatNext]_chatVars PROVE MemoInv'
  OBVIOUS
<1> USE DEF ConsentInv
<1>1. CASE UNCHANGED chatVars
  BY <1>1 DEF chatVars, MemoInv
<1>2. ASSUME NEW r \in Requests, Serve(r) PROVE MemoInv'
  BY <1>2, MemoCreate, MemoValidate, MemoQuestion, MemoToggle, MemoKeyword, MemoReply, MemoRetrieve,
     MemoEnd DEF Serve
<1>3. ASSUME NEW r \in Requests, Refuse(r) \/ Drop(r) PROVE MemoInv'
  BY <1>3, MemoEnd
<1>4. ASSUME NEW p \in Pages, PageStep(p) PROVE MemoInv'
  BY <1>4 DEF PageStep, ListConversations, ShowHistory, Receive, GiveUp, MemoInv
<1>5. ASSUME NEW r \in Requests, NEW text \in Texts,
             ApiSend(r, text) \/ \E p \in Pages, toggle \in BOOLEAN : Submit(p, r, text, toggle)
      PROVE  MemoInv'
  BY <1>5, MemoSend
<1> QED
  BY <1>1, <1>2, <1>3, <1>4, <1>5 DEF ChatNext

-----------------------------------------------------------------------------
(* What has been saved of a request: AnswerAfterQuestion.                  *)

Holds(c, row) == \E i \in DOMAIN rows[c] : rows[c][i] = row

\* Places at which the question of a request has been saved.
Asking == (Inside \ {"question"}) \union {"done", "dropped"}

\* The rows of a request are those of the saves it has passed, in its conversation.
Filed(r) ==
    /\ \A c \in Convs : Holds(c, Row("user", r)) => c = Conv(r) /\ req[r].pc \in Asking
    /\ \A c \in Convs : Holds(c, Row("assistant", r)) => c = Conv(r) /\ req[r].pc = "done"
    /\ req[r].pc \in Asking => Conv(r) \in Convs /\ Holds(Conv(r), Row("user", r))
    /\ req[r].pc = "done" => Holds(Conv(r), Row("assistant", r))

FiledInv == AnswerAfterQuestion /\ \A r \in Requests : Filed(r)

\* A request's place and conversation change nothing about its rows.
SameFiles(r) ==
    IF req[r].pc \in Asking
    THEN req'[r].pc \in Asking /\ Conv(r)' = Conv(r) /\ (req'[r].pc = "done" <=> req[r].pc = "done")
    ELSE req'[r].pc \notin Asking

\* A step that saves nothing.
LEMMA FiledKept ==
    ASSUME StoreTypes, FiledInv, rows' = rows, \A r \in Requests : SameFiles(r)
    PROVE  FiledInv'
<1>1. \A c, row : Holds(c, row)' <=> Holds(c, row)
  BY DEF Holds
<1>2. ASSUME NEW r \in Requests PROVE Filed(r)'
  <2>1. Filed(r) /\ SameFiles(r)
    BY DEF FiledInv
  <2>2. CASE req[r].pc \in Asking
    <3>1. Conv(r)' = Conv(r) /\ req'[r].pc \in Asking /\ (req'[r].pc = "done" <=> req[r].pc = "done")
      BY <2>1, <2>2 DEF SameFiles
    <3> QED
      BY <1>1, <2>1, <2>2, <3>1 DEF Filed, Row, Holds
  <2>3. CASE req[r].pc \notin Asking
    <3>1. req'[r].pc \notin Asking /\ req'[r].pc # "done"
      BY <2>1, <2>3 DEF SameFiles, Asking
    <3> QED
      BY <1>1, <2>1, <2>3, <3>1 DEF Filed, Row, Asking
  <2> QED
    BY <2>2, <2>3
<1>3. ASSUME NEW c \in Convs, NEW i \in DOMAIN rows[c]
      PROVE  req'[rows[c][i].of].conv = req[rows[c][i].of].conv
  <2>1. rows[c] \in Seq(RowSet)
    BY DEF StoreTypes
  <2>2. rows[c][i] \in RowSet
    BY <2>1
  <2>3. PICK role \in {"user", "assistant"}, r \in Requests : rows[c][i] = Row(role, r)
    BY <2>2 DEF RowSet, Row
  <2>4. Filed(r) /\ Holds(c, Row(role, r)) /\ rows[c][i].of = r
    BY <2>3 DEF FiledInv, Holds, Row
  <2>5. req[r].pc \in Asking
    BY <2>4 DEF Filed, Asking
  <2> QED
    BY <2>4, <2>5 DEF SameFiles, Conv
<1>4. AnswerAfterQuestion'
  BY <1>3 DEF FiledInv, AnswerAfterQuestion, Conv
<1> QED
  BY <1>2, <1>4 DEF FiledInv

\* What a conversation holds when a message is added.
LEMMA HoldsAppended ==
    ASSUME StoreTypes, NEW c \in Convs, NEW e \in RowSet, rows' = [rows EXCEPT ![c] = Append(@, e)]
    PROVE  /\ rows[c] \in Seq(RowSet) /\ Len(rows[c]) \in Nat
           /\ Len(rows'[c]) = Len(rows[c]) + 1 /\ rows'[c][Len(rows[c]) + 1] = e
           /\ \A i \in 1..Len(rows[c]) : rows'[c][i] = rows[c][i]
           /\ DOMAIN rows[c] = 1..Len(rows[c]) /\ DOMAIN rows'[c] = 1..Len(rows[c]) + 1
           /\ \A row : Holds(c, row)' <=> Holds(c, row) \/ row = e
           /\ \A d \in Convs : d # c => rows'[d] = rows[d] /\ \A row : Holds(d, row)' <=> Holds(d, row)
<1>1. rows[c] \in Seq(RowSet) /\ rows'[c] = Append(rows[c], e)
  BY DEF StoreTypes
<1>2. Len(rows[c]) \in Nat /\ Len(rows'[c]) = Len(rows[c]) + 1 /\ rows'[c] \in Seq(RowSet)
      /\ rows'[c][Len(rows[c]) + 1] = e /\ \A i \in 1..Len(rows[c]) : rows'[c][i] = rows[c][i]
  BY <1>1
<1>3. DOMAIN rows[c] = 1..Len(rows[c]) /\ DOMAIN rows'[c] = 1..Len(rows[c]) + 1
  BY <1>1, <1>2
<1>4. \A row : Holds(c, row)' <=> Holds(c, row) \/ row = e
  <2> SUFFICES ASSUME NEW row PROVE Holds(c, row)' <=> Holds(c, row) \/ row = e
    OBVIOUS
  <2>1. ASSUME NEW i \in 1..Len(rows[c]) + 1, rows'[c][i] = row PROVE Holds(c, row) \/ row = e
    BY <1>2, <1>3, <2>1 DEF Holds
  <2>2. ASSUME NEW i \in 1..Len(rows[c]), rows[c][i] = row PROVE i \in DOMAIN rows'[c] /\ rows'[c][i] = row
    BY <1>2, <1>3, <2>2
  <2>3. Len(rows[c]) + 1 \in DOMAIN rows'[c]
    BY <1>2, <1>3
  <2> QED
    BY <1>2, <1>3, <2>1, <2>2, <2>3 DEF Holds
<1>5. \A d \in Convs : d # c => rows'[d] = rows[d]
  BY DEF StoreTypes
<1> QED
  BY <1>1, <1>2, <1>3, <1>4, <1>5 DEF Holds

\* A request saves a row that its conversation does not hold, the answer after the
\* question.
LEMMA FiledAppended ==
    ASSUME ReqInv, StoreTypes, FiledInv, NEW r \in Requests, NEW c \in Convs, Conv(r) = c, NEW role \in {"user", "assistant"},
           rows' = [rows EXCEPT ![c] = Append(@, Row(role, r))],
           Conv(r)' = c, req'[r].pc \in Asking,
           role = "user" => req[r].pc = "question" /\ req'[r].pc # "done",
           role = "assistant" => req[r].pc = "answer" /\ req'[r].pc = "done",
           \A q \in Requests \ {r} : req'[q] = req[q]
    PROVE  FiledInv'
<1> DEFINE e == Row(role, r)
           n == Len(rows[c])
<1>1. e \in RowSet
  BY DEF Row, RowSet
<1>2. /\ rows[c] \in Seq(RowSet) /\ n \in Nat
      /\ Len(rows'[c]) = n + 1 /\ rows'[c][n + 1] = e
      /\ \A i \in 1..n : rows'[c][i] = rows[c][i]
      /\ DOMAIN rows[c] = 1..n /\ DOMAIN rows'[c] = 1..n + 1
      /\ \A row : Holds(c, row)' <=> Holds(c, row) \/ row = e
      /\ \A d \in Convs : d # c => rows'[d] = rows[d] /\ \A row : Holds(d, row)' <=> Holds(d, row)
  BY <1>1, HoldsAppended
<1>3. Filed(r) /\ ~Holds(c, e) /\ (role = "assistant" => Holds(c, Row("user", r)))
  BY DEF FiledInv, Filed, Asking, Inside
<1>4. ASSUME NEW q \in Requests \ {r} PROVE Filed(q)' /\ Conv(q)' = Conv(q)
  <2>1. Filed(q) /\ req'[q] = req[q] /\ Row("user", q) # e /\ Row("assistant", q) # e
    BY DEF FiledInv, Row
  <2>2. Conv(q)' = Conv(q)
    BY <2>1 DEF Conv
  <2>3. \A d \in Convs : /\ Holds(d, Row("user", q))' <=> Holds(d, Row("user", q))
                         /\ Holds(d, Row("assistant", q))' <=> Holds(d, Row("assistant", q))
    BY <1>2, <2>1
  <2> QED
    BY <2>1, <2>2, <2>3 DEF Filed, Asking, Conv, Holds
<1>5. Filed(r)'
  <2> USE <1>2, <1>3
  <2>1. CASE role = "user"
    <3>1. req[r].pc \notin Asking /\ req'[r].pc # "done" /\ req[r].pc # "done"
      BY <2>1 DEF Asking, Inside
    <3>2. \A d \in Convs : ~Holds(d, Row("user", r)) /\ ~Holds(d, Row("assistant", r))
      BY <3>1 DEF Filed
    <3>3. Row("user", r) = e /\ Row("assistant", r) # e
      BY <2>1 DEF Row
    <3>4. \A d \in Convs : /\ Holds(d, Row("user", r))' => d = c
                           /\ ~Holds(d, Row("assistant", r))'
      BY <3>2, <3>3
    <3>5. Holds(c, Row("user", r))'
      BY <3>3
    <3> QED
      BY <3>1, <3>4, <3>5 DEF Filed, Holds
  <2>2. CASE role = "assistant"
    <3>1. Row("assistant", r) = e /\ Row("user", r) # e
      BY <2>2 DEF Row
    <3>2. \A d \in Convs : /\ Holds(d, Row("user", r))' => d = c
                           /\ Holds(d, Row("assistant", r))' => d = c
      <4>1. req[r].pc # "done"
        BY <2>2
      <4> QED
        BY <3>1, <4>1 DEF Filed
    <3>3. Holds(c, Row("user", r))' /\ Holds(c, Row("assistant", r))'
      BY <2>2, <3>1
    <3> QED
      BY <2>2, <3>2, <3>3 DEF Filed, Holds
  <2> QED
    BY <2>1, <2>2
<1> HIDE DEF e, n
<1>6. ASSUME NEW d \in Convs, NEW i \in DOMAIN rows[d]
      PROVE  req'[rows[d][i].of].conv = req[rows[d][i].of].conv /\ rows[d][i].of \in Requests
  <2>1. rows[d] \in Seq(RowSet)
    BY DEF StoreTypes
  <2>2. rows[d][i] \in RowSet
    BY <2>1
  <2>3. rows[d][i].of \in Requests
    BY <2>2 DEF RowSet
  <2> QED
    BY <1>4, <2>3 DEF Conv
<1>7. ASSUME NEW d \in Convs, d # c, NEW i \in DOMAIN rows'[d]
      PROVE  /\ req'[rows'[d][i].of].conv = d
             /\ \A j \in DOMAIN rows'[d] : rows'[d][j] = rows'[d][i] => i = j
             /\ rows'[d][i].role = "assistant" => \E j \in 1..i - 1 : rows'[d][j] = Row("user", rows'[d][i].of)
  <2>1. rows'[d] = rows[d]
    BY <1>2, <1>7
  <2>2. /\ req[rows[d][i].of].conv = d
        /\ \A j \in DOMAIN rows[d] : rows[d][j] = rows[d][i] => i = j
        /\ rows[d][i].role = "assistant" => \E j \in 1..i - 1 : rows[d][j] = Row("user", rows[d][i].of)
    BY <2>1 DEF FiledInv, AnswerAfterQuestion, Conv
  <2>3. req'[rows[d][i].of].conv = req[rows[d][i].of].conv
    BY <1>6, <2>1
  <2> QED
    BY <2>1, <2>2, <2>3 DEF Conv
<1>8. ASSUME NEW i \in 1..n
      PROVE  /\ req'[rows'[c][i].of].conv = c
             /\ \A j \in DOMAIN rows'[c] : rows'[c][j] = rows'[c][i] => i = j
             /\ rows'[c][i].role = "assistant" => \E j \in 1..i - 1 : rows'[c][j] = Row("user", rows'[c][i].of)
  <2>1. /\ req[rows[c][i].of].conv = c
        /\ \A j \in DOMAIN rows[c] : rows[c][j] = rows[c][i] => i = j
        /\ rows[c][i].role = "assistant" => \E j \in 1..i - 1 : rows[c][j] = Row("user", rows[c][i].of)
    BY <1>2 DEF FiledInv, AnswerAfterQuestion, Conv
  <2>2. rows'[c][i] = rows[c][i] /\ rows[c][i] # e
    BY <1>2, <1>3 DEF Holds
  <2>3. req'[rows[c][i].of].conv = req[rows[c][i].of].conv
    BY <1>2, <1>6
  <2>4. \A j \in DOMAIN rows'[c] : rows'[c][j] = rows'[c][i] => i = j
    BY <1>2, <2>1, <2>2
  <2>5. \A j \in 1..i - 1 : rows'[c][j] = rows[c][j]
    BY <1>2
  <2> QED
    BY <2>1, <2>2, <2>3, <2>4, <2>5 DEF Conv
<1>9. /\ req'[rows'[c][n + 1].of].conv = c
      /\ \A j \in DOMAIN rows'[c] : rows'[c][j] = rows'[c][n + 1] => n + 1 = j
      /\ rows'[c][n + 1].role = "assistant" => \E j \in 1..(n + 1) - 1 : rows'[c][j] = Row("user", rows'[c][n + 1].of)
  <2>1. rows'[c][n + 1] = e /\ e.of = r /\ e.role = role
    BY <1>2 DEF e, Row
  <2>2. \A j \in 1..n : rows'[c][j] # e
    BY <1>2, <1>3 DEF Holds
  <2>3. \A j \in DOMAIN rows'[c] : rows'[c][j] = rows'[c][n + 1] => n + 1 = j
    BY <1>2, <2>1, <2>2
  <2>4. role = "assistant" => \E j \in 1..n : rows'[c][j] = Row("user", r)
    BY <1>2, <1>3 DEF Holds
  <2>5. Conv(r)' = c
    OBVIOUS
  <2> QED
    BY <1>2, <2>1, <2>3, <2>4, <2>5 DEF Conv
<1>10. AnswerAfterQuestion'
  <2> SUFFICES ASSUME NEW d \in Convs, NEW i \in DOMAIN rows'[d]
               PROVE  /\ req'[rows'[d][i].of].conv = d
                      /\ \A j \in DOMAIN rows'[d] : rows'[d][j] = rows'[d][i] => i = j
                      /\ rows'[d][i].role = "assistant" =>
                            \E j \in 1..i - 1 : rows'[d][j] = Row("user", rows'[d][i].of)
    BY DEF AnswerAfterQuestion, Conv, Row
  <2>1. CASE d # c
    BY <1>7, <2>1
  <2>2. CASE d = c /\ i \in 1..n
    BY <1>8, <2>2
  <2>3. CASE d = c /\ i = n + 1
    BY <1>9, <2>3
  <2> QED
    BY <1>2, <2>1, <2>2, <2>3
<1> QED
  BY <1>4, <1>5, <1>10 DEF FiledInv

\* Only one request moves.
LEMMA FiledMoved ==
    ASSUME StoreTypes, FiledInv, ReqInv, rows' = rows, NEW r \in Requests, NEW n,
           req' = [req EXCEPT ![r] = n],
           IF req[r].pc \in Asking
           THEN n.pc \in Asking /\ n.conv = Conv(r) /\ (n.pc = "done" <=> req[r].pc = "done")
           ELSE n.pc \notin Asking
    PROVE  FiledInv'
<1>1. \A q \in Requests : SameFiles(q)
  BY DEF ReqInv, ReqTypes, SameFiles, Conv
<1> QED
  BY <1>1, FiledKept

\* Where a changed dictionary leaves a request.
LEMMA ChangedPlace ==
    ASSUME NEW r, req[r] \in ReqType, NEW new, NEW place, NEW why, NEW told
    PROVE  /\ Changed(r, new, place, why).pc = place /\ Changed(r, new, place, why).conv = Conv(r)
           /\ Changed(r, new, place, why).sender = req[r].sender
           /\ [Changed(r, new, place, why) EXCEPT !.told = told].pc = place
           /\ [Changed(r, new, place, why) EXCEPT !.told = told].conv = Conv(r)
           /\ [Changed(r, new, place, why) EXCEPT !.told = told].sender = req[r].sender
  BY DEF Changed, ReqType, Conv

\* A request moves to a place in its conversation.
Moves(r, places) ==
    \E n : /\ req' = [req EXCEPT ![r] = n] /\ n.pc \in places
          /\ n.conv = Conv(r) /\ n.sender = req[r].sender

\* A request with a changed dictionary moves.
LEMMA ChangedMoves ==
    ASSUME NEW r \in Requests, req[r] \in ReqType, NEW new, NEW why, NEW places, NEW place \in places,
           \/ req' = [req EXCEPT ![r] = Changed(r, new, place, why)]
           \/ req' = [req EXCEPT ![r] = [Changed(r, new, place, why) EXCEPT !.told = new.mode]]
    PROVE  Moves(r, places)
<1> DEFINE k == Changed(r, new, place, why)
           t == [k EXCEPT !.told = new.mode]
<1>1. /\ k.pc = place /\ k.conv = Conv(r) /\ k.sender = req[r].sender
      /\ t.pc = place /\ t.conv = Conv(r) /\ t.sender = req[r].sender
  BY ChangedPlace
<1>2. req' = [req EXCEPT ![r] = k] \/ req' = [req EXCEPT ![r] = t]
  OBVIOUS
<1> HIDE DEF k, t
<1> QED
  BY <1>1, <1>2 DEF Moves

\* A request between its question and its answer moves towards the answer.
LEMMA TurnPlace ==
    ASSUME ReqInv, NEW r \in Requests,
           ApplyToggle(r) \/ ApplyKeyword(r) \/ TakeReply(r) \/ Retrieve(r)
    PROVE  Moves(r, {"keyword", "reply", "retrieve", "answer"})
<1> DEFINE places == {"keyword", "reply", "retrieve", "answer"}
<1>1. req[r] \in ReqType
  BY OnItsWay
<1>2. Moves(r, places)
  <2>0. "retrieve" \in places /\ "answer" \in places
    OBVIOUS
  <2>1. CASE ApplyToggle(r)
    <3> DEFINE new == Switched(req[r].local, req[r].flag)
               place == Following(r, new, FALSE)
    <3>1. req' = [req EXCEPT ![r] = Changed(r, new, place, "switch")]
      BY <2>1 DEF ApplyToggle
    <3>2. place \in places
      BY DEF Following
    <3> HIDE DEF new, place
    <3> QED
      BY <1>1, <3>1, <3>2, ChangedMoves
  <2>2. CASE ApplyKeyword(r)
    <3> DEFINE new == Switched(req[r].local, "on")
    <3>1. req' = [req EXCEPT ![r] = Changed(r, new, "retrieve", "words")]
      BY <2>2 DEF ApplyKeyword
    <3> HIDE DEF new
    <3> QED
      BY <1>1, <2>0, <3>1, ChangedMoves
  <2>3. CASE TakeReply(r)
    <3> DEFINE new == Replied(req[r].local, req[r].text)
    <3>1. req' = [req EXCEPT ![r] = [Changed(r, new, "answer", "reply") EXCEPT !.told = new.mode]]
      BY <2>3 DEF TakeReply
    <3> HIDE DEF new
    <3> QED
      BY <1>1, <2>0, <3>1, ChangedMoves
  <2>4. CASE Uncounted(r)
    <3> DEFINE n == [req[r] EXCEPT !.pc = "answer", !.told = req[r].local.mode]
    <3>1. req' = [req EXCEPT ![r] = n]
      BY <2>4 DEF Uncounted, ReqInv, ReqTypes
    <3>2. n.pc = "answer" /\ n.conv = Conv(r) /\ n.sender = req[r].sender
      BY <1>1 DEF ReqType, Conv
    <3> HIDE DEF n
    <3> QED
      BY <3>1, <3>2 DEF Moves
  <2>5. CASE Miss(r) /\ ~Uncounted(r)
    <3> DEFINE new == Missed(req[r].local, r)
    <3>1. req' = [req EXCEPT ![r] = [Changed(r, new, "answer", "miss") EXCEPT !.told = new.mode]]
      BY <2>5 DEF Miss
    <3> HIDE DEF new
    <3> QED
      BY <1>1, <2>0, <3>1, ChangedMoves
  <2>6. CASE FoundChunks(r) /\ ~Uncounted(r)
    <3> DEFINE new == [req[r].local EXCEPT !.misses = 0]
    <3>1. req' = [req EXCEPT ![r] = [Changed(r, new, "answer", req[r].why) EXCEPT !.told = new.mode]]
      BY <2>6 DEF FoundChunks
    <3> HIDE DEF new
    <3> QED
      BY <1>1, <2>0, <3>1, ChangedMoves
  <2> QED
    BY <2>1, <2>2, <2>3, <2>4, <2>5, <2>6 DEF Retrieve
<1> QED
  BY <1>2

\* A request between its question and its answer saves nothing.
LEMMA FiledOnItsWay ==
    ASSUME StoreTypes, FiledInv, ReqInv, NEW r \in Requests,
           ApplyToggle(r) \/ ApplyKeyword(r) \/ TakeReply(r) \/ Retrieve(r)
    PROVE  FiledInv'
<1>1. rows' = rows /\ req[r].pc \in {"toggle", "keyword", "reply", "retrieve"}
  BY DEF ApplyToggle, ApplyKeyword, TakeReply, Retrieve
<1>2. PICK n : req' = [req EXCEPT ![r] = n] /\ n.conv = Conv(r)
               /\ n.pc \in {"keyword", "reply", "retrieve", "answer"}
  BY TurnPlace DEF Moves
<1>3. {"toggle", "keyword", "reply", "retrieve", "answer"} \subseteq Asking \ {"done"}
  BY DEF Asking, Inside
<1> QED
  BY <1>1, <1>2, <1>3, FiledMoved

\* A message is saved.
LEMMA FiledSaved ==
    ASSUME StoreTypes, FiledInv, ReqInv, NEW r \in Requests, SaveUserMessage(r) \/ SaveAssistantMessage(r)
    PROVE  FiledInv'
<1>1. PICK c \in Convs : Conv(r) = c
  BY DEF SaveUserMessage, SaveAssistantMessage, Inside, ReqInv, ReqTypes
<1>2. req[r] \in ReqType /\ req \in [Requests -> ReqType]
  BY OnItsWay DEF ReqInv, ReqTypes
<1>3. CASE SaveUserMessage(r)
  <2>1. rows' = [rows EXCEPT ![c] = Append(@, Row("user", r))] /\ req[r].pc = "question"
    BY <1>1, <1>3 DEF SaveUserMessage
  <2>2. PICK place \in {"toggle", "keyword", "reply", "retrieve"} : req' = [req EXCEPT ![r].pc = place]
    BY <1>3 DEF SaveUserMessage, Goto, Following
  <2>3. req'[r].pc = place /\ Conv(r)' = c /\ \A q \in Requests \ {r} : req'[q] = req[q]
    BY <1>1, <1>2, <2>2 DEF ReqType, Conv
  <2>4. place \in Asking /\ place # "done"
    BY DEF Asking, Inside
  <2> QED
    BY <1>1, <2>1, <2>3, <2>4, FiledAppended
<1>4. CASE SaveAssistantMessage(r)
  <2>1. rows' = [rows EXCEPT ![c] = Append(@, Row("assistant", r))] /\ req[r].pc = "answer"
    BY <1>1, <1>4 DEF SaveAssistantMessage
  <2>2. req'[r].pc = "done" /\ Conv(r)' = c /\ \A q \in Requests \ {r} : req'[q] = req[q]
    BY <1>1, <1>2, <1>4 DEF SaveAssistantMessage, Finish, NoRequest, Conv
  <2>3. "done" \in Asking
    BY DEF Asking
  <2> QED
    BY <1>1, <2>1, <2>2, <2>3, FiledAppended
<1> QED
  BY <1>3, <1>4

\* A request that is sent waits for its conversation or for the endpoint.
LEMMA SentPlace ==
    ASSUME NEW r \in Requests, NEW text \in Texts,
           ApiSend(r, text) \/ \E p \in Pages, toggle \in BOOLEAN : Submit(p, r, text, toggle)
    PROVE  \E n : req' = [req EXCEPT ![r] = n] /\ n.pc \in {"create", "posted"}
<1>1. CASE ApiSend(r, text)
  <2> DEFINE k == [NoRequest EXCEPT !.text = text, !.conv = made[Len(made)], !.pc = "posted"]
  <2>1. req' = [req EXCEPT ![r] = k]
    BY <1>1 DEF ApiSend
  <2>2. k.pc = "posted"
    BY DEF NoRequest
  <2> HIDE DEF k
  <2> QED
    BY <2>1, <2>2
<1>2. CASE \E p \in Pages, toggle \in BOOLEAN : Submit(p, r, text, toggle)
  <2>1. PICK p \in Pages, toggle \in BOOLEAN : Submit(p, r, text, toggle)
    BY <1>2
  <2> DEFINE k == [NoRequest EXCEPT
                     !.sender = p, !.text = text, !.conv = page[p].conv,
                     !.flag = IF toggle THEN "on" ELSE "off",
                     !.pc = IF page[p].conv # None THEN "posted" ELSE "create"]
  <2>2. req' = [req EXCEPT ![r] = k]
    BY <2>1 DEF Submit
  <2>3. k.pc \in {"create", "posted"}
    BY DEF NoRequest
  <2> HIDE DEF k
  <2> QED
    BY <2>2, <2>3
<1> QED
  BY <1>1, <1>2

\* Every step keeps what has been saved.
LEMMA FiledStep == ConsentInv /\ FiledInv /\ [ChatNext]_chatVars => FiledInv'
<1> SUFFICES ASSUME ConsentInv, FiledInv, [ChatNext]_chatVars PROVE FiledInv'
  OBVIOUS
<1> USE DEF ConsentInv
<1>1. \A r \in Requests : req[r] \in ReqType
  BY OnItsWay
<1>2. CASE UNCHANGED <<rows, req>>
  <2>1. \A r \in Requests : SameFiles(r)
    BY <1>2 DEF SameFiles, Conv
  <2> QED
    BY <1>2, <2>1, FiledKept
<1>3. ASSUME NEW r \in Requests, CreateConversation(r) PROVE FiledInv'
  <2>1. PICK c \in Convs : req' = [req EXCEPT ![r].conv = c, ![r].pc = "posted"]
    BY <1>3 DEF CreateConversation
  <2> DEFINE n == [req[r] EXCEPT !.conv = c, !.pc = "posted"]
  <2>2. req' = [req EXCEPT ![r] = n] /\ rows' = rows /\ req[r].pc = "create" /\ n.pc = "posted"
    BY <1>1, <1>3, <2>1 DEF CreateConversation, ReqInv, ReqTypes, ReqType
  <2>3. "create" \notin Asking /\ "posted" \notin Asking
    BY DEF Asking, Inside
  <2> HIDE DEF n
  <2> QED
    BY <2>2, <2>3, FiledMoved
<1>4. ASSUME NEW r \in Requests, Validate(r) PROVE FiledInv'
  <2>1. req'[r].pc = "question" /\ req[r].pc = "posted" /\ rows' = rows
    BY <1>1, <1>4 DEF Validate, ReqType
  <2>2. ASSUME NEW q \in Requests \ {r} PROVE req'[q].pc = req[q].pc /\ req'[q].conv = req[q].conv
    BY <1>1, <1>4 DEF Validate, ReqType
  <2>3. "question" \notin Asking /\ "posted" \notin Asking
    BY DEF Asking, Inside
  <2>4. \A q \in Requests : SameFiles(q)
    BY <2>1, <2>2, <2>3 DEF SameFiles, Conv
  <2> QED
    BY <2>1, <2>4, FiledKept
<1>5. ASSUME NEW r \in Requests, Refuse(r) \/ Drop(r) PROVE FiledInv'
  <2> DEFINE n(place) == [NoRequest EXCEPT
                    !.pc = place, !.sender = req[r].sender, !.conv = Conv(r),
                    !.alone = req[r].alone /\ req[r].sender = None, !.told = req[r].told,
                    !.why = IF req[r].why = "none" THEN "none" ELSE "agreed"]
  <2>1. PICK place \in {"refused", "dropped"} :
           /\ req' = [req EXCEPT ![r] = n(place)] /\ rows' = rows
           /\ req[r].pc \in IF place = "refused" THEN {"create", "posted"} ELSE {"retrieve", "answer"}
    BY <1>5 DEF Refuse, Drop, Finish
  <2>2. n(place).pc = place /\ n(place).conv = Conv(r)
    BY DEF NoRequest
  <2>3. /\ "refused" \notin Asking /\ "create" \notin Asking /\ "posted" \notin Asking
        /\ {"dropped", "retrieve", "answer"} \subseteq Asking
    BY DEF Asking, Inside
  <2> HIDE DEF n
  <2> QED
    BY <2>1, <2>2, <2>3, FiledMoved
<1>6. ASSUME NEW r \in Requests, NEW text \in Texts,
             ApiSend(r, text) \/ \E p \in Pages, toggle \in BOOLEAN : Submit(p, r, text, toggle)
      PROVE  FiledInv'
  <2>1. PICK n : req' = [req EXCEPT ![r] = n] /\ n.pc \in {"create", "posted"}
    BY <1>6, SentPlace
  <2>2. rows' = rows /\ req[r].pc = "idle"
    BY <1>6 DEF ApiSend, Submit, IsNext
  <2>3. "idle" \notin Asking /\ "create" \notin Asking /\ "posted" \notin Asking
    BY DEF Asking, Inside
  <2> QED
    BY <2>1, <2>2, <2>3, FiledMoved
<1>7. ASSUME NEW r \in Requests, Serve(r) PROVE FiledInv'
  BY <1>3, <1>4, <1>7, FiledOnItsWay, FiledSaved DEF Serve
<1>8. ASSUME NEW p \in Pages, PageStep(p) PROVE FiledInv'
  BY <1>2, <1>8 DEF PageStep, ListConversations, ShowHistory, Receive, GiveUp
<1> QED
  BY <1>2, <1>5, <1>6, <1>7, <1>8 DEF ChatNext, chatVars

-----------------------------------------------------------------------------
(* What a request that was alone finds stored: ToldIsStored.               *)

\* What the row says of a request that works alone and sent no switch: what it has
\* loaded until it writes, then that the search is on, and in the end what it tells.
Held(n, m) ==
    /\ n.pc # "answer" => IF n.written THEN m.mode = "on" ELSE m = n.loaded
    /\ n.pc = "answer" => m.mode = n.told

Unshared(r) == req[r].pc \in Inside /\ req[r].alone => Overlapping(r) = {}

Stored(r) ==
    req[r].pc \in Inside /\ req[r].alone /\ req[r].sender = None => Held(req[r], meta[Conv(r)])

StoredInv == (\A r \in Requests : Unshared(r) /\ Stored(r)) /\ ToldIsStored

\* Another request's step tells a request at most that it is not alone.
Kept(q) ==
    /\ req'[q].pc = req[q].pc /\ req'[q].conv = req[q].conv /\ req'[q].sender = req[q].sender
    /\ req'[q].told = req[q].told /\ req'[q].written = req[q].written /\ req'[q].loaded = req[q].loaded
    /\ req'[q].alone => req[q].alone

\* One request advances: it touches its own conversation only, while it is inside, and
\* ends by its answer or without one.
Advances(x) ==
    /\ req[x].pc \notin {"done", "dropped"}
    /\ \A q \in Requests \ {x} : Kept(q)
    /\ \A d \in Convs : d # Conv(x) => rows'[d] = rows[d] /\ meta'[d] = meta[d]
    /\ req[x].pc \in Inside =>
          /\ req'[x].conv = req[x].conv
          /\ \/ req'[x].pc \in Inside /\ req'[x].alone = req[x].alone
             \/ req'[x].pc = "dropped"
             \/ req'[x].pc = "done" /\ rows' = [rows EXCEPT ![Conv(x)] = Append(@, Row("assistant", x))]
    /\ req[x].pc \notin Inside =>
          /\ rows' = rows /\ meta' = meta
          /\ req'[x].pc \notin {"done", "dropped"}
          /\ req'[x].pc \in Inside =>
                /\ req'[x].conv = req[x].conv
                /\ req'[x].alone => Overlapping(x) = {}
                /\ \A q \in Overlapping(x) : ~req'[q].alone

\* A request that enters a conversation tells those inside.
LEMMA UnsharedKept ==
    ASSUME ReqInv, \A r \in Requests : Unshared(r), NEW x \in Requests, Advances(x)
    PROVE  \A r \in Requests : Unshared(r)'
<1> SUFFICES ASSUME NEW r \in Requests, req'[r].pc \in Inside, req'[r].alone,
                    NEW q \in Requests \ {r}, req'[q].conv = req'[r].conv, req'[q].pc \in Inside
             PROVE  FALSE
  BY DEF Unshared, Overlapping, Conv
<1>1. CASE q # x /\ r # x
  <2>1. Kept(q) /\ Kept(r)
    BY <1>1 DEF Advances
  <2>2. q \in Overlapping(r) /\ req[r].pc \in Inside /\ req[r].alone
    BY <2>1 DEF Kept, Overlapping, Conv
  <2> QED
    BY <2>2 DEF Unshared
<1>2. CASE r = x
  <2>1. Kept(q)
    BY <1>2 DEF Advances
  <2>2. CASE req[x].pc \in Inside
    <3>1. req[x].alone /\ q \in Overlapping(x)
      BY <1>2, <2>1, <2>2 DEF Advances, Kept, Overlapping, Conv, Inside
    <3> QED
      BY <2>2, <3>1 DEF Unshared
  <2>3. CASE req[x].pc \notin Inside
    BY <1>2, <2>1, <2>3 DEF Advances, Kept, Overlapping, Conv
  <2> QED
    BY <2>2, <2>3
<1>3. CASE q = x
  <2>1. Kept(r) /\ r # x
    BY <1>3 DEF Advances
  <2>2. CASE req[x].pc \in Inside
    <3>1. x \in Overlapping(r) /\ req[r].pc \in Inside /\ req[r].alone
      BY <1>3, <2>1, <2>2 DEF Advances, Kept, Overlapping, Conv
    <3> QED
      BY <3>1 DEF Unshared
  <2>3. CASE req[x].pc \notin Inside
    BY <1>3, <2>1, <2>3 DEF Advances, Kept, Overlapping, Conv
  <2> QED
    BY <2>2, <2>3
<1> QED
  BY <1>1, <1>2, <1>3

\* Nobody writes the row under a request that is alone.
LEMMA StoredKept ==
    ASSUME ReqInv, \A r \in Requests : Unshared(r) /\ Stored(r), NEW x \in Requests, Advances(x),
           Stored(x)'
    PROVE  \A r \in Requests : Stored(r)'
<1> SUFFICES ASSUME NEW r \in Requests \ {x}, req'[r].pc \in Inside, req'[r].alone, req'[r].sender = None
             PROVE  Held(req'[r], meta'[req'[r].conv])
  BY DEF Stored, Conv, Held
<1>1. Kept(r)
  BY DEF Advances
<1>2. req[r].pc \in Inside /\ req[r].alone /\ req[r].sender = None
  BY <1>1 DEF Kept
<1>3. Held(req[r], meta[Conv(r)]) /\ Overlapping(r) = {} /\ Conv(r) \in Convs
  BY <1>2 DEF Stored, Unshared, ReqInv, ReqTypes
<1>4. meta'[Conv(r)] = meta[Conv(r)]
  <2>1. CASE req[x].pc \in Inside
    <3>1. Conv(x) # Conv(r)
      BY <1>3, <2>1 DEF Overlapping
    <3> QED
      BY <1>3, <3>1 DEF Advances
  <2>2. CASE req[x].pc \notin Inside
    BY <2>2 DEF Advances
  <2> QED
    BY <2>1, <2>2
<1> QED
  BY <1>1, <1>3, <1>4 DEF Kept, Held, Conv

\* An answer saved now is not before a question saved earlier.
LEMMA AnsweredLater ==
    ASSUME StoreTypes, FiledInv, FiledInv', NEW x \in Requests, NEW r \in Requests, NEW c \in Convs,
           req[x].pc # "done", Holds(c, Row("user", r)),
           rows' = [rows EXCEPT ![c] = Append(@, Row("assistant", x))]
    PROVE  ~(PlaceOf(Row("assistant", x), c)' < PlaceOf(Row("user", r), c)')
<1> DEFINE a == Row("assistant", x)
           e == Row("user", r)
           n == Len(rows[c])
<1>1. a \in RowSet
  BY DEF Row, RowSet
<1>2. /\ n \in Nat /\ rows'[c][n + 1] = a /\ DOMAIN rows'[c] = 1..n + 1 /\ DOMAIN rows[c] = 1..n
      /\ \A i \in 1..n : rows'[c][i] = rows[c][i]
  BY <1>1, HoldsAppended
<1>3. ~Holds(c, a)
  BY DEF FiledInv, Filed
<1>4. \A i \in DOMAIN rows'[c] : rows'[c][i] = a <=> i = n + 1
  BY <1>2, <1>3 DEF Holds
<1>5. PlaceOf(a, c)' = n + 1
  BY <1>2, <1>4 DEF PlaceOf
<1>6. PICK i \in 1..n : rows'[c][i] = e
  BY <1>2 DEF Holds
<1>7. \A j \in DOMAIN rows'[c] : rows'[c][j] = e => i = j
  BY <1>2, <1>6 DEF FiledInv, AnswerAfterQuestion
<1>8. PlaceOf(e, c)' = i
  BY <1>2, <1>6, <1>7 DEF PlaceOf
<1> HIDE DEF a, e, n
<1>9. ~(PlaceOf(a, c)' < PlaceOf(e, c)')
  BY <1>2, <1>5, <1>6, <1>8
<1> QED
  BY <1>9 DEF a, e

\* What was told stays what is stored, while no other request reads the conversation.
LEMMA ToldKept ==
    ASSUME ReqInv, StoreTypes, FiledInv, FiledInv', ToldIsStored, NEW x \in Requests, Advances(x),
           req'[x].pc = "done" /\ req'[x].sender = None /\ req'[x].alone =>
              meta'[req'[x].conv].mode = req'[x].told
    PROVE  ToldIsStored'
<1> SUFFICES ASSUME NEW r \in Requests \ {x}, req'[r].pc = "done", req'[r].sender = None,
                    req'[r].alone, Latest(r)'
             PROVE  meta'[req'[r].conv].mode = req'[r].told
  BY DEF ToldIsStored, Conv
<1>1. Kept(r)
  BY DEF Advances
<1>2. PICK c \in Convs : Conv(r) = c /\ req'[r].conv = c /\ Holds(c, Row("user", r))
  BY <1>1 DEF Kept, FiledInv, Filed, Asking, Conv
<1>3. ASSUME NEW q \in Requests \ {r}, req'[q].conv = c
      PROVE  /\ req'[q].pc \notin Inside \union {"dropped"}
             /\ req'[q].pc = "done" => PlaceOf(Row("assistant", q), c)' < PlaceOf(Row("user", r), c)'
  <2>1. req'[r].conv = c /\ req'[q].conv = req'[r].conv
    BY <1>2, <1>3
  <2>2. AnsweredBefore(q, r)' <=> PlaceOf(Row("assistant", q), c)' < PlaceOf(Row("user", r), c)'
    BY <1>2, <1>3 DEF AnsweredBefore, Conv, PlaceOf
  <2> QED
    BY <2>1, <2>2 DEF Latest, Conv
<1>4. ~(req[x].pc \in Inside /\ Conv(x) = c)
  <2> SUFFICES ASSUME req[x].pc \in Inside, Conv(x) = c PROVE FALSE
    OBVIOUS
  <2>1. req'[x].conv = c
    BY DEF Advances, Conv
  <2>2. req'[x].pc = "done" /\ rows' = [rows EXCEPT ![c] = Append(@, Row("assistant", x))]
    BY <1>3, <2>1 DEF Advances
  <2>3. PlaceOf(Row("assistant", x), c)' < PlaceOf(Row("user", r), c)'
    BY <1>3, <2>1, <2>2
  <2>4. req[x].pc # "done"
    BY DEF Inside
  <2> QED
    BY <1>2, <2>2, <2>3, <2>4, AnsweredLater
<1>5. rows'[c] = rows[c] /\ meta'[c] = meta[c]
  BY <1>4 DEF Advances
<1>6. \A row : PlaceOf(row, c)' = PlaceOf(row, c)
  BY <1>5 DEF PlaceOf
<1>7. Latest(r)
  <2> SUFFICES ASSUME NEW q \in Requests \ {r}, Conv(q) = Conv(r),
                      \/ req[q].pc \in Inside \union {"dropped"}
                      \/ req[q].pc = "done" /\ ~AnsweredBefore(q, r)
               PROVE  FALSE
    BY DEF Latest
  <2>1. q # x
    BY <1>2, <1>4 DEF Advances
  <2>2. Kept(q)
    BY <2>1 DEF Advances
  <2>3. req'[q].conv = c
    BY <1>2, <2>2 DEF Kept, Conv
  <2>4. req[q].pc = "done" /\ ~(PlaceOf(Row("assistant", q), c) < PlaceOf(Row("user", r), c))
    BY <1>2, <1>3, <2>2, <2>3 DEF Kept, AnsweredBefore
  <2>5. PlaceOf(Row("assistant", q), c)' < PlaceOf(Row("user", r), c)'
    BY <1>3, <2>2, <2>3, <2>4 DEF Kept
  <2> QED
    BY <1>6, <2>4, <2>5 DEF Row
<1> QED
  BY <1>1, <1>2, <1>5, <1>7 DEF Kept, ToldIsStored

\* A request that advances leaves what is stored as it has to be.
LEMMA StoredAdvance ==
    ASSUME ReqInv, StoreTypes, FiledInv, FiledInv', StoredInv, NEW x \in Requests, Advances(x),
           Stored(x)',
           req'[x].pc = "done" /\ req'[x].sender = None /\ req'[x].alone =>
              meta'[req'[x].conv].mode = req'[x].told
    PROVE  StoredInv'
  BY UnsharedKept, StoredKept, ToldKept DEF StoredInv

\* A request between its question and its answer: n is what it becomes and m what it
\* assigns to its row.
LEMMA StoredTurn ==
    ASSUME ReqInv, StoreTypes, FiledInv, FiledInv', StoredInv, NEW x \in Requests,
           req[x].pc \in Inside, NEW n, n.pc \in Inside, n.conv = Conv(x), n.alone = req[x].alone,
           n.sender = req[x].sender, req' = [req EXCEPT ![x] = n], rows' = rows,
           NEW m, meta' = meta \/ meta' = StoreMeta(x, m),
           Held(req[x], meta[Conv(x)]) /\ n.sender = None => Held(n, meta'[Conv(x)])
    PROVE  StoredInv'
<1>1. req'[x] = n /\ \A q \in Requests \ {x} : req'[q] = req[q]
  BY DEF ReqInv, ReqTypes
<1>2. \A d \in Convs : d # Conv(x) => meta'[d] = meta[d]
  BY DEF StoreMeta, ReqInv, ReqTypes
<1>3. Advances(x)
  BY <1>1, <1>2 DEF Advances, Kept, Inside, Conv
<1>4. Stored(x)'
  <2> SUFFICES ASSUME n.alone, n.sender = None PROVE Held(n, meta'[Conv(x)])
    BY <1>1 DEF Stored, Conv, Held
  <2>1. Held(req[x], meta[Conv(x)])
    BY DEF StoredInv, Stored
  <2> QED
    BY <2>1
<1>5. req'[x].pc # "done"
  BY <1>1 DEF Inside
<1> QED
  BY <1>3, <1>4, <1>5, StoredAdvance

\* The words.
LEMMA StoredKeyword ==
    ASSUME ReqInv, StoreTypes, MemoInv, FiledInv, FiledInv', StoredInv, NEW r \in Requests, ApplyKeyword(r)
    PROVE  StoredInv'
<1> DEFINE new == Switched(req[r].local, "on")
           n == Changed(r, new, "retrieve", "words")
<1>1. req[r] \in ReqType /\ req[r].pc = "keyword" /\ Memo(req[r]) /\ Conv(r) \in Convs
  BY OnItsWay DEF ApplyKeyword, MemoInv, ReqInv, ReqTypes, Inside
<1>2. new.mode = "on"
  BY <1>1, OnItsWay DEF Switched, Meta
<1>3. req' = [req EXCEPT ![r] = n] /\ meta' = StoreMeta(r, new) /\ rows' = rows
  BY DEF ApplyKeyword
<1> HIDE DEF new
<1>4. /\ n.pc = "retrieve" /\ n.written /\ n.conv = Conv(r) /\ n.alone = req[r].alone
      /\ n.sender = req[r].sender
  BY <1>1 DEF Changed, ReqType, Conv
<1> HIDE DEF n
<1>5. Held(req[r], meta[Conv(r)]) /\ n.sender = None => Held(n, meta'[Conv(r)])
  BY <1>1, <1>2, <1>3, <1>4 DEF Held, Memo, Inside, Unwritten, StoreMeta, ReqInv, ReqTypes
<1>6. req[r].pc \in Inside /\ n.pc \in Inside
  BY <1>1, <1>4 DEF Inside
<1> QED
  BY <1>3, <1>4, <1>5, <1>6, StoredTurn

\* The switch, which a request without one has not.
LEMMA StoredToggle ==
    ASSUME ReqInv, StoreTypes, MemoInv, FiledInv, FiledInv', StoredInv, NEW r \in Requests, ApplyToggle(r)
    PROVE  StoredInv'
<1> DEFINE new == Switched(req[r].local, req[r].flag)
           place == Following(r, new, FALSE)
           n == Changed(r, new, place, "switch")
<1>1. req[r] \in ReqType /\ req[r].pc = "toggle" /\ Memo(req[r]) /\ req[r].flag # "none"
  BY OnItsWay DEF ApplyToggle, MemoInv, ReqInv, ReqTypes
<1>2. place \in Inside
  BY DEF Following, Inside
<1>3. req' = [req EXCEPT ![r] = n] /\ meta' = StoreMeta(r, new) /\ rows' = rows
  BY DEF ApplyToggle
<1> HIDE DEF new, place
<1>4. n.pc = place /\ n.conv = Conv(r) /\ n.alone = req[r].alone /\ n.sender = req[r].sender
  BY <1>1 DEF Changed, ReqType, Conv
<1> HIDE DEF n
<1>5. n.sender # None
  BY <1>1, <1>4 DEF Memo, Inside
<1>6. req[r].pc \in Inside
  BY <1>1 DEF Inside
<1> QED
  BY <1>2, <1>3, <1>4, <1>5, <1>6, StoredTurn

\* The reply.
LEMMA StoredReply ==
    ASSUME ReqInv, StoreTypes, MemoInv, FiledInv, FiledInv', StoredInv, NEW r \in Requests, TakeReply(r)
    PROVE  StoredInv'
<1> DEFINE new == Replied(req[r].local, req[r].text)
           n == [Changed(r, new, "answer", "reply") EXCEPT !.told = new.mode]
<1>1. req[r] \in ReqType /\ req[r].pc = "reply" /\ Memo(req[r]) /\ Conv(r) \in Convs
  BY OnItsWay DEF TakeReply, MemoInv, ReqInv, ReqTypes, Inside
<1>2. req' = [req EXCEPT ![r] = n] /\ meta' = StoreMeta(r, new) /\ rows' = rows
  BY DEF TakeReply
<1> HIDE DEF new
<1>3. /\ n.pc = "answer" /\ n.conv = Conv(r) /\ n.alone = req[r].alone
      /\ n.sender = req[r].sender /\ n.told = new.mode
  BY <1>1 DEF Changed, ReqType, Conv
<1> HIDE DEF n
<1>4. Held(req[r], meta[Conv(r)]) /\ n.sender = None => Held(n, meta'[Conv(r)])
  BY <1>1, <1>2, <1>3 DEF Held, Memo, Inside, Unwritten, StoreMeta, ReqInv, ReqTypes
<1>5. req[r].pc \in Inside /\ n.pc \in Inside
  BY <1>1, <1>3 DEF Inside
<1> QED
  BY <1>2, <1>3, <1>4, <1>5, StoredTurn

\* A miss, chunks, or neither.
LEMMA StoredRetrieve ==
    ASSUME ReqInv, StoreTypes, MemoInv, FiledInv, FiledInv', StoredInv, NEW r \in Requests, Retrieve(r)
    PROVE  StoredInv'
<1>1. req[r] \in ReqType /\ req[r].pc = "retrieve" /\ Memo(req[r]) /\ Conv(r) \in Convs
      /\ req[r].pc \in Inside /\ "answer" \in Inside /\ req[r].local \in Meta /\ rows' = rows
  BY OnItsWay DEF Retrieve, MemoInv, ReqInv, ReqTypes, Inside
<1>2. req[r].sender = None => Unwritten(req[r]) \/ (req[r].written /\ req[r].local.mode = "on")
  BY <1>1 DEF Memo
<1>3. CASE Uncounted(r)
  <2> DEFINE n == [req[r] EXCEPT !.pc = "answer", !.told = req[r].local.mode]
  <2>1. req' = [req EXCEPT ![r] = n] /\ meta' = meta
    BY <1>3 DEF Uncounted, ReqInv, ReqTypes
  <2>2. /\ n.pc = "answer" /\ n.conv = Conv(r) /\ n.alone = req[r].alone
        /\ n.sender = req[r].sender /\ n.told = req[r].local.mode
    BY <1>1 DEF ReqType, Conv
  <2> HIDE DEF n
  <2>3. Held(req[r], meta[Conv(r)]) /\ n.sender = None => Held(n, meta'[Conv(r)])
    BY <1>1, <1>2, <2>1, <2>2 DEF Held, Unwritten
  <2> QED
    BY <1>1, <2>1, <2>2, <2>3, StoredTurn
<1>4. CASE Miss(r) /\ ~Uncounted(r)
  <2> DEFINE new == Missed(req[r].local, r)
             n == [Changed(r, new, "answer", "miss") EXCEPT !.told = new.mode]
  <2>1. req' = [req EXCEPT ![r] = n] /\ meta' = StoreMeta(r, new) /\ new.mode # req[r].local.mode
    BY <1>4 DEF Miss
  <2>2. req[r].local.mode # "on"
    BY <2>1 DEF Missed
  <2> HIDE DEF new
  <2>3. /\ n.pc = "answer" /\ n.conv = Conv(r) /\ n.alone = req[r].alone
        /\ n.sender = req[r].sender /\ n.told = new.mode
    BY <1>1 DEF Changed, ReqType, Conv
  <2> HIDE DEF n
  <2>4. Held(req[r], meta[Conv(r)]) /\ n.sender = None => Held(n, meta'[Conv(r)])
    BY <1>1, <1>2, <2>1, <2>2, <2>3 DEF Held, Unwritten, StoreMeta, ReqInv, ReqTypes
  <2> QED
    BY <1>1, <2>1, <2>3, <2>4, StoredTurn
<1>5. CASE FoundChunks(r) /\ ~Uncounted(r)
  <2> DEFINE new == [req[r].local EXCEPT !.misses = 0]
             n == [Changed(r, new, "answer", req[r].why) EXCEPT !.told = new.mode]
  <2>1. req' = [req EXCEPT ![r] = n] /\ meta' = StoreMeta(r, new)
    BY <1>5 DEF FoundChunks
  <2>2. new.mode = req[r].local.mode
    BY <1>1 DEF Meta
  <2> HIDE DEF new
  <2>3. /\ n.pc = "answer" /\ n.conv = Conv(r) /\ n.alone = req[r].alone
        /\ n.sender = req[r].sender /\ n.told = new.mode
    BY <1>1 DEF Changed, ReqType, Conv
  <2> HIDE DEF n
  <2>4. Held(req[r], meta[Conv(r)]) /\ n.sender = None => Held(n, meta'[Conv(r)])
    BY <1>1, <1>2, <2>1, <2>2, <2>3 DEF Held, Unwritten, StoreMeta, ReqInv, ReqTypes
  <2> QED
    BY <1>1, <2>1, <2>3, <2>4, StoredTurn
<1> QED
  BY <1>3, <1>4, <1>5 DEF Retrieve

\* A request reads its conversation, or saves its question or its answer.
LEMMA StoredSave ==
    ASSUME ReqInv, StoreTypes, MemoInv, FiledInv, FiledInv', StoredInv, NEW r \in Requests,
           Validate(r) \/ SaveUserMessage(r) \/ SaveAssistantMessage(r)
    PROVE  StoredInv'
<1>1. req[r] \in ReqType /\ Memo(req[r]) /\ \A q \in Requests : req[q] \in ReqType
  BY OnItsWay DEF MemoInv
<1>2. CASE Validate(r)
  <2> DEFINE n == [req[r] EXCEPT !.pc = "question", !.loaded = meta[Conv(r)],
                            !.local = meta[Conv(r)], !.history = HistoryOf(rows[Conv(r)]),
                            !.alone = Overlapping(r) = {}]
  <2>1. req'[r] = n /\ req[r].pc = "posted" /\ rows' = rows /\ meta' = meta
    BY <1>2 DEF Validate
  <2>2. /\ n.pc = "question" /\ n.loaded = meta[Conv(r)] /\ n.conv = Conv(r)
        /\ n.written = req[r].written /\ (n.alone => Overlapping(r) = {})
    BY <1>1 DEF ReqType, Conv
  <2> HIDE DEF n
  <2>3. ASSUME NEW q \in Requests \ {r} PROVE Kept(q) /\ (q \in Overlapping(r) => ~req'[q].alone)
    BY <1>1, <1>2 DEF Validate, Kept, ReqType
  <2>4. Advances(r)
    BY <2>1, <2>2, <2>3 DEF Advances, Overlapping, Inside, Conv
  <2>5. Stored(r)'
    BY <1>1, <2>1, <2>2 DEF Stored, Held, Memo, Conv
  <2> QED
    BY <2>1, <2>2, <2>4, <2>5, StoredAdvance
<1>3. CASE SaveUserMessage(r)
  <2>1. PICK place \in {"toggle", "keyword", "reply", "retrieve"} : req' = [req EXCEPT ![r].pc = place]
    BY <1>3 DEF SaveUserMessage, Goto, Following
  <2>2. req[r].pc = "question" /\ meta' = meta /\ rows' = [rows EXCEPT ![Conv(r)] = Append(@, Row("user", r))]
        /\ Conv(r) \in Convs
    BY <1>3 DEF SaveUserMessage, ReqInv, ReqTypes, Inside
  <2>3. \A q \in Requests : Kept(q) \/ q = r
    BY <2>1 DEF Kept, ReqInv, ReqTypes
  <2>4. /\ req'[r].pc = place /\ req'[r].conv = Conv(r) /\ req'[r].alone = req[r].alone
        /\ req'[r].sender = req[r].sender /\ req'[r].written = req[r].written
        /\ req'[r].loaded = req[r].loaded
    BY <1>1, <2>1 DEF ReqType, ReqInv, ReqTypes, Conv
  <2>5. \A d \in Convs : d # Conv(r) => rows'[d] = rows[d]
    BY <2>2 DEF StoreTypes
  <2>6. place \in Inside /\ place # "answer" /\ place # "done" /\ req[r].pc \in Inside
    BY <2>2 DEF Inside
  <2>7. Advances(r)
    BY <2>2, <2>3, <2>4, <2>5, <2>6 DEF Advances, Conv
  <2>8. Stored(r)'
    BY <2>2, <2>4, <2>6 DEF StoredInv, Stored, Held, Conv
  <2> QED
    BY <2>4, <2>6, <2>7, <2>8, StoredAdvance
<1>4. CASE SaveAssistantMessage(r)
  <2> DEFINE n == [NoRequest EXCEPT
                    !.pc = "done", !.sender = req[r].sender, !.conv = Conv(r),
                    !.alone = req[r].alone /\ req[r].sender = None, !.told = req[r].told,
                    !.why = IF req[r].why = "none" THEN "none" ELSE "agreed"]
  <2>1. req' = [req EXCEPT ![r] = n] /\ req[r].pc = "answer" /\ meta' = meta
        /\ rows' = [rows EXCEPT ![Conv(r)] = Append(@, Row("assistant", r))]
    BY <1>4 DEF SaveAssistantMessage, Finish
  <2>2. /\ n.pc = "done" /\ n.sender = req[r].sender /\ n.conv = Conv(r) /\ n.told = req[r].told
        /\ (n.alone => req[r].alone)
    BY DEF NoRequest
  <2> HIDE DEF n
  <2>3. req'[r] = n /\ \A q \in Requests : Kept(q) \/ q = r
    BY <2>1 DEF Kept, ReqInv, ReqTypes
  <2>4. \A d \in Convs : d # Conv(r) => rows'[d] = rows[d]
    BY <2>1 DEF StoreTypes
  <2>5. Advances(r)
    BY <2>1, <2>2, <2>3, <2>4 DEF Advances, Conv, Inside
  <2>6. Stored(r)'
    BY <2>2, <2>3 DEF Stored, Inside
  <2>7. req'[r].sender = None /\ req'[r].alone => meta'[req'[r].conv].mode = req'[r].told
    BY <2>1, <2>2, <2>3 DEF StoredInv, Stored, Held, Inside
  <2> QED
    BY <2>5, <2>6, <2>7, StoredAdvance
<1> QED
  BY <1>2, <1>3, <1>4

\* A request that is sent, gets its conversation, or ends without an answer.
LEMMA StoredAside ==
    ASSUME ReqInv, StoreTypes, FiledInv, FiledInv', StoredInv, NEW r \in Requests, NEW n,
           req' = [req EXCEPT ![r] = n], meta' = meta, rows' = rows,
           \/ req[r].pc \in {"idle", "create", "posted"} /\ n.pc \in {"create", "posted", "refused"}
           \/ req[r].pc \in {"retrieve", "answer"} /\ n.pc = "dropped" /\ n.conv = Conv(r)
    PROVE  StoredInv'
<1>1. req'[r] = n /\ \A q \in Requests : Kept(q) \/ q = r
  BY DEF Kept, ReqInv, ReqTypes
<1>2. Advances(r)
  BY <1>1 DEF Advances, Inside, Conv
<1>3. Stored(r)' /\ req'[r].pc # "done"
  BY <1>1 DEF Stored, Inside
<1> QED
  BY <1>2, <1>3, StoredAdvance

\* Every step keeps what is stored.
LEMMA StoredStep ==
    ConsentInv /\ MemoInv /\ FiledInv /\ FiledInv' /\ StoredInv /\ [ChatNext]_chatVars => StoredInv'
<1> SUFFICES ASSUME ConsentInv, MemoInv, FiledInv, FiledInv', StoredInv, [ChatNext]_chatVars PROVE StoredInv'
  OBVIOUS
<1> USE DEF ConsentInv
<1>1. \A r \in Requests : req[r] \in ReqType
  BY OnItsWay
<1>2. CASE UNCHANGED <<meta, rows, req>>
  <2>1. (\A r \in Requests : Unshared(r) /\ Stored(r))'
    BY <1>2 DEF StoredInv, Unshared, Stored, Overlapping, Conv
  <2>2. \A r \in Requests : Latest(r)' <=> Latest(r)
    BY <1>2 DEF Latest, AnsweredBefore, PlaceOf, Conv
  <2>3. ToldIsStored'
    BY <1>2, <2>2 DEF StoredInv, ToldIsStored, Conv
  <2> QED
    BY <2>1, <2>3 DEF StoredInv
<1>3. ASSUME NEW r \in Requests, CreateConversation(r) PROVE StoredInv'
  <2>1. PICK c \in Convs : req' = [req EXCEPT ![r].conv = c, ![r].pc = "posted"]
    BY <1>3 DEF CreateConversation
  <2> DEFINE n == [req[r] EXCEPT !.conv = c, !.pc = "posted"]
  <2>2. req' = [req EXCEPT ![r] = n] /\ rows' = rows /\ meta' = meta /\ req[r].pc = "create" /\ n.pc = "posted"
    BY <1>1, <1>3, <2>1 DEF CreateConversation, ReqInv, ReqTypes, ReqType
  <2> HIDE DEF n
  <2> QED
    BY <2>2, StoredAside
<1>4. ASSUME NEW r \in Requests, Refuse(r) \/ Drop(r) PROVE StoredInv'
  <2> DEFINE n(place) == [NoRequest EXCEPT
                    !.pc = place, !.sender = req[r].sender, !.conv = Conv(r),
                    !.alone = req[r].alone /\ req[r].sender = None, !.told = req[r].told,
                    !.why = IF req[r].why = "none" THEN "none" ELSE "agreed"]
  <2>1. PICK place \in {"refused", "dropped"} :
           /\ req' = [req EXCEPT ![r] = n(place)] /\ rows' = rows /\ meta' = meta
           /\ req[r].pc \in IF place = "refused" THEN {"create", "posted"} ELSE {"retrieve", "answer"}
    BY <1>4 DEF Refuse, Drop, Finish
  <2>2. n(place).pc = place /\ n(place).conv = Conv(r)
    BY DEF NoRequest
  <2> HIDE DEF n
  <2> QED
    BY <2>1, <2>2, StoredAside
<1>5. ASSUME NEW r \in Requests, NEW text \in Texts,
             ApiSend(r, text) \/ \E p \in Pages, toggle \in BOOLEAN : Submit(p, r, text, toggle)
      PROVE  StoredInv'
  <2>1. PICK n : req' = [req EXCEPT ![r] = n] /\ n.pc \in {"create", "posted"}
    BY <1>5, SentPlace
  <2>2. rows' = rows /\ meta' = meta /\ req[r].pc = "idle"
    BY <1>5 DEF ApiSend, Submit, IsNext
  <2> QED
    BY <2>1, <2>2, StoredAside
<1>6. ASSUME NEW r \in Requests, Serve(r) PROVE StoredInv'
  BY <1>3, <1>6, StoredKeyword, StoredToggle, StoredReply, StoredRetrieve, StoredSave DEF Serve
<1>7. ASSUME NEW p \in Pages, PageStep(p) PROVE StoredInv'
  BY <1>2, <1>7 DEF PageStep, ListConversations, ShowHistory, Receive, GiveUp
<1> QED
  BY <1>2, <1>4, <1>5, <1>6, <1>7 DEF ChatNext, chatVars

-----------------------------------------------------------------------------
(* What a page shows: PageShowsRows.                                       *)

\* A request under way is the one its page waits for; a page that was not early knows
\* its conversation and the request it waits for goes there.
WaitsFor(p) ==
    /\ page[p].history # "listing" => page[p].conv \in Convs
    /\ page[p].history # "shown" /\ ~page[p].early => page[p].busy = None
    /\ page[p].busy # None =>
          /\ req[page[p].busy].sender = p /\ req[page[p].busy].pc \notin {"idle"}
          /\ ~page[p].early =>
                req[page[p].busy].conv = page[p].conv /\ req[page[p].busy].pc # "create"

SentBy(r) ==
    /\ req[r].pc \in {"idle", "create"} => req[r].conv = None
    /\ req[r].pc = "create" => req[r].sender # None
    /\ req[r].sender # None =>
          /\ req[r].sender \in Pages
          /\ req[r].pc \notin Ended \union {"idle"} => page[req[r].sender].busy = r
          /\ req[r].pc = "create" => page[req[r].sender].early

WaitInv == (\A p \in Pages : WaitsFor(p)) /\ \A r \in Requests : SentBy(r)

Like(bubble, row) ==
    /\ bubble.role = row.role /\ bubble.of = row.of
    /\ row.role = "assistant" => bubble.texts = {row.of}

\* How many rows of a request under way have been saved.
Saved(place) == IF place \in {"posted", "question"} THEN 0 ELSE IF place = "done" THEN 2 ELSE 1

\* The bubbles b show the rows s, or, while request r is under way, the rows before its own.
Mirror(b, s, r, saved) ==
    IF r = None
    THEN Len(s) = Len(b) /\ \A i \in 1..Len(b) : Like(b[i], s[i])
    ELSE \E k \in 0..Len(b) :
            /\ Len(b) = k + 2 /\ Len(s) = k + saved
            /\ \A i \in 1..k : Like(b[i], s[i])
            /\ b[k + 1] = Bubble("user", r) /\ b[k + 2] = Bubble("assistant", r)
            /\ saved >= 1 => s[k + 1] = Row("user", r)
            /\ saved = 2 => s[k + 2] = Row("assistant", r)

\* The page came with the history, and its conversation has no other client and has
\* lost no request.
Own(p) ==
    /\ page[p].history = "shown" /\ ~page[p].early
    /\ \A r \in Requests : req[r].conv = page[p].conv =>
          req[r].sender = p /\ req[r].pc \notin {"refused", "dropped"}

Mirrors(p) ==
    Mirror(page[p].bubbles, rows[page[p].conv], page[p].busy,
           IF page[p].busy = None THEN 0 ELSE Saved(req[page[p].busy].pc))

ShownInv == WaitInv /\ \A p \in Pages : Own(p) => Mirrors(p)

\* What a request's step leaves of who waits for whom.
Onward(r) ==
    /\ req'[r].sender = req[r].sender /\ req'[r].conv = req[r].conv
    /\ req[r].pc \in Ended \union {"idle"} => req'[r].pc = req[r].pc
    /\ req'[r].pc \in {"idle", "create"} => req'[r].pc = req[r].pc

\* Requests that go on keep who waits for whom.
LEMMA WaitOnward ==
    ASSUME ReqTypes, StoreTypes, WaitInv, page' = page, \A r \in Requests : Onward(r)
    PROVE  WaitInv'
<1>1. ASSUME NEW p \in Pages PROVE WaitsFor(p)'
  <2>1. WaitsFor(p) /\ page[p].busy \in Requests \union {None}
    BY DEF WaitInv, StoreTypes, PageType
  <2>2. page[p].busy # None => Onward(page[p].busy)
    BY <2>1
  <2> QED
    BY <2>1, <2>2 DEF WaitsFor, Onward
<1>2. ASSUME NEW r \in Requests PROVE SentBy(r)'
  <2>1. SentBy(r) /\ Onward(r)
    BY DEF WaitInv
  <2> QED
    BY <2>1 DEF SentBy, Onward, Ended
<1> QED
  BY <1>1, <1>2 DEF WaitInv

\* A request that goes on and saves what its place says keeps what pages show.
LEMMA ShownOnward ==
    ASSUME ReqInv, StoreTypes, ShownInv, page' = page, NEW r \in Requests,
           \A q \in Requests : Onward(q),
           \A q \in Requests \ {r} : req'[q].pc = req[q].pc,
           req[r].pc \notin Ended \union {"idle", "create"},
           req'[r].pc \notin {"refused", "dropped"} =>
              \A c \in Convs : c = Conv(r) =>
                \/ rows'[c] = rows[c] /\ Saved(req'[r].pc) = Saved(req[r].pc)
                \/ /\ Saved(req[r].pc) = 0 /\ Saved(req'[r].pc) = 1
                   /\ rows'[c] = Append(rows[c], Row("user", r))
                \/ /\ Saved(req[r].pc) = 1 /\ Saved(req'[r].pc) = 2
                   /\ rows'[c] = Append(rows[c], Row("assistant", r)),
           \A c \in Convs : c # Conv(r) => rows'[c] = rows[c]
    PROVE  ShownInv'
<1>1. WaitInv'
  BY WaitOnward DEF ReqInv, ShownInv
<1>2. ASSUME NEW p \in Pages, Own(p)' PROVE Mirrors(p)'
  <2>1. Own(p) /\ Mirrors(p) /\ WaitsFor(p)
    <3>1. Own(p)
      <4> SUFFICES ASSUME NEW q \in Requests, req[q].conv = page[p].conv
                   PROVE  req[q].sender = p /\ req[q].pc \notin {"refused", "dropped"}
        BY <1>2 DEF Own
      <4>1. Onward(q)
        OBVIOUS
      <4>2. req'[q].sender = p /\ req'[q].pc \notin {"refused", "dropped"}
        BY <1>2, <4>1 DEF Onward, Own
      <4> QED
        BY <4>1, <4>2 DEF Onward, Ended
    <3> QED
      BY <3>1 DEF ShownInv, WaitInv
  <2>2. PICK c \in Convs : c = page[p].conv
    BY <2>1 DEF Own, WaitsFor
  <2>3. PICK b : b = page[p].bubbles /\ b \in Seq(BubbleSet)
    BY DEF StoreTypes, PageType
  <2>4. PICK w \in Requests \union {None} : w = page[p].busy
    BY DEF StoreTypes, PageType
  <2>5. rows[c] \in Seq(RowSet)
    BY DEF StoreTypes
  <2>6. Mirror(b, rows[c], w, IF w = None THEN 0 ELSE Saved(req[w].pc))
    BY <2>1, <2>2, <2>3, <2>4 DEF Mirrors
  <2>7. Mirrors(p)' <=> Mirror(b, rows'[c], w, IF w = None THEN 0 ELSE Saved(req'[w].pc))
    BY <2>2, <2>3, <2>4 DEF Mirrors
  <2>8. CASE Conv(r) # c
    <3>1. rows'[c] = rows[c]
      BY <2>8
    <3>2. w # r
      BY <2>1, <2>2, <2>4, <2>8, ConversationAssumption DEF Own, WaitsFor, Conv
    <3>3. w # None => req'[w].pc = req[w].pc
      BY <3>2
    <3> QED
      BY <2>6, <2>7, <3>1, <3>3
  <2>9. CASE Conv(r) = c
    <3>1. req'[r].conv = page'[p].conv
      BY <2>2, <2>9 DEF Onward, Conv
    <3>2. req[r].sender = p /\ req'[r].pc \notin {"refused", "dropped"}
      BY <1>2, <3>1 DEF Own, Onward
    <3>3. w = r
      <4>1. SentBy(r)
        BY DEF ShownInv, WaitInv
      <4> QED
        BY <2>4, <3>2, <4>1, ConversationAssumption DEF SentBy
    <3>4. w # None
      BY <3>3, ConversationAssumption
    <3>5. Mirror(b, rows[c], r, Saved(req[r].pc))
      BY <2>6, <3>3, <3>4
    <3>6. PICK k \in 0..Len(b) :
            /\ Len(b) = k + 2 /\ Len(rows[c]) = k + Saved(req[r].pc)
            /\ \A i \in 1..k : Like(b[i], rows[c][i])
            /\ b[k + 1] = Bubble("user", r) /\ b[k + 2] = Bubble("assistant", r)
            /\ Saved(req[r].pc) >= 1 => rows[c][k + 1] = Row("user", r)
            /\ Saved(req[r].pc) = 2 => rows[c][k + 2] = Row("assistant", r)
      BY <3>3, <3>4, <3>5 DEF Mirror
    <3>7. /\ Len(rows'[c]) = k + Saved(req'[r].pc)
          /\ \A i \in 1..k : rows'[c][i] = rows[c][i]
          /\ Saved(req'[r].pc) >= 1 => rows'[c][k + 1] = Row("user", r)
          /\ Saved(req'[r].pc) = 2 => rows'[c][k + 2] = Row("assistant", r)
      <4>1. CASE rows'[c] = rows[c] /\ Saved(req'[r].pc) = Saved(req[r].pc)
        BY <3>6, <4>1
      <4>2. CASE /\ Saved(req[r].pc) = 0 /\ Saved(req'[r].pc) = 1
                 /\ rows'[c] = Append(rows[c], Row("user", r))
        BY <2>5, <3>6, <4>2
      <4>3. CASE /\ Saved(req[r].pc) = 1 /\ Saved(req'[r].pc) = 2
                 /\ rows'[c] = Append(rows[c], Row("assistant", r))
        BY <2>5, <3>6, <4>3
      <4> QED
        BY <2>9, <3>2, <4>1, <4>2, <4>3
    <3>8. \A i \in 1..k : Like(b[i], rows'[c][i])
      BY <3>6, <3>7
    <3>9. Mirror(b, rows'[c], r, Saved(req'[r].pc))
      BY <3>3, <3>4, <3>6, <3>7, <3>8 DEF Mirror
    <3> QED
      BY <2>7, <3>3, <3>4, <3>9
  <2> QED
    BY <2>8, <2>9
<1> QED
  BY <1>1, <1>2 DEF ShownInv

\* A request at the endpoint goes on.
LEMMA ShownServe ==
    ASSUME ReqInv, StoreTypes, ShownInv, NEW r \in Requests,
           \/ Validate(r) \/ SaveUserMessage(r) \/ ApplyToggle(r) \/ ApplyKeyword(r) \/ TakeReply(r)
           \/ Retrieve(r) \/ SaveAssistantMessage(r) \/ Drop(r)
    PROVE  ShownInv'
<1>1. req[r] \in ReqType /\ (\A q \in Requests : req[q] \in ReqType) /\ page' = page
      /\ Conv(r) \in Convs
  BY OnItsWay DEF Validate, SaveUserMessage, ApplyToggle, ApplyKeyword, TakeReply, Retrieve,
                  SaveAssistantMessage, Drop, ReqInv, ReqTypes, Inside
<1>2. CASE Validate(r)
  <2>1. /\ req'[r].pc = "question" /\ req[r].pc = "posted" /\ rows' = rows
        /\ req'[r].sender = req[r].sender /\ req'[r].conv = req[r].conv
    BY <1>1, <1>2 DEF Validate, ReqType
  <2>2. ASSUME NEW q \in Requests \ {r}
        PROVE  req'[q].pc = req[q].pc /\ req'[q].conv = req[q].conv /\ req'[q].sender = req[q].sender
    BY <1>1, <1>2 DEF Validate, ReqType
  <2>3. \A q \in Requests : Onward(q)
    BY <2>1, <2>2 DEF Onward, Ended
  <2>4. Saved(req'[r].pc) = Saved(req[r].pc) /\ req[r].pc \notin Ended \union {"idle", "create"}
    BY <2>1 DEF Saved, Ended
  <2> QED
    BY <1>1, <2>1, <2>2, <2>3, <2>4, ShownOnward
<1>3. ASSUME NEW n, req' = [req EXCEPT ![r] = n], n.conv = Conv(r), n.sender = req[r].sender,
             n.pc \notin {"idle", "create"}
      PROVE  /\ req'[r] = n /\ \A q \in Requests \ {r} : req'[q].pc = req[q].pc
             /\ req[r].pc \notin Ended \union {"idle"} => \A q \in Requests : Onward(q)
  BY <1>3 DEF ReqInv, ReqTypes, Onward, Conv
<1>4. CASE SaveUserMessage(r)
  <2>1. PICK place \in {"toggle", "keyword", "reply", "retrieve"} : req' = [req EXCEPT ![r].pc = place]
    BY <1>4 DEF SaveUserMessage, Goto, Following
  <2> DEFINE n == [req[r] EXCEPT !.pc = place]
  <2>2. req' = [req EXCEPT ![r] = n] /\ n.pc = place /\ n.conv = Conv(r) /\ n.sender = req[r].sender
    BY <1>1, <2>1 DEF ReqType, ReqInv, ReqTypes, Conv
  <2> HIDE DEF n
  <2>3. req[r].pc = "question" /\ rows' = [rows EXCEPT ![Conv(r)] = Append(@, Row("user", r))]
    BY <1>4 DEF SaveUserMessage
  <2>4. req[r].pc \notin Ended \union {"idle", "create"}
    BY <2>3 DEF Ended
  <2>5. \A q \in Requests : Onward(q)
    BY <1>3, <2>2, <2>4
  <2>6. req'[r].pc = place /\ \A q \in Requests \ {r} : req'[q].pc = req[q].pc
    BY <1>3, <2>2
  <2>7. Saved(req[r].pc) = 0 /\ Saved(req'[r].pc) = 1
    BY <2>3, <2>6 DEF Saved
  <2>8. rows'[Conv(r)] = Append(rows[Conv(r)], Row("user", r)) /\ \A c \in Convs : c # Conv(r) => rows'[c] = rows[c]
    BY <1>1, <2>3 DEF StoreTypes
  <2> QED
    BY <1>1, <2>4, <2>5, <2>6, <2>7, <2>8, ShownOnward
<1>5. CASE SaveAssistantMessage(r)
  <2> DEFINE n == [NoRequest EXCEPT
                    !.pc = "done", !.sender = req[r].sender, !.conv = Conv(r),
                    !.alone = req[r].alone /\ req[r].sender = None, !.told = req[r].told,
                    !.why = IF req[r].why = "none" THEN "none" ELSE "agreed"]
  <2>1. req' = [req EXCEPT ![r] = n] /\ req[r].pc = "answer"
        /\ rows' = [rows EXCEPT ![Conv(r)] = Append(@, Row("assistant", r))]
    BY <1>5 DEF SaveAssistantMessage, Finish
  <2>2. n.pc = "done" /\ n.sender = req[r].sender /\ n.conv = Conv(r)
    BY DEF NoRequest
  <2> HIDE DEF n
  <2>3. req[r].pc \notin Ended \union {"idle", "create"}
    BY <2>1 DEF Ended
  <2>4. \A q \in Requests : Onward(q)
    BY <1>3, <2>1, <2>2, <2>3
  <2>5. req'[r].pc = "done" /\ \A q \in Requests \ {r} : req'[q].pc = req[q].pc
    BY <1>3, <2>1, <2>2
  <2>6. Saved(req[r].pc) = 1 /\ Saved(req'[r].pc) = 2
    BY <2>1, <2>5 DEF Saved
  <2>7. rows'[Conv(r)] = Append(rows[Conv(r)], Row("assistant", r)) /\ \A c \in Convs : c # Conv(r) => rows'[c] = rows[c]
    BY <1>1, <2>1 DEF StoreTypes
  <2> QED
    BY <1>1, <2>3, <2>4, <2>5, <2>6, <2>7, ShownOnward
<1>6. CASE Drop(r)
  <2> DEFINE n == [NoRequest EXCEPT
                    !.pc = "dropped", !.sender = req[r].sender, !.conv = Conv(r),
                    !.alone = req[r].alone /\ req[r].sender = None, !.told = req[r].told,
                    !.why = IF req[r].why = "none" THEN "none" ELSE "agreed"]
  <2>1. req' = [req EXCEPT ![r] = n] /\ req[r].pc \in {"retrieve", "answer"} /\ rows' = rows
    BY <1>6 DEF Drop, Finish
  <2>2. n.pc = "dropped" /\ n.sender = req[r].sender /\ n.conv = Conv(r)
    BY DEF NoRequest
  <2> HIDE DEF n
  <2>3. req[r].pc \notin Ended \union {"idle", "create"}
    BY <2>1 DEF Ended
  <2>4. \A q \in Requests : Onward(q)
    BY <1>3, <2>1, <2>2, <2>3
  <2>5. req'[r].pc = "dropped" /\ \A q \in Requests \ {r} : req'[q].pc = req[q].pc
    BY <1>3, <2>1, <2>2
  <2> QED
    BY <1>1, <2>1, <2>3, <2>4, <2>5, ShownOnward
<1>7. CASE ApplyToggle(r) \/ ApplyKeyword(r) \/ TakeReply(r) \/ Retrieve(r)
  <2>1. PICK n : req' = [req EXCEPT ![r] = n] /\ n.conv = Conv(r) /\ n.sender = req[r].sender
                 /\ n.pc \in {"keyword", "reply", "retrieve", "answer"}
    BY <1>1, <1>7, TurnPlace DEF Moves, ReqInv
  <2>2. req[r].pc \in {"toggle", "keyword", "reply", "retrieve"} /\ rows' = rows
    BY <1>7 DEF ApplyToggle, ApplyKeyword, TakeReply, Retrieve
  <2>3. req[r].pc \notin Ended \union {"idle", "create"}
    BY <2>2 DEF Ended
  <2>4. \A q \in Requests : Onward(q)
    BY <1>3, <2>1, <2>3
  <2>5. req'[r].pc = n.pc /\ \A q \in Requests \ {r} : req'[q].pc = req[q].pc
    BY <1>3, <2>1
  <2>6. Saved(req'[r].pc) = Saved(req[r].pc)
    BY <2>1, <2>2, <2>5 DEF Saved
  <2> QED
    BY <1>1, <2>2, <2>3, <2>4, <2>5, <2>6, ShownOnward
<1> QED
  BY <1>2, <1>4, <1>5, <1>6, <1>7

\* Only pages whose conversation, bubbles or request under way a step touches are to be
\* looked at.
LEMMA ShownOthers ==
    ASSUME StoreTypes, ShownInv, NEW p \in Pages, page'[p] = page[p], Own(p)', rows' = rows,
           NEW r \in Requests, r # page[p].busy, \A q \in Requests \ {r} : req'[q] = req[q],
           req[r].conv # page[p].conv \/ page[p].conv \notin Convs
    PROVE  Mirrors(p)'
<1>1. WaitsFor(p) /\ page[p].busy \in Requests \union {None}
  BY DEF ShownInv, WaitInv, StoreTypes, PageType
<1>2. Own(p)
  <2>1. page[p].history = "shown" /\ ~page[p].early /\ page[p].conv \in Convs
    BY <1>1 DEF Own, WaitsFor
  <2>2. ASSUME NEW q \in Requests, req[q].conv = page[p].conv
        PROVE  req[q].sender = p /\ req[q].pc \notin {"refused", "dropped"}
    <3>1. q # r
      BY <2>1, <2>2
    <3> QED
      BY <2>2, <3>1 DEF Own
  <2> QED
    BY <2>1, <2>2 DEF Own
<1>3. Mirrors(p)
  BY <1>2 DEF ShownInv
<1>4. page[p].busy # None => req'[page[p].busy] = req[page[p].busy]
  BY <1>1
<1> QED
  BY <1>3, <1>4 DEF Mirrors

\* A request that has not reached its conversation, or has none.
LEMMA ShownRefuse ==
    ASSUME ReqInv, StoreTypes, ShownInv, NEW r \in Requests, Refuse(r) PROVE ShownInv'
<1> DEFINE n == [NoRequest EXCEPT
                    !.pc = "refused", !.sender = req[r].sender, !.conv = Conv(r),
                    !.alone = req[r].alone /\ req[r].sender = None, !.told = req[r].told,
                    !.why = IF req[r].why = "none" THEN "none" ELSE "agreed"]
<1>1. req' = [req EXCEPT ![r] = n] /\ req[r].pc \in {"create", "posted"} /\ rows' = rows /\ page' = page
  BY DEF Refuse, Finish
<1>2. n.pc = "refused" /\ n.sender = req[r].sender /\ n.conv = Conv(r)
  BY DEF NoRequest
<1> HIDE DEF n
<1>3. req'[r] = n /\ \A q \in Requests \ {r} : req'[q] = req[q]
  BY <1>1 DEF ReqInv, ReqTypes
<1>4. \A q \in Requests : Onward(q)
  BY <1>1, <1>2, <1>3 DEF Onward, Conv, Ended
<1>5. CASE req[r].pc = "posted"
  <2>1. req[r].pc \notin Ended \union {"idle", "create"}
    BY <1>5 DEF Ended
  <2> QED
    BY <1>1, <1>2, <1>3, <1>4, <2>1, ShownOnward
<1>6. CASE req[r].pc = "create"
  <2>1. SentBy(r) /\ req[r].conv \notin Convs
    BY <1>6, ConversationAssumption DEF ShownInv, WaitInv, SentBy
  <2>2. ASSUME NEW p \in Pages, Own(p)' PROVE Mirrors(p)'
    <3>1. WaitsFor(p)
      BY DEF ShownInv, WaitInv
    <3>2. r # page[p].busy
      BY <1>1, <1>6, <2>2, <3>1, ConversationAssumption DEF Own, WaitsFor
    <3>3. page'[p] = page[p] /\ (req[r].conv # page[p].conv \/ page[p].conv \notin Convs)
      BY <1>1, <2>1
    <3> QED
      BY <1>1, <1>3, <2>2, <3>2, <3>3, ShownOthers
  <2>3. WaitInv'
    BY <1>1, <1>4, WaitOnward DEF ReqInv, ShownInv
  <2> QED
    BY <2>2, <2>3 DEF ShownInv
<1> QED
  BY <1>1, <1>5, <1>6

\* The page has its conversation made: it was early.
LEMMA ShownCreate ==
    ASSUME ReqInv, StoreTypes, ShownInv, NEW r \in Requests, CreateConversation(r) PROVE ShownInv'
<1>1. PICK c \in Convs : /\ req' = [req EXCEPT ![r].conv = c, ![r].pc = "posted"]
                         /\ page' = [page EXCEPT ![req[r].sender].conv = c,
                                        ![req[r].sender].bubbles = Append(@, Bubble("assistant", r))]
  BY DEF CreateConversation
<1>2. req[r].pc = "create" /\ rows' = rows /\ req[r] \in ReqType
  BY OnItsWay DEF CreateConversation
<1>3. /\ req'[r].conv = c /\ req'[r].pc = "posted" /\ req'[r].sender = req[r].sender
      /\ \A q \in Requests \ {r} : req'[q] = req[q]
  BY <1>1, <1>2 DEF ReqInv, ReqTypes, ReqType
<1>4. PICK s \in Pages : req[r].sender = s /\ page[s].busy = r /\ page[s].early /\ req[r].conv = None
  BY <1>2, ConversationAssumption DEF ShownInv, WaitInv, SentBy, Ended
<1>5. page[s] \in PageType
  BY DEF StoreTypes
<1>6. /\ page'[s].conv = c /\ page'[s].busy = r /\ page'[s].early /\ page'[s].history = page[s].history
      /\ \A p \in Pages \ {s} : page'[p] = page[p]
  BY <1>1, <1>4, <1>5 DEF StoreTypes, PageType
<1>7. ASSUME NEW p \in Pages \ {s}
      PROVE  WaitsFor(p) /\ page[p].busy \in Requests \union {None} /\ page[p].busy # r
  <2>1. WaitsFor(p) /\ page[p].busy \in Requests \union {None}
    BY DEF ShownInv, WaitInv, StoreTypes, PageType
  <2>2. page[p].busy = r => req[r].sender = p
    BY <2>1, ConversationAssumption DEF WaitsFor
  <2> QED
    BY <1>4, <2>1, <2>2
<1>8. ASSUME NEW p \in Pages PROVE WaitsFor(p)'
  <2>1. CASE p = s
    BY <1>3, <1>4, <1>6, <2>1 DEF WaitsFor
  <2>2. CASE p # s
    <3>1. page'[p] = page[p] /\ (page[p].busy # None => req'[page[p].busy] = req[page[p].busy])
      BY <1>3, <1>6, <1>7, <2>2
    <3> QED
      BY <1>7, <2>2, <3>1 DEF WaitsFor
  <2> QED
    BY <2>1, <2>2
<1>9. ASSUME NEW q \in Requests PROVE SentBy(q)'
  <2>1. SentBy(q) /\ \A p \in Pages : page'[p].busy = page[p].busy /\ page'[p].early = page[p].early
    <3>1. page'[s].busy = page[s].busy /\ page'[s].early = page[s].early
      BY <1>4, <1>5, <1>6 DEF PageType
    <3>2. \A p \in Pages \ {s} : page'[p].busy = page[p].busy /\ page'[p].early = page[p].early
      BY <1>6
    <3>3. SentBy(q)
      BY DEF ShownInv, WaitInv
    <3> QED
      BY <3>1, <3>2, <3>3
  <2>2. CASE q = r
    BY <1>3, <1>4, <1>6, <2>2 DEF SentBy
  <2>3. CASE q # r
    BY <1>3, <2>1, <2>3 DEF SentBy
  <2> QED
    BY <2>2, <2>3
<1>10. ASSUME NEW p \in Pages, Own(p)' PROVE Mirrors(p)'
  <2>1. p # s
    BY <1>6, <1>10 DEF Own
  <2>2. page'[p] = page[p] /\ r # page[p].busy
    BY <1>6, <1>7, <2>1
  <2>3. req[r].conv # page[p].conv \/ page[p].conv \notin Convs
    BY <1>4, ConversationAssumption
  <2> QED
    BY <1>2, <1>3, <1>10, <2>2, <2>3, ShownOthers
<1> QED
  BY <1>8, <1>9, <1>10 DEF ShownInv, WaitInv

\* Another client sends a message.
LEMMA ShownApi ==
    ASSUME ReqInv, StoreTypes, ShownInv, NEW r \in Requests, NEW text, ApiSend(r, text) PROVE ShownInv'
<1> DEFINE n == [NoRequest EXCEPT !.text = text, !.conv = made[Len(made)], !.pc = "posted"]
<1>1. req' = [req EXCEPT ![r] = n] /\ req[r].pc = "idle" /\ rows' = rows /\ page' = page
  BY DEF ApiSend, IsNext
<1>2. n.pc = "posted" /\ n.sender = None
  BY DEF NoRequest
<1> HIDE DEF n
<1>3. req'[r] = n /\ \A q \in Requests \ {r} : req'[q] = req[q]
  BY <1>1 DEF ReqInv, ReqTypes
<1>4. ASSUME NEW p \in Pages
      PROVE  WaitsFor(p) /\ page[p].busy \in Requests \union {None} /\ page[p].busy # r
  BY <1>1, ConversationAssumption DEF ShownInv, WaitInv, WaitsFor, StoreTypes, PageType
<1>5. ASSUME NEW p \in Pages PROVE WaitsFor(p)'
  <2>1. page'[p] = page[p] /\ (page[p].busy # None => req'[page[p].busy] = req[page[p].busy])
    BY <1>1, <1>3, <1>4
  <2> QED
    BY <1>4, <2>1 DEF WaitsFor
<1>6. ASSUME NEW q \in Requests PROVE SentBy(q)'
  BY <1>1, <1>2, <1>3 DEF ShownInv, WaitInv, SentBy
<1>7. req[r].conv \notin Convs
  BY <1>1, ConversationAssumption DEF ShownInv, WaitInv, SentBy
<1>8. ASSUME NEW p \in Pages, Own(p)' PROVE Mirrors(p)'
  <2>1. page'[p] = page[p] /\ r # page[p].busy /\ (req[r].conv # page[p].conv \/ page[p].conv \notin Convs)
    BY <1>1, <1>4, <1>7
  <2> QED
    BY <1>1, <1>3, <1>8, <2>1, ShownOthers
<1> QED
  BY <1>5, <1>6, <1>8 DEF ShownInv, WaitInv

\* A page sends a message: below what it shows come the question and the empty answer.
LEMMA ShownSubmit ==
    ASSUME ReqInv, StoreTypes, ShownInv, NEW r \in Requests, NEW text, NEW p \in Pages, NEW toggle \in BOOLEAN,
           Submit(p, r, text, toggle)
    PROVE  ShownInv'
<1> DEFINE n == [NoRequest EXCEPT
                     !.sender = p, !.text = text, !.conv = page[p].conv,
                     !.flag = IF toggle THEN "on" ELSE "off",
                     !.pc = IF page[p].conv # None THEN "posted" ELSE "create"]
           more == IF page[p].conv # None THEN <<Bubble("user", r), Bubble("assistant", r)>>
                   ELSE <<Bubble("user", r)>>
<1>1. req' = [req EXCEPT ![r] = n] /\ req[r].pc = "idle" /\ rows' = rows /\ page[p].busy = None
  BY DEF Submit, IsNext
<1>2. n.pc = (IF page[p].conv # None THEN "posted" ELSE "create") /\ n.sender = p /\ n.conv = page[p].conv
  BY DEF NoRequest
<1>3. page[p] \in PageType /\ page[p].bubbles \in Seq(BubbleSet)
  BY DEF StoreTypes, PageType
<1>4. /\ page'[p].busy = r /\ page'[p].early = (page[p].early \/ page[p].history # "shown")
      /\ page'[p].conv = page[p].conv /\ page'[p].history = page[p].history
      /\ page'[p].bubbles = page[p].bubbles \o more
      /\ \A q \in Pages \ {p} : page'[q] = page[q]
  BY <1>3 DEF Submit, StoreTypes, PageType
<1> HIDE DEF n
<1>5. req'[r] = n /\ \A q \in Requests \ {r} : req'[q] = req[q]
  BY <1>1 DEF ReqInv, ReqTypes
<1>6. ASSUME NEW q \in Pages
      PROVE  WaitsFor(q) /\ page[q].busy \in Requests \union {None} /\ page[q].busy # r
             /\ page[q].conv \in Convs \union {None}
  BY <1>1, ConversationAssumption DEF ShownInv, WaitInv, WaitsFor, StoreTypes, PageType
<1>7. page[p].history = "shown" => page[p].conv \in Convs /\ page[p].conv # None
  BY <1>6, ConversationAssumption DEF WaitsFor
<1>8. ASSUME NEW q \in Pages PROVE WaitsFor(q)'
  <2>1. CASE q = p
    <3>1. WaitsFor(p)
      BY <1>6
    <3> QED
      BY <1>2, <1>4, <1>5, <1>7, <2>1, <3>1 DEF WaitsFor
  <2>2. CASE q # p
    <3>1. page'[q] = page[q] /\ (page[q].busy # None => req'[page[q].busy] = req[page[q].busy])
      BY <1>4, <1>5, <1>6, <2>2
    <3> QED
      BY <1>6, <3>1 DEF WaitsFor
  <2> QED
    BY <2>1, <2>2
<1>9. ASSUME NEW q \in Requests PROVE SentBy(q)'
  <2>1. SentBy(q)
    BY DEF ShownInv, WaitInv
  <2>2. CASE q = r
    <3>1. page[p].conv = None => page'[p].early
      BY <1>4, <1>7
    <3>2. n.pc = "create" => page[p].conv = None
      BY <1>2
    <3>3. n.pc # "idle" /\ p # None
      BY <1>2, ConversationAssumption
    <3> QED
      BY <1>2, <1>4, <1>5, <2>2, <3>1, <3>2, <3>3 DEF SentBy
  <2>3. CASE q # r
    <3>1. req'[q] = req[q]
      BY <1>5, <2>3
    <3>2. req[q].sender = p => req[q].pc \in Ended \union {"idle"}
      BY <1>1, <2>1, ConversationAssumption DEF SentBy
    <3>3. "create" \notin Ended \union {"idle"}
      BY DEF Ended
    <3> QED
      BY <1>4, <2>1, <3>1, <3>2, <3>3 DEF SentBy
  <2> QED
    BY <2>2, <2>3
<1>10. req[r].conv \notin Convs
  BY <1>1, ConversationAssumption DEF ShownInv, WaitInv, SentBy
<1>11. ASSUME NEW q \in Pages \ {p}, Own(q)' PROVE Mirrors(q)'
  <2>1. page'[q] = page[q] /\ r # page[q].busy /\ (req[r].conv # page[q].conv \/ page[q].conv \notin Convs)
    BY <1>4, <1>6, <1>10
  <2> QED
    BY <1>1, <1>5, <1>11, <2>1, ShownOthers
<1>12. ASSUME Own(p)' PROVE Mirrors(p)'
  <2>1. page[p].history = "shown" /\ ~page[p].early /\ page[p].conv \in Convs /\ page[p].conv # None
    BY <1>4, <1>7, <1>12 DEF Own
  <2>2. Own(p)
    <3> SUFFICES ASSUME NEW q \in Requests, req[q].conv = page[p].conv
                 PROVE  req[q].sender = p /\ req[q].pc \notin {"refused", "dropped"}
      BY <2>1 DEF Own
    <3>1. q # r
      BY <1>10, <2>1
    <3> QED
      BY <1>4, <1>5, <1>12, <3>1 DEF Own
  <2>3. PICK b \in Seq(BubbleSet) : b = page[p].bubbles
    BY <1>3
  <2>4. PICK s : s = rows[page[p].conv]
    OBVIOUS
  <2>5. Mirror(b, s, None, 0)
    BY <1>1, <2>2, <2>3, <2>4 DEF ShownInv, Mirrors
  <2> DEFINE k == Len(b)
             more2 == <<Bubble("user", r), Bubble("assistant", r)>>
             b2 == b \o more2
  <2>6. k \in Nat /\ Len(s) = k /\ \A i \in 1..k : Like(b[i], s[i])
    BY <2>3, <2>5 DEF Mirror
  <2>7. Len(more2) = 2 /\ more2[1] = Bubble("user", r) /\ more2[2] = Bubble("assistant", r) /\ more2 \in Seq(BubbleSet)
    <3>1. Bubble("user", r) \in BubbleSet /\ Bubble("assistant", r) \in BubbleSet
      BY BubbleTyped
    <3> QED
      BY <3>1
  <2> HIDE DEF more2
  <2>8. /\ Len(b2) = k + 2 /\ b2[k + 1] = Bubble("user", r) /\ b2[k + 2] = Bubble("assistant", r)
        /\ \A i \in 1..k : b2[i] = b[i]
    <3>1. Len(b2) = Len(b) + Len(more2)
      BY <2>3, <2>7, ConcatProperties
    <3>2. ASSUME NEW i \in 1..Len(b2) PROVE b2[i] = IF i <= Len(b) THEN b[i] ELSE more2[i - Len(b)]
      BY <2>3, <2>7, <3>1
    <3>3. k + 1 \in 1..Len(b2) /\ k + 2 \in 1..Len(b2) /\ 1..k \subseteq 1..Len(b2)
          /\ (k + 1) - k = 1 /\ (k + 2) - k = 2 /\ ~(k + 1 <= k) /\ ~(k + 2 <= k)
      BY <2>6, <2>7, <3>1
    <3> HIDE DEF b2
    <3>4. b2[k + 1] = more2[1] /\ b2[k + 2] = more2[2]
      BY <3>2, <3>3
    <3>5. ASSUME NEW i \in 1..k PROVE b2[i] = b[i]
      BY <2>6, <3>2, <3>3
    <3> QED
      BY <2>6, <2>7, <3>1, <3>4, <3>5
  <2> HIDE DEF b2
  <2>9. \A i \in 1..k : Like(b2[i], s[i])
    BY <2>6, <2>8
  <2>10. r # None /\ k \in 0..Len(b2) /\ Len(s) = k + 0
    BY <2>6, <2>8, ConversationAssumption
  <2>11. Mirror(b2, s, r, 0)
    BY <2>8, <2>9, <2>10 DEF Mirror
  <2>12. page'[p].bubbles = b2 /\ rows'[page'[p].conv] = s /\ page'[p].busy = r /\ Saved(req'[r].pc) = 0
    BY <1>1, <1>2, <1>4, <1>5, <2>1, <2>3, <2>4 DEF b2, more2, Saved
  <2> QED
    BY <2>10, <2>11, <2>12 DEF Mirrors
<1> QED
  BY <1>8, <1>9, <1>11, <1>12 DEF ShownInv, WaitInv

\* A page changes and no request does.
LEMMA ShownPage ==
    ASSUME ReqInv, StoreTypes, ShownInv, NEW p \in Pages, req' = req, rows' = rows,
           \A q \in Pages \ {p} : page'[q] = page[q],
           page'[p].early = page[p].early,
           \/ page'[p].busy = page[p].busy
           \/ page[p].busy # None /\ req[page[p].busy].pc \in Ended,
           WaitsFor(p)', Own(p)' => Mirrors(p)'
    PROVE  ShownInv'
<1>1. ASSUME NEW q \in Pages \ {p} PROVE WaitsFor(q)' /\ (Own(q)' => Mirrors(q)')
  <2>1. WaitsFor(q) /\ page'[q] = page[q] /\ (Own(q) => Mirrors(q))
    BY DEF ShownInv, WaitInv
  <2>2. WaitsFor(q)'
    BY <2>1 DEF WaitsFor
  <2>3. Own(q)' => Own(q)
    BY <2>1 DEF Own
  <2>4. Mirrors(q) => Mirrors(q)'
    BY <2>1 DEF Mirrors
  <2> QED
    BY <2>1, <2>2, <2>3, <2>4
<1>2. ASSUME NEW r \in Requests PROVE SentBy(r)'
  <2>1. SentBy(r)
    BY DEF ShownInv, WaitInv
  <2>2. \A q \in Pages : page'[q].early = page[q].early
    BY <1>1
  <2>3. ASSUME NEW q \in Pages, req[r].pc \notin Ended \union {"idle"}, page[q].busy = r
        PROVE  page'[q].busy = r
    BY <2>3
  <2>4. req'[r] = req[r]
    OBVIOUS
  <2> QED
    BY <2>1, <2>2, <2>3, <2>4 DEF SentBy
<1> QED
  BY <1>1, <1>2 DEF ShownInv, WaitInv

\* The answer that is received goes to the bubble below its question.
LEMMA MirrorWritten ==
    ASSUME NEW b \in Seq(BubbleSet), NEW s \in Seq(RowSet), NEW r \in Requests, Mirror(b, s, r, 2)
    PROVE  Mirror(Written(b, r), s, None, 0)
<1>1. PICK k \in 0..Len(b) :
        /\ Len(b) = k + 2 /\ Len(s) = k + 2
        /\ \A i \in 1..k : Like(b[i], s[i])
        /\ b[k + 1] = Bubble("user", r) /\ b[k + 2] = Bubble("assistant", r)
        /\ s[k + 1] = Row("user", r) /\ s[k + 2] = Row("assistant", r)
  BY ConversationAssumption DEF Mirror
<1> DEFINE last == [Bubble("assistant", r) EXCEPT !.texts = @ \union {r}]
           w == [b EXCEPT ![k + 2] = last]
<1>2. Bubble("assistant", r).role = "assistant" /\ Bubble("user", r).role = "user"
      /\ Bubble("user", r).of = r /\ Row("user", r).role = "user" /\ Row("user", r).of = r
      /\ Row("assistant", r).role = "assistant" /\ Row("assistant", r).of = r
      /\ last.role = "assistant" /\ last.of = r /\ last.texts = {r}
  BY DEF Bubble, Row
<1>3. Written(b, r) = w
  <2>1. Len(b) > 0 /\ b[Len(b)] = Bubble("assistant", r)
    BY <1>1
  <2> QED
    BY <1>1, <1>2, <2>1 DEF Written
<1> HIDE DEF last
<1>4. /\ k \in Nat /\ DOMAIN b = 1..(k + 2) /\ Len(w) = k + 2 /\ w[k + 2] = last
      /\ \A i \in 1..(k + 1) : w[i] = b[i]
  BY <1>1
<1> HIDE DEF w
<1>5. ASSUME NEW i \in 1..Len(w) PROVE Like(w[i], s[i])
  <2>1. CASE i \in 1..k
    BY <1>1, <1>4, <2>1 DEF Like
  <2>2. CASE i = k + 1
    <3>1. w[i] = Bubble("user", r) /\ s[i] = Row("user", r)
      BY <1>1, <1>4, <2>2
    <3> QED
      BY <1>2, <3>1 DEF Like
  <2>3. CASE i = k + 2
    <3>1. w[i] = last /\ s[i] = Row("assistant", r)
      BY <1>1, <1>4, <2>3
    <3> QED
      BY <1>2, <3>1 DEF Like
  <2> QED
    BY <1>4, <2>1, <2>2, <2>3
<1>6. Len(s) = Len(w)
  BY <1>1, <1>4
<1> QED
  BY <1>3, <1>5, <1>6 DEF Mirror

\* The steps of the page.
LEMMA ShownPageStep ==
    ASSUME ReqInv, StoreTypes, ShownInv, NEW p \in Pages, PageStep(p) PROVE ShownInv'
<1>1. page[p] \in PageType /\ req' = req /\ rows' = rows /\ WaitsFor(p)
  BY DEF StoreTypes, ShownInv, WaitInv, PageStep, ListConversations, ShowHistory, Receive, GiveUp
<1>2. CASE ListConversations(p)
  <2>1. /\ page[p].history = "listing" /\ page'[p].history = "loading"
        /\ page'[p].conv = made[Len(made)] /\ page'[p].busy = page[p].busy
        /\ page'[p].early = page[p].early /\ \A q \in Pages \ {p} : page'[q] = page[q]
    BY <1>1, <1>2 DEF ListConversations, StoreTypes, PageType
  <2>2. made[Len(made)] \in Convs
    BY DEF StoreTypes
  <2>3. WaitsFor(p)'
    BY <1>1, <2>1, <2>2 DEF WaitsFor
  <2>4. ~Own(p)'
    BY <2>1 DEF Own
  <2> QED
    BY <1>1, <2>1, <2>3, <2>4, ShownPage
<1>3. CASE ShowHistory(p)
  <2>1. PICK c \in Convs :
          /\ c = page[p].conv
          /\ page' = [page EXCEPT ![p].history = "shown",
                        ![p].bubbles = [i \in DOMAIN rows[c] |->
                            [role |-> rows[c][i].role, of |-> rows[c][i].of,
                             texts |-> IF rows[c][i].role = "assistant" THEN {rows[c][i].of} ELSE {}]]]
    <3>1. page[p].conv \in Convs
      BY <1>1, <1>3 DEF ShowHistory, WaitsFor
    <3> QED
      BY <1>3, <3>1 DEF ShowHistory
  <2> DEFINE b == [i \in DOMAIN rows[c] |->
                      [role |-> rows[c][i].role, of |-> rows[c][i].of,
                       texts |-> IF rows[c][i].role = "assistant" THEN {rows[c][i].of} ELSE {}]]
  <2>2. /\ page[p].history = "loading" /\ page'[p].history = "shown"
        /\ page'[p].conv = c /\ page'[p].busy = page[p].busy /\ page'[p].bubbles = b
        /\ page'[p].early = page[p].early /\ \A q \in Pages \ {p} : page'[q] = page[q]
    BY <1>1, <1>3, <2>1 DEF ShowHistory, StoreTypes, PageType
  <2>3. WaitsFor(p)'
    BY <1>1, <2>1, <2>2 DEF WaitsFor
  <2>4. ASSUME Own(p)' PROVE Mirrors(p)'
    <3>1. page'[p].busy = None
      BY <1>1, <2>2, <2>4 DEF Own, WaitsFor
    <3>2. rows[c] \in Seq(RowSet)
      BY DEF StoreTypes
    <3>3. Len(b) = Len(rows[c]) /\ DOMAIN rows[c] = 1..Len(rows[c])
      BY <3>2
    <3>4. ASSUME NEW i \in 1..Len(b) PROVE Like(b[i], rows[c][i])
      BY <3>3 DEF Like
    <3> HIDE DEF b
    <3>5. Mirror(b, rows[c], None, 0)
      BY <3>3, <3>4 DEF Mirror
    <3> QED
      BY <1>1, <2>2, <3>1, <3>5 DEF Mirrors
  <2> QED
    BY <1>1, <2>2, <2>3, <2>4, ShownPage
<1>4. CASE Receive(p)
  <2>1. PICK r \in Requests : r = page[p].busy /\ req[r].pc = "done" /\ r # None
    BY <1>1, <1>4 DEF Receive, PageType
  <2>2. /\ page'[p].history = page[p].history /\ page'[p].conv = page[p].conv
        /\ page'[p].busy = None /\ page'[p].bubbles = Written(page[p].bubbles, r)
        /\ page'[p].early = page[p].early /\ \A q \in Pages \ {p} : page'[q] = page[q]
    BY <1>1, <1>4, <2>1 DEF Receive, StoreTypes, PageType
  <2>3. WaitsFor(p)'
    BY <1>1, <2>2 DEF WaitsFor
  <2>4. ASSUME Own(p)' PROVE Mirrors(p)'
    <3>1. Own(p)
      BY <1>1, <2>2, <2>4 DEF Own
    <3>2. page[p].conv \in Convs
      BY <1>1, <3>1 DEF Own, WaitsFor
    <3>3. rows[page[p].conv] \in Seq(RowSet) /\ page[p].bubbles \in Seq(BubbleSet)
      BY <1>1, <3>2 DEF StoreTypes, PageType
    <3>4. Mirror(page[p].bubbles, rows[page[p].conv], r, 2)
      BY <2>1, <3>1 DEF ShownInv, Mirrors, Saved
    <3>5. Mirror(Written(page[p].bubbles, r), rows[page[p].conv], None, 0)
      BY <3>3, <3>4, MirrorWritten
    <3> QED
      BY <1>1, <2>2, <3>5 DEF Mirrors
  <2>5. req[page[p].busy].pc \in Ended
    BY <2>1 DEF Ended
  <2> QED
    BY <1>1, <2>1, <2>2, <2>3, <2>4, <2>5, ShownPage
<1>5. CASE GiveUp(p)
  <2>1. PICK r \in Requests : r = page[p].busy /\ req[r].pc \in {"refused", "dropped"} /\ r # None
    BY <1>1, <1>5 DEF GiveUp, PageType
  <2>2. /\ page'[p].history = page[p].history /\ page'[p].conv = page[p].conv
        /\ page'[p].busy = None
        /\ page'[p].early = page[p].early /\ \A q \in Pages \ {p} : page'[q] = page[q]
    BY <1>1, <1>5 DEF GiveUp, StoreTypes, PageType
  <2>3. WaitsFor(p)'
    BY <1>1, <2>2 DEF WaitsFor
  <2>4. ~Own(p)'
    BY <1>1, <2>1, <2>2 DEF Own, WaitsFor
  <2>5. req[page[p].busy].pc \in Ended
    BY <2>1 DEF Ended
  <2> QED
    BY <1>1, <2>1, <2>2, <2>3, <2>4, <2>5, ShownPage
<1> QED
  BY <1>2, <1>3, <1>4, <1>5 DEF PageStep

\* No step takes from a page what it mirrors.
LEMMA ShownStep == ConsentInv /\ ShownInv /\ [ChatNext]_chatVars => ShownInv'
<1> SUFFICES ASSUME ConsentInv, ShownInv, [ChatNext]_chatVars PROVE ShownInv'
  OBVIOUS
<1>1. ReqInv /\ StoreTypes
  BY DEF ConsentInv
<1>2. CASE UNCHANGED chatVars
  <2>1. req' = req /\ rows' = rows /\ page' = page
    BY <1>2 DEF chatVars
  <2>2. \A p \in Pages : (WaitsFor(p) => WaitsFor(p)') /\ (Own(p)' => Own(p)) /\ (Mirrors(p) => Mirrors(p)')
    BY <2>1 DEF WaitsFor, Own, Mirrors
  <2>3. \A r \in Requests : SentBy(r) => SentBy(r)'
    BY <2>1 DEF SentBy
  <2> QED
    BY <2>2, <2>3 DEF ShownInv, WaitInv
<1>3. ASSUME NEW r \in Requests, Serve(r) \/ Refuse(r) \/ Drop(r) PROVE ShownInv'
  BY <1>1, <1>3, ShownServe, ShownCreate, ShownRefuse DEF Serve
<1>4. ASSUME NEW p \in Pages, PageStep(p) PROVE ShownInv'
  BY <1>1, <1>4, ShownPageStep
<1>5. ASSUME NEW r \in Requests, NEW text \in Texts, ApiSend(r, text) PROVE ShownInv'
  BY <1>1, <1>5, ShownApi
<1>6. ASSUME NEW r \in Requests, NEW text \in Texts, NEW p \in Pages, NEW toggle \in BOOLEAN,
             Submit(p, r, text, toggle)
      PROVE  ShownInv'
  BY <1>1, <1>6, ShownSubmit
<1> QED
  BY <1>2, <1>3, <1>4, <1>5, <1>6 DEF ChatNext

-----------------------------------------------------------------------------

\* At first no request has been made and no page shows anything.
LEMMA ChatStart == ChatInit => MemoInv /\ FiledInv /\ StoredInv /\ ShownInv
<1> SUFFICES ASSUME ChatInit PROVE MemoInv /\ FiledInv /\ StoredInv /\ ShownInv
  OBVIOUS
<1>1. \A r \in Requests : req[r] = NoRequest
  BY DEF ChatInit
<1>2. \A c \in Convs : rows[c] = <<>> /\ DOMAIN rows[c] = {} /\ meta[c] = NoMeta
  BY DEF ChatInit
<1>3. /\ NoRequest.pc = "idle" /\ NoRequest.conv = None /\ NoRequest.sender = None
      /\ NoRequest.why = "none" /\ NoRequest.told = "off" /\ NoRequest.flag = "none"
      /\ NoRequest.loaded = NoMeta /\ NoRequest.local = NoMeta /\ ~NoRequest.written
      /\ NoMeta.mode = "off"
  BY DEF NoRequest, NoMeta
<1>4. MemoInv
  BY <1>1, <1>2, <1>3 DEF MemoInv, Memo, Asked, Inside, Ended
<1>5. FiledInv
  <2>1. AnswerAfterQuestion
    BY <1>2 DEF AnswerAfterQuestion
  <2>2. ASSUME NEW r \in Requests PROVE Filed(r)
    BY <1>1, <1>2, <1>3 DEF Filed, Holds, Conv, Asking, Inside
  <2> QED
    BY <2>1, <2>2 DEF FiledInv
<1>6. StoredInv
  BY <1>1, <1>3 DEF StoredInv, Unshared, Stored, ToldIsStored, Inside
<1>7. ShownInv
  <2>1. \A p \in Pages : page[p].busy = None /\ page[p].history = "listing" /\ ~page[p].early
    BY DEF ChatInit
  <2>2. \A p \in Pages : WaitsFor(p) /\ ~Own(p)
    BY <2>1 DEF WaitsFor, Own
  <2>3. \A r \in Requests : SentBy(r)
    BY <1>1, <1>3 DEF SentBy
  <2> QED
    BY <2>2, <2>3 DEF ShownInv, WaitInv
<1> QED
  BY <1>4, <1>5, <1>6, <1>7

\* What requests remember, the rows hold, the meta column keeps and pages show.
LEMMA ChatKept == ChatSpec => [](ConsentInv /\ MemoInv /\ FiledInv /\ StoredInv /\ ShownInv)
<1> DEFINE All == ConsentInv /\ MemoInv /\ FiledInv /\ StoredInv /\ ShownInv
<1>1. ChatInit => All
  BY ConsentInit, ChatStart
<1>2. All /\ [ChatNext]_chatVars => All'
  BY ConsentStep, MemoStep, FiledStep, StoredStep, ShownStep
<1> HIDE DEF All
<1>3. ChatSpec => []All
  BY <1>1, <1>2, PTL DEF ChatSpec
<1> QED
  BY <1>3, PTL DEF All

\* The switch decides over what the row says, a request that overlapped with no other
\* was told what the row keeps, and every answer lies below its question, once.
THEOREM ChatHolds == ChatSpec => []ChatInv
<1>1. MemoInv => SwitchDecides
  BY DEF MemoInv, Memo, SwitchDecides, Inside, Ended
<1>2. StoredInv => ToldIsStored
  BY DEF StoredInv
<1>3. FiledInv => AnswerAfterQuestion
  BY DEF FiledInv
<1> QED
  BY <1>1, <1>2, <1>3, ChatTyped, ChatKept, PTL DEF ChatInv

\* A page that had the history before its first message shows the rows of its
\* conversation, every answer in the bubble below its question.
THEOREM PagesShowRows == ChatSpec => []PageShowsRows
<1>1. ConsentInv /\ ShownInv => PageShowsRows
  <2> SUFFICES ASSUME ConsentInv, ShownInv, NEW p \in Pages, page[p].busy = None,
                      page[p].history = "shown", ~page[p].early,
                      \A r \in Requests : Conv(r) = page[p].conv => req[r].pc = "done" /\ req[r].sender = p
               PROVE  /\ Len(page[p].bubbles) = Len(rows[page[p].conv])
                      /\ \A i \in DOMAIN rows[page[p].conv] :
                            /\ page[p].bubbles[i].role = rows[page[p].conv][i].role
                            /\ page[p].bubbles[i].of = rows[page[p].conv][i].of
                            /\ rows[page[p].conv][i].role = "assistant" =>
                                  page[p].bubbles[i].texts = {rows[page[p].conv][i].of}
    BY DEF PageShowsRows
  <2>1. Own(p) /\ WaitsFor(p)
    BY DEF Own, Conv, ShownInv, WaitInv
  <2>2. page[p].conv \in Convs
    BY <2>1 DEF WaitsFor
  <2>3. rows[page[p].conv] \in Seq(RowSet) /\ page[p].bubbles \in Seq(BubbleSet)
    BY <2>2 DEF ConsentInv, StoreTypes, PageType
  <2>4. Mirror(page[p].bubbles, rows[page[p].conv], None, 0)
    BY <2>1 DEF ShownInv, Mirrors
  <2>5. DOMAIN rows[page[p].conv] = 1..Len(page[p].bubbles)
    BY <2>3, <2>4 DEF Mirror
  <2> QED
    BY <2>4, <2>5 DEF Mirror, Like
<1> QED
  BY <1>1, ChatKept, PTL

=============================================================================
