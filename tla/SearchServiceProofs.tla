------------------------ MODULE SearchServiceProofs ------------------------
(***************************************************************************)
(* What TLAPS proves of SearchService for any requests, searches, engines, *)
(* threshold, cooldown and TTL.                                            *)
(*                                                                         *)
(* SearchInv is inductive.  Each lemma below preserves one of its parts    *)
(* from the parts it needs; SearchSafe puts them together.  On top of it   *)
(* Books says which requests each counter has counted.                     *)
(***************************************************************************)
EXTENDS SearchService, FiniteSetTheorems, SequenceTheorems, TLAPS

\* What the lemmas use of the constants and of the key.
LEMMA Given ==
    /\ \A s \in Searches : CacheKey(s) \in Keys /\ EngineOf(s) \in Engines
    /\ Fallback \in Engines
    /\ None \notin Requests \union Searches \union Engines
    /\ Threshold \in Nat \ {0} /\ Cooldown \in Nat \ {0}
    /\ TTL \in Nat /\ MaxTime \in Nat
<1>1. \A s \in Searches : EngineOf(s) \in Engines
  BY SearchAssumption DEF EngineOf
<1>2. \A s \in Searches : CacheKey(s) \in Keys
  BY DEF Keys
<1> QED
  BY <1>1, <1>2, SearchAssumption

\* Counting keeps the counters natural numbers.
LEMMA CountTyped ==
    ASSUME stats \in [Counters -> Nat], NEW cs, Count(cs)
    PROVE  stats' \in [Counters -> Nat]
  BY DEF Count

\* Answering keeps the requests' places and payloads typed.
LEMMA AnswerTyped ==
    ASSUME at \in [Requests -> {"idle", "querying", "waiting", "answered"}],
           answer \in [Requests -> Answers \union {NoAnswer}],
           NEW r \in Requests, NEW a \in Answers \union {NoAnswer}, Answer(r, a)
    PROVE  /\ at' \in [Requests -> {"idle", "querying", "waiting", "answered"}]
           /\ answer' \in [Requests -> Answers \union {NoAnswer}]
  BY DEF Answer

\* A payload made for a search, or for none, is a payload.
LEMMA MadeTyped ==
    ASSUME TypeOK, NEW status \in Statuses, NEW s \in Searches \union {None}
    PROVE  Made(status, s) \in Answers
  BY DEF TypeOK, Made, Answers

\* Failing and looking up keep a circuit typed.
LEMMA BreakerTyped ==
    ASSUME TypeOK, NEW b \in [count : Nat, openUntil : Nat]
    PROVE  /\ LookedUp(b) \in [count : Nat, openUntil : Nat]
           /\ Failed(b) \in [count : Nat, openUntil : Nat]
           /\ Closed \in [count : Nat, openUntil : Nat]
  BY Given DEF TypeOK, LookedUp, Failed, Closed

\* Every step of the service keeps the types; that a waiter has an owner is what
\* types the answer it takes over.
LEMMA TypedStep ==
    ASSUME TypeOK, SingleFlight, WaiterHasOwner, [Next]_vars
    PROVE  TypeOK'
<1> USE Given
<1>1. ASSUME NEW r \in Requests, Refuse(r)
      PROVE  TypeOK'
  <2>1. PICK status \in {"bad_request", "empty"} : Answer(r, Made(status, None)) /\ Count({"requests_total", status})
    BY <1>1 DEF Refuse
  <2>2. Made(status, None) \in Answers
    BY MadeTyped DEF Statuses, Found
  <2>3. at' \in [Requests -> {"idle", "querying", "waiting", "answered"}] /\ answer' \in [Requests -> Answers \union {NoAnswer}]
    BY <2>1, <2>2, AnswerTyped DEF TypeOK
  <2>4. stats' \in [Counters -> Nat]
    BY <2>1, CountTyped DEF TypeOK
  <2>5. QED
    BY <1>1, <2>1, <2>2, <2>3, <2>4 DEF Refuse, TypeOK
<1>2. ASSUME NEW r \in Requests, NEW s \in Searches, HitCache(r, s)
      PROVE  TypeOK'
  <2>1. cache[CacheKey(s)].payload \in Answers \union {NoAnswer}
    BY DEF TypeOK
  <2>2. at' \in [Requests -> {"idle", "querying", "waiting", "answered"}] /\ answer' \in [Requests -> Answers \union {NoAnswer}]
    BY <1>2, <2>1, AnswerTyped DEF HitCache, TypeOK
  <2>3. stats' \in [Counters -> Nat]
    BY <1>2, CountTyped DEF HitCache, TypeOK
  <2>4. QED
    BY <1>2, <2>1, <2>2, <2>3 DEF HitCache, TypeOK
<1>3. ASSUME NEW r \in Requests, NEW s \in Searches, Join(r, s)
      PROVE  TypeOK'
  <2>1. cache' \in [Keys -> [expires : Nat, payload : Answers \union {NoAnswer}]]
    BY <1>3 DEF Join, Evict, NoEntry, TypeOK
  <2>2. stats' \in [Counters -> Nat]
    BY <1>3, CountTyped DEF Join, TypeOK
  <2>3. inflight[CacheKey(s)] \in Requests \union {None}
    BY DEF TypeOK
  <2>4. QED
    BY <1>3, <2>1, <2>2, <2>3 DEF Join, TypeOK
<1>4. ASSUME NEW r \in Requests, NEW s \in Searches, NEW e \in Engines, Lead(r, s, e)
      PROVE  TypeOK'
  <2>1. cache' \in [Keys -> [expires : Nat, payload : Answers \union {NoAnswer}]]
    BY <1>4 DEF Lead, Evict, NoEntry, TypeOK
  <2>2. stats' \in [Counters -> Nat]
    BY <1>4, CountTyped DEF Lead, TypeOK
  <2>3. breaker' \in [Engines -> [count : Nat, openUntil : Nat]]
    BY <1>4, BreakerTyped DEF Lead, TypeOK
  <2>4. QED
    BY <1>4, <2>1, <2>2, <2>3 DEF Lead, TypeOK
<1>5. ASSUME NEW r \in Requests, NEW s \in Searches, LeadNowhere(r, s)
      PROVE  TypeOK'
  <2>1. cache' \in [Keys -> [expires : Nat, payload : Answers \union {NoAnswer}]]
    BY <1>5 DEF LeadNowhere, Evict, NoEntry, TypeOK
  <2>2. stats' \in [Counters -> Nat]
    BY <1>5, CountTyped DEF LeadNowhere, TypeOK
  <2>3. Made("upstream_failed", s) \in Answers
    BY MadeTyped DEF Statuses
  <2>4. at' \in [Requests -> {"idle", "querying", "waiting", "answered"}] /\ answer' \in [Requests -> Answers \union {NoAnswer}]
    BY <1>5, <2>3, AnswerTyped DEF LeadNowhere, TypeOK
  <2>5. QED
    BY <1>5, <2>1, <2>2, <2>3, <2>4 DEF LeadNowhere, TypeOK
<1>6. ASSUME NEW r \in Requests, Succeed(r)
      PROVE  TypeOK'
  <2>1. PICK status \in Found : /\ Store(CacheKey(search[r]), Made(status, search[r]))
                               /\ Answer(r, Made(status, search[r]))
                               /\ Count({status})
    BY <1>6 DEF Succeed
  <2>2. Made(status, search[r]) \in Answers
    BY MadeTyped DEF TypeOK, Statuses
  <2>3. [expires |-> now + TTL, payload |-> Made(status, search[r])]
          \in [expires : Nat, payload : Answers \union {NoAnswer}]
    BY <2>2 DEF TypeOK
  <2>4. cache' \in [Keys -> [expires : Nat, payload : Answers \union {NoAnswer}]]
    BY <2>1, <2>3 DEF Store, TypeOK
  <2>5. at' \in [Requests -> {"idle", "querying", "waiting", "answered"}] /\ answer' \in [Requests -> Answers \union {NoAnswer}]
    BY <2>1, <2>2, AnswerTyped DEF TypeOK
  <2>6. stats' \in [Counters -> Nat]
    BY <2>1, CountTyped DEF TypeOK
  <2>7. breaker' \in [Engines -> [count : Nat, openUntil : Nat]]
    BY <1>6, BreakerTyped DEF Succeed, TypeOK
  <2>8. QED
    BY <1>6, <2>1, <2>2, <2>3, <2>4, <2>5, <2>6, <2>7 DEF Succeed, Release, TypeOK
<1>7. ASSUME NEW r \in Requests, FailOver(r)
      PROVE  TypeOK'
  <2>1. breaker' \in [Engines -> [count : Nat, openUntil : Nat]]
    BY <1>7, BreakerTyped DEF FailOver, TypeOK
  <2>2. QED
    BY <1>7, <2>1 DEF FailOver, TypeOK
<1>8. ASSUME NEW r \in Requests, Fail(r)
      PROVE  TypeOK'
  <2>1. Made("upstream_failed", search[r]) \in Answers
    BY MadeTyped DEF TypeOK, Statuses
  <2>2. at' \in [Requests -> {"idle", "querying", "waiting", "answered"}] /\ answer' \in [Requests -> Answers \union {NoAnswer}]
    BY <1>8, <2>1, AnswerTyped DEF Fail, TypeOK
  <2>3. stats' \in [Counters -> Nat]
    BY <1>8, CountTyped DEF Fail, TypeOK
  <2>4. breaker' \in [Engines -> [count : Nat, openUntil : Nat]]
    BY <1>8, BreakerTyped DEF Fail, TypeOK
  <2>5. QED
    BY <1>8, <2>1, <2>2, <2>3, <2>4 DEF Fail, Release, TypeOK
<1>9. ASSUME NEW r \in Requests, Resume(r)
      PROVE  TypeOK'
  <2>1. answer[owner[r]] \in Answers \union {NoAnswer}
    BY <1>9 DEF Resume, TypeOK, WaiterHasOwner
  <2>2. at' \in [Requests -> {"idle", "querying", "waiting", "answered"}] /\ answer' \in [Requests -> Answers \union {NoAnswer}]
    BY <1>9, <2>1, AnswerTyped DEF Resume, TypeOK
  <2>3. stats' \in [Counters -> Nat]
    BY <1>9, CountTyped DEF Resume, TypeOK
  <2>4. QED
    BY <1>9, <2>1, <2>2, <2>3 DEF Resume, TypeOK
<1>10. CASE Tick
  BY <1>10 DEF Tick, TypeOK
<1>11. CASE UNCHANGED vars
  BY <1>11 DEF vars, TypeOK
<1>12. QED
  BY <1>1, <1>2, <1>3, <1>4, <1>5, <1>6, <1>7, <1>8, <1>9, <1>10, <1>11 DEF Next

\* A request names its search in the step that takes it off idle.
LEMMA UnaskedStep ==
    ASSUME TypeOK, Unasked, [Next]_vars
    PROVE  Unasked'
<1> USE Given
<1>1. ASSUME NEW r \in Requests, Refuse(r)
      PROVE  Unasked'
  BY <1>1 DEF Refuse, Answer, Count, Made, TypeOK, Unasked
<1>2. ASSUME NEW r \in Requests, NEW s \in Searches, HitCache(r, s)
      PROVE  Unasked'
  BY <1>2 DEF HitCache, Answer, Count, Fresh, TypeOK, Unasked
<1>3. ASSUME NEW r \in Requests, NEW s \in Searches, Join(r, s)
      PROVE  Unasked'
  BY <1>3 DEF Join, Evict, Count, Fresh, TypeOK, Unasked
<1>4. ASSUME NEW r \in Requests, NEW s \in Searches, NEW e \in Engines, Lead(r, s, e)
      PROVE  Unasked'
  BY <1>4 DEF Lead, Evict, Count, Fresh, TypeOK, Unasked
<1>5. ASSUME NEW r \in Requests, NEW s \in Searches, LeadNowhere(r, s)
      PROVE  Unasked'
  BY <1>5 DEF LeadNowhere, Evict, Answer, Count, Made, Fresh, TypeOK, Unasked
<1>6. ASSUME NEW r \in Requests, Succeed(r)
      PROVE  Unasked'
  BY <1>6 DEF Succeed, Store, Answer, Count, Release, Made, TypeOK, Unasked
<1>7. ASSUME NEW r \in Requests, FailOver(r)
      PROVE  Unasked'
  BY <1>7 DEF FailOver, TypeOK, Unasked
<1>8. ASSUME NEW r \in Requests, Fail(r)
      PROVE  Unasked'
  BY <1>8 DEF Fail, Answer, Count, Release, Made, TypeOK, Unasked
<1>9. ASSUME NEW r \in Requests, Resume(r)
      PROVE  Unasked'
  BY <1>9 DEF Resume, Answer, Count, TypeOK, Unasked
<1>10. CASE Tick
  BY <1>10 DEF Tick, TypeOK, Unasked
<1>11. CASE UNCHANGED vars
  BY <1>11 DEF vars, TypeOK, Unasked
<1>12. QED
  BY <1>1, <1>2, <1>3, <1>4, <1>5, <1>6, <1>7, <1>8, <1>9, <1>10, <1>11 DEF Next

\* Only the owner of a key's future queries for it: a second request joins, and
\* the owner releases the future in the step that answers it.
LEMMA SingleFlightStep ==
    ASSUME TypeOK, SingleFlight, [Next]_vars
    PROVE  SingleFlight'
<1> USE Given
<1>1. ASSUME NEW r \in Requests, Refuse(r)
      PROVE  SingleFlight'
  BY <1>1 DEF Refuse, Answer, Count, Made, TypeOK, SingleFlight
<1>2. ASSUME NEW r \in Requests, NEW s \in Searches, HitCache(r, s)
      PROVE  SingleFlight'
  BY <1>2 DEF HitCache, Answer, Count, Fresh, TypeOK, SingleFlight
<1>3. ASSUME NEW r \in Requests, NEW s \in Searches, Join(r, s)
      PROVE  SingleFlight'
  BY <1>3 DEF Join, Evict, Count, Fresh, TypeOK, SingleFlight
<1>4. ASSUME NEW r \in Requests, NEW s \in Searches, NEW e \in Engines, Lead(r, s, e)
      PROVE  SingleFlight'
  <2>1. inflight[CacheKey(s)] = None /\ inflight' = [inflight EXCEPT ![CacheKey(s)] = r] /\ at[r] = "idle"
    BY <1>4 DEF Lead
  <2>2. at' = [at EXCEPT ![r] = "querying"] /\ search' = [search EXCEPT ![r] = s] /\ asking' = [asking EXCEPT ![r] = e]
    BY <1>4 DEF Lead
  <2>3. at'[r] = "querying" /\ search'[r] = s /\ asking'[r] = e /\ inflight'[CacheKey(s)] = r /\ s # None /\ e # None
    BY <2>1, <2>2 DEF TypeOK
  <2>4. ASSUME NEW q \in Requests, q # r
        PROVE  at'[q] = at[q] /\ search'[q] = search[q] /\ asking'[q] = asking[q]
    BY <2>2, <2>4 DEF TypeOK
  <2>5. ASSUME NEW q \in Requests, q # r, at[q] = "querying"
        PROVE  inflight'[CacheKey(search[q])] = q
    BY <2>1, <2>5 DEF TypeOK, SingleFlight
  <2>6. ASSUME NEW k \in Keys, k # CacheKey(s), inflight[k] # None
        PROVE  inflight[k] # r /\ inflight'[k] = inflight[k]
    BY <2>1, <2>6 DEF TypeOK, SingleFlight
  <2>7. \A k \in Keys : k # CacheKey(s) => inflight'[k] = inflight[k]
    BY <2>1 DEF TypeOK
  <2>8. \A q \in Requests : at'[q] = "querying" =>
           search'[q] # None /\ asking'[q] # None /\ inflight'[CacheKey(search'[q])] = q
    <3>1. ASSUME NEW q \in Requests, q # r, at'[q] = "querying"
          PROVE  search'[q] # None /\ asking'[q] # None /\ inflight'[CacheKey(search'[q])] = q
      BY <2>4, <2>5, <3>1 DEF SingleFlight
    <3> QED
      BY <2>3, <3>1
  <2>9. ASSUME NEW k \in Keys, inflight'[k] # None
        PROVE  at'[inflight'[k]] = "querying" /\ CacheKey(search'[inflight'[k]]) = k
    <3>1. CASE k = CacheKey(s)
      BY <2>3, <3>1
    <3>2. CASE k # CacheKey(s)
      <4>1. inflight[k] # None /\ inflight'[k] = inflight[k] /\ inflight[k] # r
        BY <2>6, <2>7, <2>9, <3>2
      <4>2. inflight[k] \in Requests
        BY <4>1 DEF TypeOK
      <4> QED
        BY <2>4, <4>1, <4>2 DEF SingleFlight
    <3> QED
      BY <3>1, <3>2
  <2> QED
    BY <2>8, <2>9 DEF SingleFlight
<1>5. ASSUME NEW r \in Requests, NEW s \in Searches, LeadNowhere(r, s)
      PROVE  SingleFlight'
  BY <1>5 DEF LeadNowhere, Evict, Answer, Count, Made, Fresh, TypeOK, SingleFlight
<1>6. ASSUME NEW r \in Requests, Succeed(r)
      PROVE  SingleFlight'
  BY <1>6 DEF Succeed, Store, Answer, Count, Release, Made, TypeOK, SingleFlight
<1>7. ASSUME NEW r \in Requests, FailOver(r)
      PROVE  SingleFlight'
  BY <1>7 DEF FailOver, TypeOK, SingleFlight
<1>8. ASSUME NEW r \in Requests, Fail(r)
      PROVE  SingleFlight'
  BY <1>8 DEF Fail, Answer, Count, Release, Made, TypeOK, SingleFlight
<1>9. ASSUME NEW r \in Requests, Resume(r)
      PROVE  SingleFlight'
  BY <1>9 DEF Resume, Answer, Count, TypeOK, SingleFlight
<1>10. CASE Tick
  BY <1>10 DEF Tick, TypeOK, SingleFlight
<1>11. CASE UNCHANGED vars
  BY <1>11 DEF vars, TypeOK, SingleFlight
<1>12. QED
  BY <1>1, <1>2, <1>3, <1>4, <1>5, <1>6, <1>7, <1>8, <1>9, <1>10, <1>11 DEF Next

\* A waiter's owner never leaves: it goes from querying to answered.
LEMMA WaiterStep ==
    ASSUME TypeOK, SingleFlight, WaiterHasOwner, [Next]_vars
    PROVE  WaiterHasOwner'
<1> USE Given
<1>1. ASSUME NEW r \in Requests, Refuse(r)
      PROVE  WaiterHasOwner'
  BY <1>1 DEF Refuse, Answer, Count, Made, TypeOK, SingleFlight, WaiterHasOwner
<1>2. ASSUME NEW r \in Requests, NEW s \in Searches, HitCache(r, s)
      PROVE  WaiterHasOwner'
  BY <1>2 DEF HitCache, Answer, Count, Fresh, TypeOK, SingleFlight, WaiterHasOwner
<1>3. ASSUME NEW r \in Requests, NEW s \in Searches, Join(r, s)
      PROVE  WaiterHasOwner'
  BY <1>3 DEF Join, Evict, Count, Fresh, TypeOK, SingleFlight, WaiterHasOwner
<1>4. ASSUME NEW r \in Requests, NEW s \in Searches, NEW e \in Engines, Lead(r, s, e)
      PROVE  WaiterHasOwner'
  BY <1>4 DEF Lead, Evict, Count, Fresh, TypeOK, SingleFlight, WaiterHasOwner
<1>5. ASSUME NEW r \in Requests, NEW s \in Searches, LeadNowhere(r, s)
      PROVE  WaiterHasOwner'
  BY <1>5 DEF LeadNowhere, Evict, Answer, Count, Made, Fresh, TypeOK, SingleFlight, WaiterHasOwner
<1>6. ASSUME NEW r \in Requests, Succeed(r)
      PROVE  WaiterHasOwner'
  BY <1>6 DEF Succeed, Store, Answer, Count, Release, Made, TypeOK, SingleFlight, WaiterHasOwner
<1>7. ASSUME NEW r \in Requests, FailOver(r)
      PROVE  WaiterHasOwner'
  BY <1>7 DEF FailOver, TypeOK, SingleFlight, WaiterHasOwner
<1>8. ASSUME NEW r \in Requests, Fail(r)
      PROVE  WaiterHasOwner'
  BY <1>8 DEF Fail, Answer, Count, Release, Made, TypeOK, SingleFlight, WaiterHasOwner
<1>9. ASSUME NEW r \in Requests, Resume(r)
      PROVE  WaiterHasOwner'
  BY <1>9 DEF Resume, Answer, Count, TypeOK, SingleFlight, WaiterHasOwner
<1>10. CASE Tick
  BY <1>10 DEF Tick, TypeOK, SingleFlight, WaiterHasOwner
<1>11. CASE UNCHANGED vars
  BY <1>11 DEF vars, TypeOK, SingleFlight, WaiterHasOwner
<1>12. QED
  BY <1>1, <1>2, <1>3, <1>4, <1>5, <1>6, <1>7, <1>8, <1>9, <1>10, <1>11 DEF Next

\* Only a successful query writes the cache, under the key of its own search.
LEMMA CacheStep ==
    ASSUME TypeOK, SingleFlight, CacheHonest, [Next]_vars
    PROVE  CacheHonest'
<1> USE Given
<1>1. ASSUME NEW r \in Requests, Refuse(r)
      PROVE  CacheHonest'
  BY <1>1 DEF Refuse, Answer, Count, Made, TypeOK, SingleFlight, CacheHonest, Answers, NoAnswer, Found, NoEntry
<1>2. ASSUME NEW r \in Requests, NEW s \in Searches, HitCache(r, s)
      PROVE  CacheHonest'
  BY <1>2 DEF HitCache, Answer, Count, Fresh, TypeOK, SingleFlight, CacheHonest, Answers, NoAnswer, Found, NoEntry
<1>3. ASSUME NEW r \in Requests, NEW s \in Searches, Join(r, s)
      PROVE  CacheHonest'
  BY <1>3 DEF Join, Evict, Count, Fresh, TypeOK, SingleFlight, CacheHonest, Answers, NoAnswer, Found, NoEntry
<1>4. ASSUME NEW r \in Requests, NEW s \in Searches, NEW e \in Engines, Lead(r, s, e)
      PROVE  CacheHonest'
  BY <1>4 DEF Lead, Evict, Count, Fresh, TypeOK, SingleFlight, CacheHonest, Answers, NoAnswer, Found, NoEntry
<1>5. ASSUME NEW r \in Requests, NEW s \in Searches, LeadNowhere(r, s)
      PROVE  CacheHonest'
  BY <1>5 DEF LeadNowhere, Evict, Answer, Count, Made, Fresh, TypeOK, SingleFlight, CacheHonest, Answers, NoAnswer, Found, NoEntry
<1>6. ASSUME NEW r \in Requests, Succeed(r)
      PROVE  CacheHonest'
  BY <1>6 DEF Succeed, Store, Answer, Count, Release, Made, TypeOK, SingleFlight, CacheHonest, Answers, NoAnswer, Found, NoEntry
<1>7. ASSUME NEW r \in Requests, FailOver(r)
      PROVE  CacheHonest'
  BY <1>7 DEF FailOver, TypeOK, SingleFlight, CacheHonest, Answers, NoAnswer, Found, NoEntry
<1>8. ASSUME NEW r \in Requests, Fail(r)
      PROVE  CacheHonest'
  BY <1>8 DEF Fail, Answer, Count, Release, Made, TypeOK, SingleFlight, CacheHonest, Answers, NoAnswer, Found, NoEntry
<1>9. ASSUME NEW r \in Requests, Resume(r)
      PROVE  CacheHonest'
  BY <1>9 DEF Resume, Answer, Count, TypeOK, SingleFlight, CacheHonest, Answers, NoAnswer, Found, NoEntry
<1>10. CASE Tick
  BY <1>10 DEF Tick, TypeOK, SingleFlight, CacheHonest, Answers, NoAnswer, Found, NoEntry
<1>11. CASE UNCHANGED vars
  BY <1>11 DEF vars, TypeOK, SingleFlight, CacheHonest, Answers, NoAnswer, Found, NoEntry
<1>12. QED
  BY <1>1, <1>2, <1>3, <1>4, <1>5, <1>6, <1>7, <1>8, <1>9, <1>10, <1>11 DEF Next

\* What a list of three pieces and more is made of.
LEMMA SeqMonotone ==
    ASSUME NEW S, NEW T, S \subseteq T, NEW q \in Seq(S)
    PROVE  q \in Seq(T)
  OBVIOUS

LEMMA NoEmptySeq ==
    ASSUME NEW T, NEW q \in Seq(T), q # <<>>
    PROVE  Len(q) \in Nat \ {0}
<1>1. Len(q) \in Nat
  OBVIOUS
<1>2. CASE Len(q) = 0
  BY <1>2, EmptySeq, SeqEqual
<1> QED
  BY <1>1, <1>2

LEMMA SinglePiece ==
    ASSUME NEW T, NEW q \in Seq(T), Len(q) = 1
    PROVE  q = <<q[1]>> /\ q[1] \in T
<1>1. q[1] \in T
  OBVIOUS
<1>2. <<q[1]>> \in Seq(T) /\ Len(<<q[1]>>) = 1
  BY <1>1
<1>3. \A i \in 1 .. Len(q) : q[i] = <<q[1]>>[i]
  OBVIOUS
<1> QED
  BY <1>1, <1>2, <1>3, SeqEqual

LEMMA ThreePieces ==
    ASSUME NEW T, NEW a \in T, NEW b \in T, NEW c \in T, NEW q \in Seq(T)
    PROVE  LET k == <<a, b>> \o <<c>> \o q IN
           /\ Len(k) = 3 + Len(q) /\ k[1] = a /\ k[2] = b /\ k[3] = c
           /\ \A i \in 1 .. Len(q) : k[i + 3] = q[i]
<1> DEFINE front == <<a, b>> \o <<c>>
<1>1. /\ front \in Seq(T) /\ Len(front) = 3
      /\ front[1] = a /\ front[2] = b /\ front[3] = c
  <2>1. <<a, b>> \in Seq(T) /\ <<c>> \in Seq(T) /\ Len(<<a, b>>) = 2 /\ Len(<<c>>) = 1
    OBVIOUS
  <2>2. /\ front \in Seq(T) /\ Len(front) = 2 + 1
        /\ \A i \in 1 .. 2 + 1 : front[i] = IF i <= 2 THEN <<a, b>>[i] ELSE <<c>>[i - 2]
    <3>1. /\ front \in Seq(T) /\ Len(front) = Len(<<a, b>>) + Len(<<c>>)
          /\ \A i \in 1 .. Len(<<a, b>>) + Len(<<c>>) :
                front[i] = IF i <= Len(<<a, b>>) THEN <<a, b>>[i] ELSE <<c>>[i - Len(<<a, b>>)]
      <4> HIDE DEF front
      <4>1. front = <<a, b>> \o <<c>>
        BY DEF front
      <4> QED
        BY ONLY <2>1, <4>1, ConcatProperties
    <3> QED
      BY <2>1, <3>1
  <2> QED
    BY <2>2
<1> HIDE DEF front
<1>2. /\ Len(front \o q) = Len(front) + Len(q)
      /\ \A i \in 1 .. Len(front) + Len(q) :
            (front \o q)[i] = IF i <= Len(front) THEN front[i] ELSE q[i - Len(front)]
  BY <1>1, ConcatProperties
<1>3. Len(q) \in Nat
  OBVIOUS
<1>4. ASSUME NEW i \in 1 .. Len(q)
      PROVE  (front \o q)[i + 3] = q[i]
  <2>1. i + 3 \in 1 .. 3 + Len(q) /\ ~(i + 3 <= 3) /\ (i + 3) - 3 = i
    BY <1>3
  <2> QED
    BY <1>1, <1>2, <2>1
<1>5. \A i \in 1 .. 3 : i \in 1 .. 3 + Len(q) /\ i <= 3
  BY <1>3
<1>6. /\ Len(front \o q) = 3 + Len(q)
      /\ (front \o q)[1] = a /\ (front \o q)[2] = b /\ (front \o q)[3] = c
  BY <1>1, <1>2, <1>5
<1> QED
  BY <1>4, <1>6 DEF front

\* The third piece of a key is the language when that is one piece, so the key of a
\* search gives back all its parts.
LEMMA KeyTells ==
    ASSUME NEW s \in Searches, NEW t \in Searches, PlainLang(s), PlainLang(t),
           CacheKey(s) = CacheKey(t)
    PROVE  s = t
<1> DEFINE Piece(u) == IF u.lang = <<>> THEN "-" ELSE u.lang[1]
           T == Engines \union Int \union STRING \union {"-"}
<1>1. ASSUME NEW u \in Searches
      PROVE  /\ u.engine \in Engines /\ u.limit \in Int /\ u.query \in Seq(STRING)
             /\ u.lang \in Seq(STRING)
             /\ u = [engine |-> u.engine, limit |-> u.limit, lang |-> u.lang, query |-> u.query]
  BY SearchAssumption DEF Texts
<1>2. ASSUME NEW u \in Searches, PlainLang(u)
      PROVE  /\ CacheKey(u) = <<u.engine, u.limit>> \o <<Piece(u)>> \o u.query
             /\ Piece(u) \in STRING \union {"-"}
             /\ u.lang # <<>> => Piece(u) # "-" /\ u.lang = <<Piece(u)>>
  <2>1. CASE u.lang = <<>>
    <3>1. Piece(u) = "-"
      BY <2>1
    <3>2. CacheKey(u) = <<u.engine, u.limit>> \o <<"-">> \o u.query
      BY <2>1 DEF CacheKey
    <3> HIDE DEF Piece
    <3> QED
      BY <2>1, <3>1, <3>2
  <2>2. CASE u.lang # <<>>
    <3>1. Len(u.lang) = 1
      <4>1. Len(u.lang) <= 1
        BY <1>2 DEF PlainLang
      <4>2. Len(u.lang) \in Nat \ {0}
        <5>1. u.lang \in Seq(STRING)
          BY <1>1
        <5> QED
          BY <2>2, <5>1, NoEmptySeq
      <4>3. \A n \in Nat \ {0} : n <= 1 => n = 1
        OBVIOUS
      <4> QED
        BY <4>1, <4>2, <4>3
    <3>2. u.lang = <<u.lang[1]>> /\ u.lang[1] \in STRING
      BY <1>1, <3>1, SinglePiece
    <3>3. u.lang[1] # "-"
      BY <1>2, <3>2 DEF PlainLang
    <3>4. CacheKey(u) = <<u.engine, u.limit>> \o u.lang \o u.query
      BY <2>2 DEF CacheKey
    <3>5. Piece(u) = u.lang[1]
      BY <2>2
    <3> HIDE DEF Piece
    <3> QED
      BY <2>2, <3>2, <3>3, <3>4, <3>5
  <2> QED
    BY <2>1, <2>2
<1> HIDE DEF Piece
<1>3. ASSUME NEW u \in Searches, PlainLang(u)
      PROVE  /\ Len(CacheKey(u)) = 3 + Len(u.query)
             /\ CacheKey(u)[1] = u.engine /\ CacheKey(u)[2] = u.limit
             /\ CacheKey(u)[3] = Piece(u)
             /\ \A i \in 1 .. Len(u.query) : CacheKey(u)[i + 3] = u.query[i]
  <2>1. /\ u.engine \in T /\ u.limit \in T /\ Piece(u) \in T
    BY <1>1, <1>2, <1>3
  <2>2. u.query \in Seq(T)
    <3>1. u.query \in Seq(STRING) /\ STRING \subseteq T
      BY <1>1
    <3> HIDE DEF T
    <3> QED
      BY <3>1, SeqMonotone
  <2> HIDE DEF T
  <2>3. LET k == <<u.engine, u.limit>> \o <<Piece(u)>> \o u.query IN
        /\ Len(k) = 3 + Len(u.query) /\ k[1] = u.engine /\ k[2] = u.limit /\ k[3] = Piece(u)
        /\ \A i \in 1 .. Len(u.query) : k[i + 3] = u.query[i]
    BY <2>1, <2>2, ThreePieces
  <2> QED
    BY <1>2, <1>3, <2>3
<1>4. s.engine = t.engine /\ s.limit = t.limit /\ Piece(s) = Piece(t)
  BY <1>3
<1>5. s.query = t.query
  <2>1. s.query \in Seq(STRING) /\ t.query \in Seq(STRING)
    BY <1>1
  <2>2. Len(s.query) = Len(t.query)
    <3>1. 3 + Len(s.query) = 3 + Len(t.query)
      BY <1>3
    <3>2. Len(s.query) \in Nat /\ Len(t.query) \in Nat
      BY <2>1, LenProperties
    <3> QED
      BY <3>1, <3>2
  <2>3. ASSUME NEW i \in 1 .. Len(s.query)
        PROVE  s.query[i] = t.query[i]
    <3>1. CacheKey(s)[i + 3] = s.query[i]
      BY <1>3
    <3>2. CacheKey(t)[i + 3] = t.query[i]
      BY <1>3, <2>2
    <3> QED
      BY <3>1, <3>2
  <2> QED
    BY <2>1, <2>2, <2>3, SeqEqual
<1>6. s.lang = t.lang
  <2>1. Piece(s) # "-" <=> s.lang # <<>>
    BY <1>2 DEF Piece
  <2>2. Piece(t) # "-" <=> t.lang # <<>>
    BY <1>2 DEF Piece
  <2>3. CASE s.lang = <<>>
    BY <1>4, <2>1, <2>2, <2>3
  <2>4. CASE s.lang # <<>>
    <3>1. s.lang = <<Piece(s)>> /\ t.lang = <<Piece(t)>>
      BY <1>2, <1>4, <2>1, <2>2, <2>4
    <3> QED
      BY <1>4, <3>1
  <2> QED
    BY <2>3, <2>4
<1> QED
  BY <1>1, <1>4, <1>5, <1>6

\* An answered search has the results of one with its key.
SameKey ==
    \A r \in Requests :
        at[r] = "answered" /\ search[r] # None =>
            answer[r].for \in Searches /\ CacheKey(answer[r].for) = CacheKey(search[r])

\* Cache and shared futures hand out results of the asker's own key.
LEMMA SameKeyStep ==
    ASSUME TypeOK, Unasked, SingleFlight, WaiterHasOwner, CacheHonest, SameKey, [Next]_vars
    PROVE  SameKey'
<1> USE Given
<1>1. ASSUME NEW r \in Requests, Refuse(r)
      PROVE  SameKey'
  BY <1>1 DEF Refuse, Answer, Count, Made, TypeOK, Unasked, SingleFlight, WaiterHasOwner, CacheHonest, SameKey, NoEntry
<1>2. ASSUME NEW r \in Requests, NEW s \in Searches, HitCache(r, s)
      PROVE  SameKey'
  BY <1>2 DEF HitCache, Answer, Count, Fresh, TypeOK, Unasked, SingleFlight, WaiterHasOwner, CacheHonest, SameKey, NoEntry
<1>3. ASSUME NEW r \in Requests, NEW s \in Searches, Join(r, s)
      PROVE  SameKey'
  BY <1>3 DEF Join, Evict, Count, Fresh, TypeOK, Unasked, SingleFlight, WaiterHasOwner, CacheHonest, SameKey, NoEntry
<1>4. ASSUME NEW r \in Requests, NEW s \in Searches, NEW e \in Engines, Lead(r, s, e)
      PROVE  SameKey'
  BY <1>4 DEF Lead, Evict, Count, Fresh, TypeOK, Unasked, SingleFlight, WaiterHasOwner, CacheHonest, SameKey, NoEntry
<1>5. ASSUME NEW r \in Requests, NEW s \in Searches, LeadNowhere(r, s)
      PROVE  SameKey'
  BY <1>5 DEF LeadNowhere, Evict, Answer, Count, Made, Fresh, TypeOK, Unasked, SingleFlight, WaiterHasOwner, CacheHonest, SameKey, NoEntry
<1>6. ASSUME NEW r \in Requests, Succeed(r)
      PROVE  SameKey'
  BY <1>6 DEF Succeed, Store, Answer, Count, Release, Made, TypeOK, Unasked, SingleFlight, WaiterHasOwner, CacheHonest, SameKey, NoEntry
<1>7. ASSUME NEW r \in Requests, FailOver(r)
      PROVE  SameKey'
  BY <1>7 DEF FailOver, TypeOK, Unasked, SingleFlight, WaiterHasOwner, CacheHonest, SameKey, NoEntry
<1>8. ASSUME NEW r \in Requests, Fail(r)
      PROVE  SameKey'
  BY <1>8 DEF Fail, Answer, Count, Release, Made, TypeOK, Unasked, SingleFlight, WaiterHasOwner, CacheHonest, SameKey, NoEntry
<1>9. ASSUME NEW r \in Requests, Resume(r)
      PROVE  SameKey'
  <2>1. UNCHANGED search /\ at' = [at EXCEPT ![r] = "answered"] /\ answer' = [answer EXCEPT ![r] = answer[owner[r]]]
    BY <1>9 DEF Resume, Answer
  <2>2. at[r] = "waiting" /\ at[owner[r]] = "answered"
    BY <1>9 DEF Resume
  <2>3. /\ owner[r] \in Requests /\ search[owner[r]] # None
        /\ CacheKey(search[owner[r]]) = CacheKey(search[r])
    BY <2>2 DEF WaiterHasOwner, TypeOK
  <2>4. answer[owner[r]].for \in Searches /\ CacheKey(answer[owner[r]].for) = CacheKey(search[r])
    BY <2>2, <2>3 DEF SameKey
  <2> QED
    BY <2>1, <2>4 DEF SameKey, TypeOK
<1>10. CASE Tick
  BY <1>10 DEF Tick, TypeOK, Unasked, SingleFlight, WaiterHasOwner, CacheHonest, SameKey, NoEntry
<1>11. CASE UNCHANGED vars
  BY <1>11 DEF vars, TypeOK, Unasked, SingleFlight, WaiterHasOwner, CacheHonest, SameKey, NoEntry
<1>12. QED
  BY <1>1, <1>2, <1>3, <1>4, <1>5, <1>6, <1>7, <1>8, <1>9, <1>10, <1>11 DEF Next

\* That is its own search where the key tells searches apart.
LEMMA OwnOfKey ==
    /\ OwnAnswer => SameKey
    /\ TypeOK' /\ SameKey' => OwnAnswer'
<1>1. OwnAnswer => SameKey
  BY DEF OwnAnswer, SameKey
<1>2. ASSUME TypeOK', SameKey', NEW r \in Requests, at'[r] = "answered", search'[r] # None
      PROVE  /\ answer'[r].for \in Searches /\ CacheKey(answer'[r].for) = CacheKey(search'[r])
             /\ PlainLang(search'[r]) /\ PlainLang(answer'[r].for) => answer'[r].for = search'[r]
  <2>1. answer'[r].for \in Searches /\ CacheKey(answer'[r].for) = CacheKey(search'[r])
    BY <1>2 DEF SameKey
  <2>2. search'[r] \in Searches
    BY <1>2 DEF TypeOK
  <2> QED
    BY <2>1, <2>2, KeyTells
<1> QED
  BY <1>1, <1>2 DEF OwnAnswer

\* Failures and deadlines of an engine move together.
LEMMA BreakerStep ==
    ASSUME TypeOK, SingleFlight, BreakerConsistent, [Next]_vars
    PROVE  BreakerConsistent'
<1> USE Given
<1>1. ASSUME NEW r \in Requests, Refuse(r)
      PROVE  BreakerConsistent'
  BY <1>1 DEF Refuse, Answer, Count, Made, TypeOK, BreakerConsistent, Closed
<1>2. ASSUME NEW r \in Requests, NEW s \in Searches, HitCache(r, s)
      PROVE  BreakerConsistent'
  BY <1>2 DEF HitCache, Answer, Count, Fresh, TypeOK, BreakerConsistent, Closed
<1>3. ASSUME NEW r \in Requests, NEW s \in Searches, Join(r, s)
      PROVE  BreakerConsistent'
  BY <1>3 DEF Join, Evict, Count, Fresh, TypeOK, BreakerConsistent, Closed
<1>4. ASSUME NEW r \in Requests, NEW s \in Searches, NEW e \in Engines, Lead(r, s, e)
      PROVE  BreakerConsistent'
  BY <1>4 DEF Lead, Evict, Count, Fresh, TypeOK, BreakerConsistent, Closed, LookedUp, MayAsk, CircuitOpen
<1>5. ASSUME NEW r \in Requests, NEW s \in Searches, LeadNowhere(r, s)
      PROVE  BreakerConsistent'
  BY <1>5 DEF LeadNowhere, Evict, Answer, Count, Made, Fresh, TypeOK, BreakerConsistent, Closed
<1>6. ASSUME NEW r \in Requests, Succeed(r)
      PROVE  BreakerConsistent'
  BY <1>6 DEF Succeed, Store, Answer, Count, Release, Made, TypeOK, BreakerConsistent, Closed
<1>7. ASSUME NEW r \in Requests, FailOver(r)
      PROVE  BreakerConsistent'
  BY <1>7 DEF FailOver, TypeOK, BreakerConsistent, Closed, Failed, LookedUp, LastAttempt, CircuitOpen
<1>8. ASSUME NEW r \in Requests, Fail(r)
      PROVE  BreakerConsistent'
  BY <1>8 DEF Fail, Answer, Count, Release, Made, TypeOK, BreakerConsistent, Closed, Failed
<1>9. ASSUME NEW r \in Requests, Resume(r)
      PROVE  BreakerConsistent'
  BY <1>9 DEF Resume, Answer, Count, TypeOK, BreakerConsistent, Closed
<1>10. CASE Tick
  BY <1>10 DEF Tick, TypeOK, BreakerConsistent, Closed
<1>11. CASE UNCHANGED vars
  BY <1>11 DEF vars, TypeOK, BreakerConsistent, Closed
<1>12. QED
  BY <1>1, <1>2, <1>3, <1>4, <1>5, <1>6, <1>7, <1>8, <1>9, <1>10, <1>11 DEF Next

-----------------------------------------------------------------------------
\* In every reachable state: equal searches share one upstream query, waiters
\* have an owner that is at work or done, the cache holds no failure and nothing
\* of another key, every answer is to a search with the request's own key, and a circuit
\* is open exactly when its failures have reached the threshold.
THEOREM SearchSafe == Spec => []SearchInv
<1>1. Init => SearchInv
  BY Given
  DEF Init, SearchInv, TypeOK, Unasked, SingleFlight, WaiterHasOwner, CacheHonest, OwnAnswer,
      BreakerConsistent, NoEntry, NoAnswer, Closed
<1>2. SearchInv /\ [Next]_vars => SearchInv'
  BY TypedStep, UnaskedStep, SingleFlightStep, WaiterStep, CacheStep, SameKeyStep, OwnOfKey, BreakerStep
  DEF SearchInv
<1>3. QED
  BY <1>1, <1>2, PTL DEF Spec

\* Equal searches are never upstream twice and no future is left unresolved.
THEOREM OneQueryPerSearch == Spec => []SingleFlight
<1>1. SearchInv => SingleFlight
  BY DEF SearchInv
<1>2. QED
  BY <1>1, SearchSafe, PTL

\* A request gets results of a search with its own key, whoever fetched them; of its
\* own search when language and query can be told apart in the two keys.
THEOREM AnswersOwnSearch == Spec => []OwnAnswer
<1>1. SearchInv => OwnAnswer
  BY DEF SearchInv
<1>2. QED
  BY <1>1, SearchSafe, PTL

\* The cache holds what was fetched for its key, and no failures.
THEOREM CacheIsHonest == Spec => []CacheHonest
<1>1. SearchInv => CacheHonest
  BY DEF SearchInv
<1>2. QED
  BY <1>1, SearchSafe, PTL

\* An open circuit is closed before its time only by a success of its engine.
THEOREM OnlySuccessCloses == Spec => ClosedEarlyBySuccess
<1> DEFINE Early(e) ==
      breaker[e].openUntil > now' /\ breaker'[e].openUntil < breaker[e].openUntil
<1> DEFINE BySuccess(e) ==
      \E r \in Requests : at[r] = "querying" /\ asking[r] = e /\ answer'[r].status \in Found
<1>1. SearchInv /\ [Next]_vars => [\A e \in Engines : Early(e) => BySuccess(e)]_vars
  <2>1. SUFFICES ASSUME SearchInv, [Next]_vars, NEW e \in Engines, Early(e)
                 PROVE  BySuccess(e)
    OBVIOUS
  <2> USE Given DEF SearchInv, TypeOK, SingleFlight, BreakerConsistent
  <2>2. ASSUME NEW r \in Requests, Succeed(r)
        PROVE  BySuccess(e)
    <3>1. asking[r] \in Engines /\ at[r] = "querying"
      BY <2>1, <2>2 DEF Succeed
    <3>2. breaker' = [breaker EXCEPT ![asking[r]] = Closed]
      BY <2>1, <2>2 DEF Succeed
    <3>3. asking[r] = e
      BY <2>1, <3>1, <3>2
    <3>4. answer'[r].status \in Found
      BY <2>1, <2>2 DEF Succeed, Answer, Made
    <3>5. QED
      BY <3>1, <3>3, <3>4
  <2>3. ASSUME NEW r \in Requests, NEW s \in Searches, NEW f \in Engines, Lead(r, s, f)
        PROVE  FALSE
    <3>1. breaker[f].openUntil <= now /\ now' = now
      BY <2>1, <2>3 DEF Lead, MayAsk, CircuitOpen
    <3>2. breaker' = [breaker EXCEPT ![f] = LookedUp(@)]
      BY <2>1, <2>3 DEF Lead
    <3>3. QED
      BY <2>1, <3>1, <3>2
  <2>4. ASSUME NEW r \in Requests, FailOver(r)
        PROVE  FALSE
    <3>1. breaker[Fallback].openUntil <= now /\ now' = now
      BY <2>1, <2>4 DEF FailOver, LastAttempt, CircuitOpen
    <3>2. asking[r] \in Engines
      BY <2>1, <2>4 DEF FailOver
    <3>3. CASE e = asking[r]
      <4>1. breaker'[e] = Failed(breaker[e])
        BY <2>1, <2>4, <3>3 DEF FailOver
      <4>2. Failed(breaker[e]).openUntil >= breaker[e].openUntil
        BY <2>1 DEF Failed
      <4>3. QED
        BY <2>1, <4>1, <4>2 DEF Failed
    <3>4. CASE e # asking[r] /\ e = Fallback
      BY <2>1, <3>1, <3>4
    <3>5. CASE e # asking[r] /\ e # Fallback
      <4>1. breaker'[e] = breaker[e]
        BY <2>4, <3>5 DEF FailOver
      <4>2. QED
        BY <2>1, <4>1
    <3>6. QED
      BY <3>3, <3>4, <3>5
  <2>5. ASSUME NEW r \in Requests, Fail(r)
        PROVE  FALSE
    <3>1. asking[r] \in Engines /\ breaker' = [breaker EXCEPT ![asking[r]] = Failed(@)]
      BY <2>1, <2>5 DEF Fail
    <3>2. Failed(breaker[e]).openUntil >= breaker[e].openUntil
      BY <2>1 DEF Failed
    <3>3. QED
      BY <2>1, <3>1, <3>2 DEF Failed
  <2>6. CASE UNCHANGED breaker
    BY <2>1, <2>6
  <2>7. QED
    BY <2>1, <2>2, <2>3, <2>4, <2>5, <2>6
    DEF Next, vars, Refuse, HitCache, Join, LeadNowhere, Resume, Tick
<1>2. QED
  BY <1>1, SearchSafe, PTL DEF Spec, ClosedEarlyBySuccess

\* A circuit is open exactly when its failures have reached the threshold, and never
\* for longer than the cooldown.
THEOREM CircuitsConsistent == Spec => []BreakerConsistent
<1>1. SearchInv => BreakerConsistent
  BY DEF SearchInv
<1>2. QED
  BY <1>1, SearchSafe, PTL

-----------------------------------------------------------------------------
(* The counters.  There may be infinitely many requests: that the ones     *)
(* counted so far are finitely many is part of the invariant.              *)

Arrived == {r \in Requests : at[r] \in {"querying", "waiting", "answered"}}
Done    == {r \in Requests : at[r] \in {"answered"}}
Pleased == {r \in Requests : answer[r].status = "ok"}
Shared  == {r \in Requests : owner[r] # None}

\* Who has not been answered holds no payload, who has holds one, and who has not
\* joined another has no owner.
InPlace ==
    \A r \in Requests :
        /\ at[r] # "answered" => answer[r] = NoAnswer
        /\ at[r] = "answered" => answer[r] \in Answers
        /\ at[r] \in {"idle", "querying"} => owner[r] = None

Books ==
    /\ IsFiniteSet(Arrived) /\ IsFiniteSet(Done) /\ IsFiniteSet(Pleased) /\ IsFiniteSet(Shared)
    /\ stats["requests_total"] = Cardinality(Arrived)
    /\ stats["ok"] + stats["empty"] + stats["upstream_failed"] + stats["bad_request"]
         = Cardinality(Done)
    /\ stats["ok"] = Cardinality(Pleased)
    /\ stats["coalesced_hits"] = Cardinality(Shared)

BooksInv == SearchInv /\ InPlace /\ Books

\* r is new in the set, which was S and is T.
Enters(r, S, T) == r \notin S /\ T = S \union {r}

\* A finite set that r enters stays finite, by one element more.
LEMMA EntersByOne ==
    ASSUME NEW S, NEW T, NEW r, IsFiniteSet(S), Enters(r, S, T)
    PROVE  IsFiniteSet(T) /\ Cardinality(T) = Cardinality(S) + 1
  BY FS_AddElement DEF Enters

\* What a step that counts cs has to do to the four sets: r enters the set of every
\* counter that goes up, and an answer has one status.
Booking(r, cs) ==
    /\ IF "requests_total" \in cs THEN Enters(r, Arrived, Arrived') ELSE Arrived' = Arrived
    /\ IF cs \intersect Statuses # {} THEN Enters(r, Done, Done') ELSE Done' = Done
    /\ IF "ok" \in cs THEN Enters(r, Pleased, Pleased') ELSE Pleased' = Pleased
    /\ IF "coalesced_hits" \in cs THEN Enters(r, Shared, Shared') ELSE Shared' = Shared
    /\ \A s, t \in cs \intersect Statuses : s = t

\* A step that books what it counts keeps the books.
LEMMA Booked ==
    ASSUME stats \in [Counters -> Nat], Books, NEW r, NEW cs, Count(cs), Booking(r, cs)
    PROVE  Books'
<1>1. /\ IsFiniteSet(Arrived) /\ IsFiniteSet(Done) /\ IsFiniteSet(Pleased) /\ IsFiniteSet(Shared)
  BY DEF Books
<1>2. /\ IsFiniteSet(Arrived')
      /\ Cardinality(Arrived') = IF "requests_total" \in cs THEN Cardinality(Arrived) + 1
                                                            ELSE Cardinality(Arrived)
  <2>1. CASE "requests_total" \in cs
    BY <1>1, <2>1, EntersByOne DEF Booking
  <2>2. CASE "requests_total" \notin cs
    BY <1>1, <2>2 DEF Booking
  <2>3. QED
    BY <2>1, <2>2
<1>3. /\ IsFiniteSet(Done')
      /\ Cardinality(Done) \in Nat
      /\ Cardinality(Done') = IF cs \intersect Statuses # {} THEN Cardinality(Done) + 1
                                                             ELSE Cardinality(Done)
  <2>1. CASE cs \intersect Statuses # {}
    BY <1>1, <2>1, EntersByOne, FS_CardinalityType DEF Booking
  <2>2. CASE cs \intersect Statuses = {}
    BY <1>1, <2>2, FS_CardinalityType DEF Booking
  <2>3. QED
    BY <2>1, <2>2
<1>4. /\ IsFiniteSet(Pleased')
      /\ Cardinality(Pleased') = IF "ok" \in cs THEN Cardinality(Pleased) + 1
                                                ELSE Cardinality(Pleased)
  <2>1. CASE "ok" \in cs
    BY <1>1, <2>1, EntersByOne DEF Booking
  <2>2. CASE "ok" \notin cs
    BY <1>1, <2>2 DEF Booking
  <2>3. QED
    BY <2>1, <2>2
<1>5. /\ IsFiniteSet(Shared')
      /\ Cardinality(Shared') = IF "coalesced_hits" \in cs THEN Cardinality(Shared) + 1
                                                           ELSE Cardinality(Shared)
  <2>1. CASE "coalesced_hits" \in cs
    BY <1>1, <2>1, EntersByOne DEF Booking
  <2>2. CASE "coalesced_hits" \notin cs
    BY <1>1, <2>2 DEF Booking
  <2>3. QED
    BY <2>1, <2>2
<1>6. \A c \in Counters : stats[c] \in Nat /\ stats'[c] = IF c \in cs THEN stats[c] + 1 ELSE stats[c]
  BY DEF Count
<1>7. {"requests_total", "coalesced_hits"} \union Statuses \subseteq Counters
  BY DEF Counters
<1>8. Statuses = {"ok", "empty", "upstream_failed", "bad_request"}
  BY DEF Statuses, Found
<1>9. stats'["requests_total"] = Cardinality(Arrived') /\ stats'["coalesced_hits"] = Cardinality(Shared')
  BY <1>2, <1>5, <1>6, <1>7 DEF Books
<1>10. stats'["ok"] = Cardinality(Pleased')
  BY <1>4, <1>6, <1>7, <1>8 DEF Books
<1>11. stats'["ok"] + stats'["empty"] + stats'["upstream_failed"] + stats'["bad_request"]
         = Cardinality(Done')
  <2>1. stats["ok"] + stats["empty"] + stats["upstream_failed"] + stats["bad_request"]
          = Cardinality(Done)
    BY DEF Books
  <2>2. CASE cs \intersect Statuses = {}
    BY <1>3, <1>6, <1>7, <1>8, <2>1, <2>2
  <2>3. CASE cs \intersect Statuses # {}
    <3>1. PICK s \in Statuses : s \in cs
      BY <2>3
    <3>2. \A t \in Statuses : t \in cs <=> t = s
      BY <3>1 DEF Booking
    <3>3. \A t \in Statuses : stats[t] \in Nat /\ stats'[t] = IF t = s THEN stats[t] + 1 ELSE stats[t]
      BY <1>6, <1>7, <3>2
    <3>4. stats["ok"] \in Nat /\ stats["empty"] \in Nat /\ stats["upstream_failed"] \in Nat
          /\ stats["bad_request"] \in Nat
      BY <1>8, <3>3
    <3>5. QED
      BY <1>3, <1>8, <2>1, <2>3, <3>3, <3>4, SMTT(30)
  <2>4. QED
    BY <2>2, <2>3
<1>12. QED
  BY <1>2, <1>3, <1>4, <1>5, <1>9, <1>10, <1>11 DEF Books

\* A step that changes no place, payload, owner or counter changes no book.
LEMMA BooksUnchanged ==
    ASSUME BooksInv, UNCHANGED <<at, answer, owner, stats>>
    PROVE  InPlace' /\ Books'
<1>1. Arrived' = Arrived /\ Done' = Done /\ Pleased' = Pleased /\ Shared' = Shared
  BY DEF Arrived, Done, Pleased, Shared
<1>2. QED
  BY <1>1 DEF BooksInv, Books, InPlace

\* The payload of a fresh entry is a result.
LEMMA FreshPayload ==
    ASSUME SearchInv, NEW k \in Keys, Fresh(k)
    PROVE  cache[k].payload \in Answers /\ cache[k].payload.status \in Found
<1>1. cache[k] # NoEntry
  BY DEF SearchInv, TypeOK, Fresh, NoEntry
<1>2. cache[k].payload.status \in Found
  BY <1>1 DEF SearchInv, CacheHonest
<1>3. cache[k].payload \in Answers \union {NoAnswer}
  BY DEF SearchInv, TypeOK
<1>4. QED
  BY <1>2, <1>3 DEF NoAnswer, Found

\* An answer to a request without one, counted by one status, is booked: as pleased if the
\* answer and the status are "ok", as arrived if the request was idle.
LEMMA AnswerBooked ==
    ASSUME BooksInv, NEW r \in Requests, at[r] # "answered",
           NEW a \in Answers, Answer(r, a), UNCHANGED owner,
           NEW status \in Statuses, status = "ok" <=> a.status = "ok",
           NEW others \in SUBSET {"requests_total", "cache_hits"},
           "requests_total" \in others <=> at[r] = "idle",
           Count(others \union {status})
    PROVE  InPlace' /\ Books'
<1> USE DEF BooksInv, SearchInv, TypeOK
<1>1. Arrived' = Arrived \union {r} /\ Done' = Done \union {r} /\ r \notin Done
      /\ (r \in Arrived <=> at[r] # "idle")
  BY DEF Answer, Arrived, Done
<1>2. IF a.status = "ok" THEN Enters(r, Pleased, Pleased') ELSE Pleased' = Pleased
  <2>1. answer[r].status # "ok"
    BY DEF InPlace, NoAnswer
  <2>2. answer' = [answer EXCEPT ![r] = a]
    BY DEF Answer
  <2>3. QED
    BY <2>1, <2>2 DEF Enters, Pleased
<1>3. Shared' = Shared
  BY DEF Shared
<1>4. InPlace'
  BY DEF Answer, InPlace
<1>5. (others \union {status}) \intersect Statuses = {status}
  BY DEF Statuses, Found
<1>6. "coalesced_hits" \notin others \union {status}
      /\ ("ok" \in others \union {status} <=> a.status = "ok")
      /\ ("requests_total" \in others \union {status} <=> at[r] = "idle")
  BY DEF Statuses, Found
<1>7. Booking(r, others \union {status})
  BY <1>1, <1>2, <1>3, <1>5, <1>6 DEF Booking, Enters
<1>8. QED
  BY <1>4, <1>7, Booked

\* Every step counts what it does to a request.
LEMMA BooksStep ==
    ASSUME BooksInv, [Next]_vars
    PROVE  InPlace' /\ Books'
<1> USE Given
<1> USE DEF BooksInv, SearchInv
<1>1. ASSUME NEW r \in Requests, Refuse(r)
      PROVE  InPlace' /\ Books'
  <2>1. PICK status \in {"bad_request", "empty"} :
            Answer(r, Made(status, None)) /\ Count({"requests_total", status})
    BY <1>1 DEF Refuse
  <2>2. Made(status, None) \in Answers /\ Made(status, None).status = status
    BY MadeTyped DEF Made, Statuses, Found
  <2>3. {"requests_total", status} = {"requests_total"} \union {status}
    OBVIOUS
  <2>4. at[r] = "idle" /\ UNCHANGED owner /\ status \in Statuses /\ status # "ok"
    BY <1>1 DEF Refuse, Statuses, Found
  <2>5. Count({"requests_total"} \union {status})
    BY <2>1, <2>3
  <2>6. QED
    BY <2>1, <2>2, <2>4, <2>5, AnswerBooked
<1>2. ASSUME NEW r \in Requests, NEW s \in Searches, HitCache(r, s)
      PROVE  InPlace' /\ Books'
  <2> DEFINE a == cache[CacheKey(s)].payload
  <2>1. a \in Answers /\ a.status \in Found
    BY <1>2, FreshPayload DEF HitCache
  <2>2. Counted(a.status) \in Statuses /\ (Counted(a.status) = "ok" <=> a.status = "ok")
    BY DEF Counted, Statuses, Found
  <2>3. {"requests_total", "cache_hits", Counted(a.status)}
          = {"requests_total", "cache_hits"} \union {Counted(a.status)}
    OBVIOUS
  <2>4. Count({"requests_total", "cache_hits"} \union {Counted(a.status)})
    BY <1>2, <2>3 DEF HitCache
  <2>5. at[r] = "idle" /\ UNCHANGED owner /\ Answer(r, a)
    BY <1>2 DEF HitCache
  <2> HIDE DEF a
  <2>6. QED
    BY <2>1, <2>2, <2>4, <2>5, AnswerBooked
<1>3. ASSUME NEW r \in Requests, NEW s \in Searches, Join(r, s)
      PROVE  InPlace' /\ Books'
  <2> USE DEF TypeOK
  <2>1. at[r] = "idle" /\ at' = [at EXCEPT ![r] = "waiting"] /\ UNCHANGED answer
        /\ owner' = [owner EXCEPT ![r] = inflight[CacheKey(s)]] /\ inflight[CacheKey(s)] # None
    BY <1>3 DEF Join
  <2>2. owner[r] = None
    BY <2>1 DEF InPlace
  <2>3. Arrived' = Arrived \union {r} /\ r \notin Arrived /\ Done' = Done /\ Pleased' = Pleased
    BY <2>1 DEF Arrived, Done, Pleased
  <2>4. Shared' = Shared \union {r} /\ r \notin Shared
    BY <2>1, <2>2 DEF Shared
  <2>5. InPlace'
    BY <2>1 DEF InPlace
  <2>6. Booking(r, {"requests_total", "coalesced_hits"})
    BY <2>3, <2>4 DEF Booking, Enters, Statuses, Found
  <2>7. Count({"requests_total", "coalesced_hits"})
    BY <1>3 DEF Join
  <2>8. QED
    BY <2>5, <2>6, <2>7, Booked
<1>4. ASSUME NEW r \in Requests, NEW s \in Searches, NEW e \in Engines, Lead(r, s, e)
      PROVE  InPlace' /\ Books'
  <2> USE DEF TypeOK
  <2>1. at[r] = "idle" /\ at' = [at EXCEPT ![r] = "querying"] /\ UNCHANGED <<answer, owner>>
    BY <1>4 DEF Lead
  <2>2. Arrived' = Arrived \union {r} /\ r \notin Arrived /\ Done' = Done /\ Pleased' = Pleased
        /\ Shared' = Shared
    BY <2>1 DEF Arrived, Done, Pleased, Shared
  <2>3. InPlace'
    BY <2>1 DEF InPlace
  <2>4. Booking(r, {"requests_total"})
    BY <2>2 DEF Booking, Enters, Statuses, Found
  <2>5. Count({"requests_total"})
    BY <1>4 DEF Lead
  <2>6. QED
    BY <2>3, <2>4, <2>5, Booked
<1>5. ASSUME NEW r \in Requests, NEW s \in Searches, LeadNowhere(r, s)
      PROVE  InPlace' /\ Books'
  <2>1. Made("upstream_failed", s) \in Answers /\ Made("upstream_failed", s).status # "ok"
    BY MadeTyped DEF Made, Statuses, Found
  <2>2. Count({"requests_total"} \union {"upstream_failed"})
    <3>1. {"requests_total", "upstream_failed"} = {"requests_total"} \union {"upstream_failed"}
      OBVIOUS
    <3>2. QED
      BY <1>5, <3>1 DEF LeadNowhere
  <2>3. at[r] = "idle" /\ UNCHANGED owner /\ Answer(r, Made("upstream_failed", s))
    BY <1>5 DEF LeadNowhere
  <2>4. "upstream_failed" \in Statuses
    BY DEF Statuses
  <2>5. QED
    BY <2>1, <2>2, <2>3, <2>4, AnswerBooked
<1>6. ASSUME NEW r \in Requests, Succeed(r)
      PROVE  InPlace' /\ Books'
  <2>1. PICK status \in Found : Answer(r, Made(status, search[r])) /\ Count({status})
    BY <1>6 DEF Succeed
  <2>2. Made(status, search[r]) \in Answers /\ Made(status, search[r]).status = status
    BY MadeTyped DEF Made, Statuses, TypeOK
  <2>3. Count({} \union {status})
    BY <2>1
  <2>4. at[r] = "querying" /\ UNCHANGED owner /\ status \in Statuses
    BY <1>6 DEF Succeed, Statuses
  <2>5. QED
    BY <2>1, <2>2, <2>3, <2>4, AnswerBooked
<1>7. ASSUME NEW r \in Requests, FailOver(r)
      PROVE  InPlace' /\ Books'
  BY <1>7, BooksUnchanged DEF FailOver
<1>8. ASSUME NEW r \in Requests, Fail(r)
      PROVE  InPlace' /\ Books'
  <2>1. Made("upstream_failed", search[r]) \in Answers /\ Made("upstream_failed", search[r]).status # "ok"
    BY MadeTyped DEF Made, Statuses, Found, TypeOK
  <2>2. Count({} \union {"upstream_failed"})
    BY <1>8 DEF Fail
  <2>3. at[r] = "querying" /\ UNCHANGED owner /\ Answer(r, Made("upstream_failed", search[r]))
    BY <1>8 DEF Fail
  <2>4. "upstream_failed" \in Statuses
    BY DEF Statuses
  <2>5. QED
    BY <2>1, <2>2, <2>3, <2>4, AnswerBooked
<1>9. ASSUME NEW r \in Requests, Resume(r)
      PROVE  InPlace' /\ Books'
  <2>1. at[r] = "waiting" /\ at[owner[r]] = "answered" /\ UNCHANGED owner
    BY <1>9 DEF Resume
  <2>2. PICK a \in Answers : a = answer[owner[r]]
    BY <2>1 DEF InPlace, WaiterHasOwner, TypeOK
  <2>3. PICK status \in Statuses : status = Counted(a.status) /\ (status = "ok" <=> a.status = "ok")
    BY DEF Counted, Statuses, Found
  <2>4. Answer(r, a) /\ Count({} \union {status})
    BY <1>9, <2>2, <2>3 DEF Resume
  <2>5. QED
    BY <2>1, <2>3, <2>4, AnswerBooked
<1>10. CASE Tick
  BY <1>10, BooksUnchanged DEF Tick
<1>11. CASE UNCHANGED vars
  BY <1>11, BooksUnchanged DEF vars
<1>12. QED
  BY <1>1, <1>2, <1>3, <1>4, <1>5, <1>6, <1>7, <1>8, <1>9, <1>10, <1>11 DEF Next

\* At every moment the statistics add up, however many requests there are: the total counts
\* the requests that have arrived, the statuses together the ones that have been answered,
\* ok the ones whose answer is ok, and coalesced_hits the ones that shared another's query.
THEOREM StatisticsAddUp == Spec => []CountersAddUp
<1>1. Init => InPlace /\ Books
  <2>1. SUFFICES ASSUME Init PROVE InPlace /\ Books
    OBVIOUS
  <2>2. Arrived = {} /\ Done = {} /\ Pleased = {} /\ Shared = {}
    BY <2>1 DEF Init, Arrived, Done, Pleased, Shared, NoAnswer
  <2>3. InPlace
    BY <2>1 DEF Init, InPlace
  <2>4. \A c \in Counters : stats[c] = 0
    BY <2>1 DEF Init
  <2>5. QED
    BY <2>2, <2>3, <2>4, FS_EmptySet DEF Books, Counters, Statuses, Found
<1>2. SearchInv /\ InPlace /\ Books /\ [Next]_vars => (InPlace /\ Books)'
  BY BooksStep DEF BooksInv
<1>3. InPlace /\ Books => CountersAddUp
  BY DEF Books, CountersAddUp, Arrived, Done, Pleased, Shared
<1>4. QED
  BY <1>1, <1>2, <1>3, SearchSafe, PTL DEF Spec
=============================================================================
