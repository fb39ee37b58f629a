--------------------------- MODULE SearchService ---------------------------
(***************************************************************************)
(* The web search service (infra/search-service/main.py): one asyncio      *)
(* process that answers searches from a cache, lets equal searches in      *)
(* flight share one upstream query, retries a failed query on a fallback   *)
(* engine and stops querying an engine that keeps failing.                 *)
(*                                                                         *)
(* One action is what runs between two awaits.  The lock around _inflight  *)
(* is never held across an await, so taking it never suspends.             *)
(***************************************************************************)
EXTENDS Integers, FiniteSets, Sequences

CONSTANTS
    Requests,        \* HTTP requests
    Searches,        \* what is searched for: engine, limit, language and query
    Engines,         \* ALLOWED_ENGINES
    Fallback,        \* SEARCH_FALLBACK_ENGINE
    Threshold,       \* SEARCH_FAILURE_THRESHOLD
    Cooldown,        \* SEARCH_FAILURE_COOLDOWN_SEC, in ticks
    TTL,             \* SEARCH_CACHE_TTL_SEC, in ticks
    MaxTime,         \* bound of the model's clock
    None

\* A text is the list of the pieces between its colons; the empty list is no text.
Texts == Seq(STRING)

ASSUME SearchAssumption ==
    /\ Fallback \in Engines
    /\ Searches \subseteq [engine : Engines, limit : Int, lang : Texts, query : Texts]
    /\ None \notin Requests \union Searches \union Engines
    /\ Threshold \in Nat \ {0} /\ Cooldown \in Nat \ {0}
    /\ TTL \in Nat /\ MaxTime \in Nat

VARIABLES
    now,        \* time.time()
    cache,      \* _cache: per key, when the payload expires and what it is
    breaker,    \* _failure_state: per engine, failures in a row and open_until
    inflight,   \* _inflight: per key, the request that owns the future, or None
    at,         \* where a request is
    search,     \* what a request asks for
    asking,     \* the engine a request is querying
    owner,      \* the request whose future a request waits for
    answer,     \* the payload of a request
    stats       \* _stats

vars == <<now, cache, breaker, inflight, at, search, asking, owner, answer, stats>>

\* The engine is the normalised one, the query has no blanks around it.
EngineOf(s) == s.engine

\* MUTANT: the key leaves the engine out.
CacheKeyNoEngine(s) ==
    <<Fallback, s.limit>> \o (IF s.lang = <<>> THEN <<"-">> ELSE s.lang) \o s.query

\* _cache_key: engine, limit, language or a dash, and query, with colons in between.
\* Neither engine nor limit holds a colon; language and query are free text.
CacheKey(s) ==
    <<s.engine, s.limit>> \o (IF s.lang = <<>> THEN <<"-">> ELSE s.lang) \o s.query

Keys == {CacheKey(s) : s \in Searches}

\* A payload: its status, the search it was made for and when.
Found    == {"ok", "empty"}            \* what a query can bring home
Statuses == Found \union {"upstream_failed", "bad_request"}
Answers  == [status : Statuses, for : Searches \union {None}, fetched : Nat]
NoAnswer == [status |-> "none", for |-> None, fetched |-> 0]
NoEntry  == [expires |-> 0, payload |-> NoAnswer]
Made(status, s) == [status |-> status, for |-> s, fetched |-> now]

Counters == {"requests_total", "cache_hits", "coalesced_hits"} \union Statuses
Closed   == [count |-> 0, openUntil |-> 0]

Init ==
    /\ now = 1
    /\ cache = [k \in Keys |-> NoEntry]
    /\ breaker = [e \in Engines |-> Closed]
    /\ inflight = [k \in Keys |-> None]
    /\ at = [r \in Requests |-> "idle"]
    /\ search = [r \in Requests |-> None]
    /\ asking = [r \in Requests |-> None]
    /\ owner = [r \in Requests |-> None]
    /\ answer = [r \in Requests |-> NoAnswer]
    /\ stats = [c \in Counters |-> 0]

-----------------------------------------------------------------------------
(* The circuit breaker.                                                    *)

CircuitOpen(e) == breaker[e].openUntil > now

\* MUTANT: the cooldown is cleared and the failures are not.
LookedUpHalf(b) == IF b.openUntil \in 1 .. now THEN [b EXCEPT !.openUntil = 0] ELSE b

\* _is_circuit_open also clears a circuit whose cooldown is over.
LookedUp(b) == IF b.openUntil \in 1 .. now THEN Closed ELSE b

\* _record_failure
Failed(b) ==
    [count |-> b.count + 1,
     openUntil |-> IF b.count + 1 >= Threshold THEN now + Cooldown ELSE b.openUntil]

\* The engine _search_with_fallback tries after e, if there is one.
HasFallback(e) == Fallback # e

-----------------------------------------------------------------------------
(* Statistics: the counters named in cs go up by one.                      *)

Count(cs) == stats' = [c \in Counters |-> IF c \in cs THEN stats[c] + 1 ELSE stats[c]]

\* A payload that another request fetched is counted by its results only.
Counted(status) == IF status = "ok" THEN "ok" ELSE "empty"

Answer(r, a) ==
    /\ at' = [at EXCEPT ![r] = "answered"]
    /\ answer' = [answer EXCEPT ![r] = a]

-----------------------------------------------------------------------------
(* Requests.                                                               *)

\* An engine that is not allowed and a blank query are answered at once.
Refuse(r) ==
    /\ at[r] = "idle"
    /\ \E s \in {"bad_request", "empty"} :
          /\ Answer(r, Made(s, None))
          /\ Count({"requests_total", s})
    /\ UNCHANGED <<now, cache, breaker, inflight, search, asking, owner>>

Fresh(k) == cache[k].expires > now

\* _get_cached_response
HitCache(r, s) ==
    LET k == CacheKey(s)
    IN  /\ at[r] = "idle" /\ Fresh(k)
        /\ search' = [search EXCEPT ![r] = s]
        /\ Answer(r, cache[k].payload)
        /\ Count({"requests_total", "cache_hits", Counted(cache[k].payload.status)})
        /\ UNCHANGED <<now, cache, breaker, inflight, asking, owner>>

\* An expired entry is dropped when it is looked up.
Evict(k) == cache' = [cache EXCEPT ![k] = NoEntry]

\* MUTANT: a waiter is not counted as a request.
JoinUncounted(r, s) ==
    LET k == CacheKey(s)
    IN  /\ at[r] = "idle" /\ ~Fresh(k) /\ inflight[k] # None
        /\ Evict(k)
        /\ at' = [at EXCEPT ![r] = "waiting"]
        /\ search' = [search EXCEPT ![r] = s]
        /\ owner' = [owner EXCEPT ![r] = inflight[k]]
        /\ Count({"coalesced_hits"})
        /\ UNCHANGED <<now, breaker, inflight, asking, answer>>

\* The key is in flight: wait for its owner's future.
Join(r, s) ==
    LET k == CacheKey(s)
    IN  /\ at[r] = "idle" /\ ~Fresh(k) /\ inflight[k] # None
        /\ Evict(k)
        /\ at' = [at EXCEPT ![r] = "waiting"]
        /\ search' = [search EXCEPT ![r] = s]
        /\ owner' = [owner EXCEPT ![r] = inflight[k]]
        /\ Count({"requests_total", "coalesced_hits"})
        /\ UNCHANGED <<now, breaker, inflight, asking, answer>>

\* _acquire_inflight makes the request the owner, and the first engine of
\* _search_with_fallback whose circuit is closed is queried.
MayAsk(s, e) ==
    /\ ~CircuitOpen(e)
    /\ \/ e = EngineOf(s)
       \/ e = Fallback /\ HasFallback(EngineOf(s)) /\ CircuitOpen(EngineOf(s))

\* MUTANT: the future is taken over from the request that owns it.
LeadAlways(r, s, e) ==
    LET k == CacheKey(s)
    IN  /\ at[r] = "idle" /\ ~Fresh(k)
        /\ MayAsk(s, e)
        /\ breaker' = [breaker EXCEPT ![e] = LookedUp(@)]
        /\ Evict(k)
        /\ inflight' = [inflight EXCEPT ![k] = r]
        /\ at' = [at EXCEPT ![r] = "querying"]
        /\ search' = [search EXCEPT ![r] = s]
        /\ asking' = [asking EXCEPT ![r] = e]
        /\ Count({"requests_total"})
        /\ UNCHANGED <<now, owner, answer>>

\* Nobody is in flight for the key: the request owns its future and queries.
Lead(r, s, e) ==
    LET k == CacheKey(s)
    IN  /\ at[r] = "idle" /\ ~Fresh(k) /\ inflight[k] = None
        /\ MayAsk(s, e)
        /\ breaker' = [breaker EXCEPT ![e] = LookedUp(@)]
        /\ Evict(k)
        /\ inflight' = [inflight EXCEPT ![k] = r]
        /\ at' = [at EXCEPT ![r] = "querying"]
        /\ search' = [search EXCEPT ![r] = s]
        /\ asking' = [asking EXCEPT ![r] = e]
        /\ Count({"requests_total"})
        /\ UNCHANGED <<now, owner, answer>>

\* No circuit is closed: the request owns its future only within this step.
LeadNowhere(r, s) ==
    LET k == CacheKey(s)
    IN  /\ at[r] = "idle" /\ ~Fresh(k) /\ inflight[k] = None
        /\ \A e \in Engines : ~MayAsk(s, e)
        /\ Evict(k)
        /\ search' = [search EXCEPT ![r] = s]
        /\ Answer(r, Made("upstream_failed", s))
        /\ Count({"requests_total", "upstream_failed"})
        /\ UNCHANGED <<now, breaker, inflight, asking, owner>>

\* _set_cached_response
Store(k, a) ==
    cache' = IF TTL > 0
             THEN [cache EXCEPT ![k] = [expires |-> now + TTL, payload |-> a]]
             ELSE cache

\* The future is resolved (which Resume waits for) and released.
Release(r) == inflight' = [inflight EXCEPT ![CacheKey(search[r])] = None]

\* MUTANT: success is noted for the engine asked for, not the one that answered.
SucceedForPrimary(r) ==
    /\ at[r] = "querying"
    /\ breaker' = [breaker EXCEPT ![EngineOf(search[r])] = Closed]
    /\ \E status \in Found :
          LET a == Made(status, search[r])
          IN  /\ Store(CacheKey(search[r]), a)
              /\ Answer(r, a)
              /\ Count({status})
    /\ Release(r)
    /\ UNCHANGED <<now, search, asking, owner>>

\* The query returns: the circuit is closed and the result cached.
Succeed(r) ==
    /\ at[r] = "querying"
    /\ breaker' = [breaker EXCEPT ![asking[r]] = Closed]
    /\ \E status \in Found :
          LET a == Made(status, search[r])
          IN  /\ Store(CacheKey(search[r]), a)
              /\ Answer(r, a)
              /\ Count({status})
    /\ Release(r)
    /\ UNCHANGED <<now, search, asking, owner>>

\* The query of an engine fails and so does the next engine's turn:
\* there is none, it has been asked already, or its circuit is open.
LastAttempt(r) ==
    \/ asking[r] # EngineOf(search[r])
    \/ ~HasFallback(asking[r])
    \/ CircuitOpen(Fallback)

\* A timeout or an error: the fallback engine is queried.
FailOver(r) ==
    /\ at[r] = "querying" /\ ~LastAttempt(r)
    /\ breaker' = [e \in Engines |->
                     CASE e = asking[r] -> Failed(breaker[e])
                       [] e # asking[r] /\ e = Fallback -> LookedUp(breaker[e])
                       [] OTHER -> breaker[e]]
    /\ asking' = [asking EXCEPT ![r] = Fallback]
    /\ UNCHANGED <<now, cache, inflight, at, search, owner, answer, stats>>

\* MUTANT: failures are cached like results.
FailCached(r) ==
    /\ at[r] = "querying" /\ LastAttempt(r)
    /\ breaker' = [breaker EXCEPT ![asking[r]] = Failed(@)]
    /\ Answer(r, Made("upstream_failed", search[r]))
    /\ Store(CacheKey(search[r]), Made("upstream_failed", search[r]))
    /\ Count({"upstream_failed"})
    /\ Release(r)
    /\ UNCHANGED <<now, search, asking, owner>>

\* A timeout or an error of the last attempt: the failure is not cached.
Fail(r) ==
    /\ at[r] = "querying" /\ LastAttempt(r)
    /\ breaker' = [breaker EXCEPT ![asking[r]] = Failed(@)]
    /\ Answer(r, Made("upstream_failed", search[r]))
    /\ Count({"upstream_failed"})
    /\ Release(r)
    /\ UNCHANGED <<now, cache, search, asking, owner>>

\* MUTANT: a failed query leaves its future unresolved.
ResumeOnSuccess(r) ==
    /\ at[r] = "waiting"
    /\ at[owner[r]] = "answered" /\ answer[owner[r]].status \in Found
    /\ Answer(r, answer[owner[r]])
    /\ Count({Counted(answer[owner[r]].status)})
    /\ UNCHANGED <<now, cache, breaker, inflight, search, asking, owner>>

\* A waiter runs again once the future it waits for is resolved.
Resume(r) ==
    /\ at[r] = "waiting"
    /\ at[owner[r]] = "answered"
    /\ Answer(r, answer[owner[r]])
    /\ Count({Counted(answer[owner[r]].status)})
    /\ UNCHANGED <<now, cache, breaker, inflight, search, asking, owner>>

Tick ==
    /\ now < MaxTime
    /\ now' = now + 1
    /\ UNCHANGED <<cache, breaker, inflight, at, search, asking, owner, answer, stats>>

Next ==
    \/ \E r \in Requests :
          \/ Refuse(r)
          \/ \E s \in Searches :
                \/ HitCache(r, s)
                \/ Join(r, s)
                \/ \E e \in Engines : Lead(r, s, e)
                \/ LeadNowhere(r, s)
          \/ Succeed(r)
          \/ FailOver(r)
          \/ Fail(r)
          \/ Resume(r)
    \/ Tick

Spec == Init /\ [][Next]_vars

\* A query ends, by its answer or by the client's timeout, and the event loop
\* runs a waiter whose future is resolved.
FairSpec ==
    /\ Spec
    /\ \A r \in Requests :
          /\ WF_vars(Succeed(r) \/ FailOver(r) \/ Fail(r))
          /\ WF_vars(Resume(r))

-----------------------------------------------------------------------------
(* Properties.                                                             *)

\* Every variable keeps its type.
TypeOK ==
    /\ now \in Nat
    /\ cache \in [Keys -> [expires : Nat, payload : Answers \union {NoAnswer}]]
    /\ breaker \in [Engines -> [count : Nat, openUntil : Nat]]
    /\ inflight \in [Keys -> Requests \union {None}]
    /\ at \in [Requests -> {"idle", "querying", "waiting", "answered"}]
    /\ search \in [Requests -> Searches \union {None}]
    /\ asking \in [Requests -> Engines \union {None}]
    /\ owner \in [Requests -> Requests \union {None}]
    /\ answer \in [Requests -> Answers \union {NoAnswer}]
    /\ stats \in [Counters -> Nat]

\* The future of a key belongs to the one request that queries for it: equal
\* searches are never upstream twice, and no future stays behind unresolved.
SingleFlight ==
    /\ \A r \in Requests : at[r] = "querying" => search[r] # None /\ asking[r] # None
    /\ \A r \in Requests : at[r] = "querying" => inflight[CacheKey(search[r])] = r
    /\ \A k \in Keys : inflight[k] # None =>
          at[inflight[k]] = "querying" /\ CacheKey(search[inflight[k]]) = k

\* A waiter waits for a request that is still at work on the waiter's own
\* search or has been answered; it never waits for itself or another waiter.
WaiterHasOwner ==
    \A r \in Requests : at[r] = "waiting" =>
        /\ search[r] # None
        /\ owner[r] # None /\ search[owner[r]] # None
        /\ at[owner[r]] \in {"querying", "answered"}
        /\ CacheKey(search[owner[r]]) = CacheKey(search[r])

\* What the cache holds was fetched for a search with that key, TTL before it expires, and
\* is no failure.
CacheHonest ==
    \A k \in Keys : cache[k] # NoEntry =>
        /\ cache[k].payload.status \in Found
        /\ cache[k].payload.for \in Searches /\ CacheKey(cache[k].payload.for) = k
        /\ cache[k].expires = cache[k].payload.fetched + TTL
        /\ cache[k].payload.fetched <= now

\* A language is told from the query behind it when it holds no colon and is not
\* the dash that stands for none.
PlainLang(s) == Len(s.lang) <= 1 /\ s.lang # <<"-">>

\* Whether it was fetched, cached or shared, a request gets the results of a search
\* with its own key; of its own search, the same engine, limit, language and query,
\* when both languages can be told from the query (_cache_key).
OwnAnswer ==
    \A r \in Requests :
        at[r] = "answered" /\ search[r] # None =>
            LET theirs == answer[r].for IN
            /\ theirs \in Searches /\ CacheKey(theirs) = CacheKey(search[r])
            /\ PlainLang(search[r]) /\ PlainLang(theirs) => theirs = search[r]

\* Without that condition it does not hold: language "en:foo" with query "bar" and
\* language "en" with query "foo:bar" have one key.
OwnAnswerAlways ==
    \A r \in Requests :
        at[r] = "answered" /\ search[r] # None => answer[r].for = search[r]

\* A circuit is open (or waits to be cleared) exactly when the failures in a row
\* have reached the threshold, and never for longer than the cooldown.
BreakerConsistent ==
    \A e \in Engines :
        /\ breaker[e].openUntil # 0 <=> breaker[e].count >= Threshold
        /\ breaker[e].openUntil <= now + Cooldown

\* A request asks for nothing before it starts.
Unasked == \A r \in Requests : at[r] = "idle" => search[r] = None

SearchInv ==
    /\ TypeOK
    /\ Unasked
    /\ SingleFlight
    /\ WaiterHasOwner
    /\ CacheHonest
    /\ OwnAnswer
    /\ BreakerConsistent

\* At every moment the counters add up: every request is counted once when it
\* arrives, once by the status of its answer, and once more if it shared
\* another's query.
CountersAddUp ==
    LET Where(S) == {r \in Requests : at[r] \in S}
    IN  /\ stats["requests_total"] = Cardinality(Where({"querying", "waiting", "answered"}))
        /\ stats["ok"] + stats["empty"] + stats["upstream_failed"] + stats["bad_request"]
             = Cardinality(Where({"answered"}))
        /\ stats["ok"] = Cardinality({r \in Requests : answer[r].status = "ok"})
        /\ stats["coalesced_hits"] = Cardinality({r \in Requests : owner[r] # None})

\* The service's report says upstream failures can be told from empty results in
\* its statistics.  A waiter of a failed query is counted as empty.
FailuresCounted ==
    stats["upstream_failed"] = Cardinality({r \in Requests : answer[r].status = "upstream_failed"})

\* A circuit that is open closes early only because a query of that engine that
\* was under way succeeded: neither other engines nor other requests close it.
ClosedEarlyBySuccess ==
    [][\A e \in Engines :
          breaker[e].openUntil > now' /\ breaker'[e].openUntil < breaker[e].openUntil =>
              \E r \in Requests : at[r] = "querying" /\ asking[r] = e
                                  /\ answer'[r].status \in Found]_vars

\* Every search is answered, also when the query it shares fails.
Answered == \A r \in Requests : at[r] \in {"querying", "waiting"} ~> at[r] = "answered"
=============================================================================
