---------------------------- MODULE UsageStats ----------------------------
(***************************************************************************)
(* The numbers of the statistics page (api/routers/stats.py) over the rows *)
(* the chat leaves: messages, agent runs and their steps.  A query is an   *)
(* operator on the tables; an average is a pair of a sum and a count.      *)
(* SQLAlchemy puts a table a selected column names into FROM, beside the   *)
(* subquery given to select_from, and joins the two by nothing.            *)
(***************************************************************************)
EXTENDS Naturals, FiniteSets, Sequences, FiniteSetsExt

CONSTANTS
    Viewers, ViewerOf,  \* tenant and role of each user, and the bases it sees
    ThreadIds, ThreadOf,  \* tenant, user and base of each conversation
    Latencies,          \* latency_ms of an answer, 0 when it was not measured
    MaxMessages, MaxAgentRuns, MaxRetries, LastDay  \* bounds of the model

ASSUME UsageStatsAssumption ==
    /\ Latencies \subseteq Nat
    /\ {MaxMessages, MaxAgentRuns, MaxRetries, LastDay} \subseteq Nat

VARIABLES
    messages,  \* rows of messages, in the order they were written
    runs,      \* rows of agent_runs, each with the days of its retry steps
    today

statsVars == <<messages, runs, today>>

-----------------------------------------------------------------------------

InScope(u, c) ==
    /\ ThreadOf[c].tenant = ViewerOf[u].tenant
    /\ CASE ViewerOf[u].role = "admin"          -> TRUE
         [] ViewerOf[u].role = "training_admin" -> ThreadOf[c].base \in ViewerOf[u].bases
         [] OTHER                               -> ThreadOf[c].user = u

Messages(u) == {n \in DOMAIN messages : InScope(u, messages[n].thread)}

Queries(u) == {n \in Messages(u) : messages[n].role = "user"}

Average(S) == <<MapThenSumSet(LAMBDA n : messages[n].latency, S), Cardinality(S)>>

Measured(u) == {n \in Messages(u) : messages[n].role = "assistant" /\ messages[n].latency > 0}

\* The column is taken from messages itself; the scope is a table beside it, which
\* only decides whether there is a row at all.
AverageLatency(u) == IF Measured(u) = {} THEN <<0, 0>> ELSE Average(DOMAIN messages)

Trend(u, days) ==
    [d \in (today - days)..today |-> Cardinality({n \in Queries(u) : messages[n].day = d})]

RunsInScope(u, first) == {r \in DOMAIN runs : InScope(u, runs[r].thread) /\ runs[r].day >= first}

WithStatus(R, s) == {r \in R : runs[r].status = s}

Retried(R) == {r \in R : runs[r].retries # <<>>}

\* MUTANT: the retries are put on the day of the step.
RetryRunsByStep(R, d) == {r \in R : \E n \in DOMAIN runs[r].retries : runs[r].retries[n] = d}

RetryRuns(R, d) == {r \in Retried(R) : runs[r].day = d}

\* Days without a run have no row, so their retries would be dropped.
AgentTrend(u, first) ==
    LET R == RunsInScope(u, first) IN
    [d \in {runs[r].day : r \in R} |->
        [total |-> Cardinality({r \in R : runs[r].day = d}),
         completed |-> Cardinality({r \in WithStatus(R, "completed") : runs[r].day = d}),
         failed |-> Cardinality({r \in WithStatus(R, "failed") : runs[r].day = d}),
         retried |-> Cardinality(RetryRuns(R, d))]]

AgentMetrics(u, first) ==
    LET R == RunsInScope(u, first) IN
    [total |-> Cardinality(R), completed |-> Cardinality(WithStatus(R, "completed")),
     failed |-> Cardinality(WithStatus(R, "failed")), retried |-> Cardinality(Retried(R))]

-----------------------------------------------------------------------------

UsageStatsInit == messages = <<>> /\ runs = <<>> /\ today = 1

\* A request's two messages; the answer may be lost.
Converse(c) ==
    /\ Len(messages) < MaxMessages
    /\ \E ask \in {[thread |-> c, role |-> "user", latency |-> 0, day |-> today]} :
         \/ messages' = Append(messages, ask)
         \/ \E l \in Latencies :
              messages' = messages \o <<ask, [ask EXCEPT !.role = "assistant", !.latency = l]>>
    /\ UNCHANGED <<runs, today>>

StartRun(c) ==
    /\ Len(runs) < MaxAgentRuns
    /\ runs' = Append(runs, [thread |-> c, day |-> today, status |-> "running", retries |-> <<>>])
    /\ UNCHANGED <<messages, today>>

\* A follow-up step of kind retry, however it ends.
RecordRetry(r) ==
    /\ runs[r].status = "running" /\ Len(runs[r].retries) < MaxRetries
    /\ runs' = [runs EXCEPT ![r].retries = Append(@, today)]
    /\ UNCHANGED <<messages, today>>

EndRun(r, status) ==
    /\ runs[r].status = "running"
    /\ runs' = [runs EXCEPT ![r].status = status]
    /\ UNCHANGED <<messages, today>>

NextDay ==
    /\ today < LastDay
    /\ today' = today + 1
    /\ UNCHANGED <<messages, runs>>

UsageStatsNext ==
    \/ \E c \in ThreadIds : Converse(c) \/ StartRun(c)
    \/ \E r \in DOMAIN runs :
         \/ RecordRetry(r)
         \/ \E s \in {"completed", "failed"} : EndRun(r, s)
    \/ NextDay

UsageStatsSpec == UsageStatsInit /\ [][UsageStatsNext]_statsVars

-----------------------------------------------------------------------------

QueryTotal(trend) == MapThenSumSet(LAMBDA d : trend[d], DOMAIN trend)

Total(trend, field) == QueryTotal([d \in DOMAIN trend |-> trend[d][field]])

\* The trends add up to the numbers above them, also when a run is retried on another
\* day than it started or more than once.
TrendAddsUp ==
    \A u \in Viewers, first \in 1..LastDay :
     /\ LET trend == AgentTrend(u, first)
            metrics == AgentMetrics(u, first)
        IN  \A field \in {"total", "completed", "failed", "retried"} :
                Total(trend, field) = metrics[field]
     /\ QueryTotal(Trend(u, today - 1)) = Cardinality(Queries(u))

\* The average latency is that of the answers in the viewer's scope; false: it is that
\* of all messages of all tenants, the questions' zeros included.
AverageInScope ==
    \A u \in Viewers : AverageLatency(u) = Average(Measured(u))
=============================================================================
