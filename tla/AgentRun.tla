------------------------------ MODULE AgentRun ------------------------------
(***************************************************************************)
(* The agent run of one chat request (core/chat/chat_pipeline.py,          *)
(* handle_chat.generate_response): it is routed and planned, its main step *)
(* is executed, a follow-up step retries or finalizes it, and the run and  *)
(* its steps are written to the database on the way.                       *)
(*                                                                         *)
(* A run lives twice: in memory (AgentRunState) and as rows.  A write that *)
(* fails is rolled back and the request goes on; the rollback expires the  *)
(* ORM objects the request holds, and an expired object cannot be read     *)
(* again outside a database call.                                          *)
(***************************************************************************)
EXTENDS Integers, Sequences, FiniteSets

CONSTANTS
    Requests,     \* chat requests
    Permits,      \* chat_request_concurrency
    PlanLengths,  \* how many steps the routes' templates have
    MaxSteps,     \* AgentPolicy.max_steps
    MaxRetries,   \* AgentPolicy.max_retries
    None

ASSUME RunAssumption ==
    /\ Permits \in Nat \ {0}
    /\ PlanLengths \subseteq Nat \ {0}
    /\ MaxSteps \in Nat \ {0}
    /\ MaxRetries \in Nat \ {0}

VARIABLES
    permits,   \* CHAT_PIPELINE_SEMAPHORE
    pc,        \* where a request is
    abortedBy, \* what ended a request early
    history,   \* whether the conversation has earlier messages
    expired,   \* ORM objects of the request that are expired
    run,       \* AgentRunState
    main,      \* the main AgentStepState: its outcome
    attempt,   \* the attempt of the retry that runs, 0 outside a retry
    error,     \* retry_error of the last attempt
    output,    \* the attempts whose text is in retry_output
    ids,       \* AgentPersistenceIds: which keys the request believes in
    runRow,    \* the row in agent_runs
    stepRows,  \* the rows in agent_steps: of the main and the follow-up step
    reply,     \* whether the assistant message is saved
    lost       \* whether a write of the request was rolled back

memory == <<run, main, attempt, error, output>>
rows   == <<runRow, stepRows>>
vars   == <<permits, pc, abortedBy, history, expired, memory, ids, rows, reply, lost>>

locals == <<expired, memory, ids, lost>>

-----------------------------------------------------------------------------
(* Plans and steps.                                                        *)

Step(i)  == <<"step", i>>
Retry(i) == <<"retry", i>>
Fallback == <<"fallback", 1>>
Finalize == <<"finalize", 1>>
Done     == <<"done", 0>>

Smaller(a, b) == IF a < b THEN a ELSE b
Larger(a, b)  == IF a > b THEN a ELSE b

\* MUTANT: the template is not cut off.
PlanUncut(n) == [i \in 1 .. n |-> Step(i)]

\* build_initial_steps: a route's template, cut off at the budget.
Plan(n) == [i \in 1 .. Smaller(n, MaxSteps) |-> Step(i)]

StepIn(steps, id) == \E i \in DOMAIN steps : steps[i] = id

\* _locate_next_step for a current step
NextStep(steps, id) ==
    IF \E i \in DOMAIN steps : steps[i] = id /\ i < Len(steps)
    THEN steps[1 + CHOOSE i \in DOMAIN steps : steps[i] = id]
    ELSE None

\* start_step
Started(state, id) ==
    [state EXCEPT !.current = id, !.next = NextStep(state.steps, id)]

\* complete_step: the step of a plan leaves the run running.
Completed(state, id, status) ==
    LET counted == [state EXCEPT !.budget = Larger(0, @ - 1),
                                 !.history = Append(@, <<id, status>>)]
        next == NextStep(state.steps, state.current)
    IN  IF StepIn(state.steps, id)
        THEN [counted EXCEPT !.status = "running", !.next = None]
        ELSE IF status = "failed"
        THEN [counted EXCEPT !.status = "failed", !.next = Done]
        ELSE IF next # None
        THEN [counted EXCEPT !.status = "running", !.next = next]
        ELSE [counted EXCEPT !.status = "completed", !.next = Done]

\* decide_followup and build_followup_step
FollowUp(status, retries) ==
    IF status # "failed" THEN Finalize
    ELSE IF retries < MaxRetries THEN Retry(retries + 1)
    ELSE Fallback

\* MUTANT: retry_count is read before it is increased.
AttemptsUncounted(retries) == Larger(1, MaxRetries - (retries - 1) + 1)

\* remaining_attempts: counted after build_followup_step has counted this retry
Attempts(retries) == Larger(1, MaxRetries - retries + 1)

NewRun == [status |-> "running", steps |-> <<>>, current |-> None, next |-> None,
           history |-> <<>>, retries |-> 0, budget |-> MaxSteps]
NoStep == [status |-> "pending", kind |-> "none"]
NoIds  == [run |-> FALSE, step |-> FALSE]
NoRow  == [exists |-> FALSE, status |-> "none", history |-> <<>>, retries |-> 0]
NoStepRow == [key |-> None, status |-> "none", text |-> "none"]

Init ==
    /\ permits = Permits
    /\ pc = [r \in Requests |-> "idle"]
    /\ abortedBy = [r \in Requests |-> "nothing"]
    /\ history \in [Requests -> BOOLEAN]
    /\ expired = [r \in Requests |-> {}]
    /\ run = [r \in Requests |-> NewRun]
    /\ main = [r \in Requests |-> NoStep]
    /\ attempt = [r \in Requests |-> 0]
    /\ error = [r \in Requests |-> "none"]
    /\ output = [r \in Requests |-> {}]
    /\ ids = [r \in Requests |-> NoIds]
    /\ runRow = [r \in Requests |-> NoRow]
    /\ stepRows = [r \in Requests |-> [s \in {"main", "follow"} |-> NoStepRow]]
    /\ reply = [r \in Requests |-> FALSE]
    /\ lost = [r \in Requests |-> FALSE]

Goto(r, place) == pc' = [pc EXCEPT ![r] = place]

\* The generator ends: its objects are gone, and async with gives the permit back.
Forget(r) ==
    /\ expired' = [expired EXCEPT ![r] = {}]
    /\ run' = [run EXCEPT ![r] = NewRun]
    /\ main' = [main EXCEPT ![r] = NoStep]
    /\ attempt' = [attempt EXCEPT ![r] = 0]
    /\ error' = [error EXCEPT ![r] = "none"]
    /\ output' = [output EXCEPT ![r] = {}]
    /\ ids' = [ids EXCEPT ![r] = NoIds]
    /\ lost' = [lost EXCEPT ![r] = FALSE]

\* MUTANT: the permit is given back at the end of the stream only.
AbortKeepingPermit(r, cause) ==
    /\ Goto(r, "aborted") /\ Forget(r)
    /\ abortedBy' = [abortedBy EXCEPT ![r] = cause]
    /\ UNCHANGED permits

\* The generator ends early; async with gives the permit back.
Abort(r, cause) ==
    /\ Goto(r, "aborted") /\ Forget(r)
    /\ abortedBy' = [abortedBy EXCEPT ![r] = cause]
    /\ permits' = permits + 1

\* db.rollback expires everything the session has loaded.
RollBack(r) ==
    /\ expired' = [expired EXCEPT ![r] = {"conversation", "messages"}]
    /\ lost' = [lost EXCEPT ![r] = TRUE]
    /\ UNCHANGED rows

Commit == UNCHANGED <<expired, lost>>

\* Reading the history or the conversation fails when it is expired.
CannotReadMessages(r) == history[r] /\ "messages" \in expired[r]
CannotReadConversation(r) == "conversation" \in expired[r]

-----------------------------------------------------------------------------
(* The request.                                                            *)

\* The user message is saved and the stream is about to start.
Arrive(r) ==
    /\ pc[r] = "idle"
    /\ Goto(r, "queued")
    /\ UNCHANGED <<permits, abortedBy, history, expired, memory, ids, rows, reply, lost>>

Admit(r) ==
    /\ pc[r] = "queued" /\ permits > 0
    /\ permits' = permits - 1
    /\ Goto(r, "routing")
    /\ UNCHANGED <<abortedBy, history, expired, memory, ids, rows, reply, lost>>

\* start_run and start_step: a plan for the route, its first step started.
Route(r) ==
    /\ pc[r] = "routing"
    /\ \E n \in PlanLengths :
          run' = [run EXCEPT ![r] = Started([@ EXCEPT !.steps = Plan(n)], Step(1))]
    /\ Goto(r, "persistInitial")
    /\ UNCHANGED <<permits, abortedBy, history, expired, main, attempt, error, output,
                   ids, rows, reply, lost>>

\* persist_initial_agent_run: the keys are noted as soon as they are flushed,
\* also when a later flush or the commit fails.
PersistInitial(r) ==
    /\ pc[r] = "persistInitial"
    /\ \/ /\ ids' = [ids EXCEPT ![r] = [run |-> TRUE, step |-> TRUE]]
          /\ runRow' = [runRow EXCEPT ![r] =
                [exists |-> TRUE, status |-> run[r].status, history |-> run[r].history,
                 retries |-> run[r].retries]]
          /\ stepRows' = [stepRows EXCEPT ![r]["main"] =
                [key |-> run[r].current, status |-> "running", text |-> "none"]]
          /\ Commit
       \/ /\ \E flushed \in {NoIds, [run |-> TRUE, step |-> FALSE], [run |-> TRUE, step |-> TRUE]} :
                ids' = [ids EXCEPT ![r] = flushed]
          /\ RollBack(r)
    /\ Goto(r, "retrieve")
    /\ UNCHANGED <<permits, abortedBy, history, memory, reply>>

\* Retrieval, and the commit of the conversation's meta where it is due, which
\* loads an expired conversation again.
Retrieve(r) ==
    /\ pc[r] = "retrieve"
    /\ \E metaWritten \in BOOLEAN :
          expired' = [expired EXCEPT ![r] = IF metaWritten THEN @ \ {"conversation"} ELSE @]
    /\ Goto(r, "main")
    /\ UNCHANGED <<permits, abortedBy, history, memory, ids, rows, reply, lost>>

\* The answer, the artifact or the tool loop.  All read the history, the last two
\* the conversation's title; whatever is raised fails the step.
MainStep(r) ==
    /\ pc[r] = "main"
    /\ \E kind \in {"answer", "artifact", "tools"}, outcome \in {"success", "retryable", "fatal"} :
          LET unreadable == \/ CannotReadMessages(r)
                            \/ kind # "answer" /\ CannotReadConversation(r)
              status == IF outcome = "success" THEN "success" ELSE "failed"
          IN  /\ unreadable => outcome = "retryable"
              /\ main' = [main EXCEPT ![r] = [status |-> status, kind |-> outcome]]
              /\ run' = [run EXCEPT ![r] = Completed(@, Step(1), status)]
    /\ Goto(r, "persistStep")
    /\ UNCHANGED <<permits, abortedBy, history, expired, attempt, error, output, ids, rows,
                   reply, lost>>

\* MUTANT: retry_count is left out of the update.
WithRunUncounted(row, state, entries) ==
    IF row.exists THEN [row EXCEPT !.status = state.status, !.history = @ \o entries] ELSE row

\* What update_run and append_run_step_history make of a row that exists.
WithRun(row, state, entries) ==
    IF row.exists
    THEN [row EXCEPT !.status = state.status, !.retries = state.retries,
                     !.history = @ \o entries]
    ELSE row

LastEntry(r) == <<run[r].history[Len(run[r].history)]>>

\* MUTANT: the history entry is appended by both updates.
PersistStepTwice(r) ==
    /\ pc[r] = "persistStep"
    /\ \/ /\ ids[r].run /\ ids[r].step
          /\ \/ /\ stepRows' = [stepRows EXCEPT ![r]["main"] =
                      IF @ # NoStepRow THEN [@ EXCEPT !.status = main[r].status, !.text = "main"]
                      ELSE @]
                /\ runRow' = [runRow EXCEPT ![r] = WithRun(@, run[r], LastEntry(r) \o LastEntry(r))]
                /\ Commit
             \/ RollBack(r)
       \/ /\ ~(ids[r].run /\ ids[r].step)
          /\ UNCHANGED <<expired, lost, rows>>
    /\ Goto(r, "followUp")
    /\ UNCHANGED <<permits, abortedBy, history, memory, ids, reply>>

\* persist_agent_step_result
PersistStep(r) ==
    /\ pc[r] = "persistStep"
    /\ \/ /\ ids[r].run /\ ids[r].step
          /\ \/ /\ stepRows' = [stepRows EXCEPT ![r]["main"] =
                      IF @ # NoStepRow THEN [@ EXCEPT !.status = main[r].status, !.text = "main"]
                      ELSE @]
                /\ runRow' = [runRow EXCEPT ![r] = WithRun(@, run[r], LastEntry(r))]
                /\ Commit
             \/ RollBack(r)
       \/ /\ ~(ids[r].run /\ ids[r].step)
          /\ UNCHANGED <<expired, lost, rows>>
    /\ Goto(r, "followUp")
    /\ UNCHANGED <<permits, abortedBy, history, memory, ids, reply>>

\* stream_finalize_flow adds the follow-up step to the plan and starts it; all but
\* a retry are completed at once.
BeginFollowUp(r) ==
    LET state == run[r]
        id == FollowUp(main[r].status, state.retries)
        retries == IF id = Retry(state.retries + 1) THEN state.retries + 1 ELSE state.retries
        begun == Started([state EXCEPT !.steps = Append(@, id), !.retries = retries], id)
    IN  /\ pc[r] = "followUp" /\ ~CannotReadMessages(r)
        /\ IF retries > state.retries
           THEN /\ run' = [run EXCEPT ![r] = begun]
                /\ attempt' = [attempt EXCEPT ![r] = 1]
                /\ Goto(r, "retrying")
           ELSE /\ run' = [run EXCEPT ![r] = Completed(begun, id, "success")]
                /\ Goto(r, "persistFollowUp")
                /\ UNCHANGED attempt
        /\ UNCHANGED <<permits, abortedBy, history, expired, main, error, output, ids, rows,
                       reply, lost>>

\* One call of the model: its text, no text, or an error after none or some of it.
\* Text of an earlier attempt makes up for an attempt without text.  An exception
\* without a message ("silent") leaves no retry_error behind: the loop goes on, and
\* behind the last attempt the text decides.
TryAgain(r) ==
    \E wrote \in BOOLEAN, outcome \in {"none", "silent", "retryable", "fatal"} :
        LET text == IF wrote THEN output[r] \union {attempt[r]} ELSE output[r]
            fault == IF outcome \in {"retryable", "fatal"} THEN outcome
                     ELSE IF text = {} THEN "retryable" ELSE "none"
            again == /\ attempt[r] < Attempts(run[r].retries)
                     /\ outcome = "silent" \/ fault = "retryable"
            status == IF fault = "none" THEN "success" ELSE "failed"
        IN  /\ pc[r] = "retrying"
            /\ output' = [output EXCEPT ![r] = text]
            /\ error' = [error EXCEPT ![r] = fault]
            /\ IF again
               THEN /\ attempt' = [attempt EXCEPT ![r] = @ + 1]
                    /\ UNCHANGED <<pc, run>>
               ELSE /\ run' = [run EXCEPT ![r] = Completed(@, @.current, status)]
                    /\ Goto(r, "persistFollowUp")
                    /\ UNCHANGED attempt
            /\ UNCHANGED <<permits, abortedBy, history, expired, main, ids, rows, reply, lost>>

\* Only a retry that brought text without an error replaces the main step's output.
Retried(r) == attempt[r] > 0 /\ error[r] = "none"

\* persist_finalize_step: the new step row needs the row of its run.
PersistFollowUp(r) ==
    LET status == run[r].history[Len(run[r].history)][2]
    IN  /\ pc[r] = "persistFollowUp"
        /\ \/ /\ ids[r].run /\ runRow[r].exists
              /\ stepRows' = [stepRows EXCEPT ![r]["follow"] =
                    [key |-> run[r].current, status |-> status, text |-> "trace"]]
              /\ runRow' = [runRow EXCEPT ![r] = WithRun(@, run[r], LastEntry(r))]
              /\ Commit
           \/ ids[r].run /\ RollBack(r)
           \/ ~ids[r].run /\ UNCHANGED <<expired, lost, rows>>
        /\ Goto(r, IF Retried(r) THEN "updateMain" ELSE "complete")
        /\ UNCHANGED <<permits, abortedBy, history, memory, ids, reply>>

\* update_main_step_output
UpdateMain(r) ==
    /\ pc[r] = "updateMain"
    /\ \/ /\ ids[r].step
          /\ stepRows' = [stepRows EXCEPT ![r]["main"] =
                IF @ # NoStepRow THEN [@ EXCEPT !.text = "retried"] ELSE @]
          /\ Commit
          /\ UNCHANGED runRow
       \/ ids[r].step /\ RollBack(r)
       \/ ~ids[r].step /\ UNCHANGED <<expired, lost, rows>>
    /\ Goto(r, "complete")
    /\ UNCHANGED <<permits, abortedBy, history, memory, ids, reply>>

\* complete_chat_response saves the reply under the conversation's id; the
\* finished chunk is sent and the permit given back.
Complete(r) ==
    /\ pc[r] = "complete" /\ ~CannotReadConversation(r)
    /\ reply' = [reply EXCEPT ![r] = TRUE]
    /\ Goto(r, "done")
    /\ permits' = permits + 1
    /\ Forget(r)
    /\ UNCHANGED <<abortedBy, history, rows>>

\* Outside the main step, reading an expired object ends the stream.
ReadExpired(r) ==
    /\ \/ pc[r] = "followUp" /\ CannotReadMessages(r)
       \/ pc[r] = "complete" /\ CannotReadConversation(r)
    /\ Abort(r, "expired")
    /\ UNCHANGED <<history, rows, reply>>

Streaming(r) == pc[r] \notin {"idle", "queued", "done", "aborted"}

\* What nothing catches ends the stream as well: an error of the router or the
\* query for the knowledge bases, of the commit of the meta, of saving the reply.
Uncaught(r) ==
    /\ pc[r] \in {"routing", "retrieve", "complete"}
    /\ Abort(r, "error")
    /\ UNCHANGED <<history, rows, reply>>

\* The client goes away: the server cancels the generator where it waits, which
\* may be for a permit.
Disconnect(r) ==
    /\ \/ Streaming(r) /\ Abort(r, "disconnect")
       \/ /\ pc[r] = "queued" /\ Goto(r, "aborted")
          /\ abortedBy' = [abortedBy EXCEPT ![r] = "disconnect"]
          /\ UNCHANGED <<permits, locals>>
    /\ UNCHANGED <<history, rows, reply>>

Advance(r) ==
    \/ Admit(r)
    \/ Route(r)
    \/ PersistInitial(r)
    \/ Retrieve(r)
    \/ MainStep(r)
    \/ PersistStep(r)
    \/ BeginFollowUp(r)
    \/ TryAgain(r)
    \/ PersistFollowUp(r)
    \/ UpdateMain(r)
    \/ Complete(r)
    \/ ReadExpired(r)

Next == \E r \in Requests : Arrive(r) \/ Advance(r) \/ Uncaught(r) \/ Disconnect(r)

Spec == Init /\ [][Next]_vars

\* Database and model calls end (they have timeouts) and the event loop goes on
\* with a request that can; the semaphore's queue is first in, first out.
FairSpec == Spec /\ \A r \in Requests : WF_vars(Advance(r)) /\ SF_vars(Admit(r))

-----------------------------------------------------------------------------
(* Properties.                                                             *)

StepIds == {"step", "retry", "fallback", "finalize", "done"} \X Nat

RunStates == [status : {"running", "failed", "completed"}, steps : Seq(StepIds),
              current : StepIds \union {None}, next : StepIds \union {None},
              history : Seq(StepIds \X {"success", "failed"}),
              retries : Nat, budget : Nat]

\* Every variable keeps its type, and a plan its budget and one follow-up step.
TypeOK ==
    /\ permits \in Nat
    /\ pc \in [Requests -> {"idle", "queued", "routing", "persistInitial", "retrieve", "main",
                            "persistStep", "followUp", "retrying", "persistFollowUp",
                            "updateMain", "complete", "done", "aborted"}]
    /\ abortedBy \in [Requests -> {"nothing", "expired", "error", "disconnect"}]
    /\ history \in [Requests -> BOOLEAN]
    /\ expired \in [Requests -> SUBSET {"conversation", "messages"}]
    /\ run \in [Requests -> RunStates]
    /\ \A r \in Requests : Len(run[r].steps) <= MaxSteps + 1
    /\ main \in [Requests -> [status : {"pending", "success", "failed"},
                              kind : {"none", "success", "retryable", "fatal"}]]
    /\ attempt \in [Requests -> Nat]
    /\ error \in [Requests -> {"none", "retryable", "fatal"}]
    /\ output \in [Requests -> SUBSET Nat]
    /\ ids \in [Requests -> [run : BOOLEAN, step : BOOLEAN]]
    /\ reply \in [Requests -> BOOLEAN]
    /\ lost \in [Requests -> BOOLEAN]

\* A permit is taken by exactly the requests that are streaming: none is lost on
\* any of the ways out of the generator.
PermitsBalance == permits + Cardinality({r \in Requests : Streaming(r)}) = Permits

\* The history in the run's row is that of its step rows: a step is recorded once,
\* in order, with the status of its row, whichever writes were rolled back.
HistoryMatchesSteps ==
    \A r \in Requests :
        LET Ended(s) == stepRows[r][s].status \in {"success", "failed"}
            Entries(s) ==
                IF Ended(s) THEN <<<<stepRows[r][s].key, stepRows[r][s].status>>>> ELSE <<>>
        IN  runRow[r].exists => runRow[r].history = Entries("main") \o Entries("follow")

\* When the reply is about to be saved and no write was lost, the rows say what
\* happened: both steps, and the retry's text where it replaced the first.
DoneIsRecorded ==
    \A r \in Requests : pc[r] = "complete" /\ ~lost[r] =>
        /\ runRow[r].exists
        /\ runRow[r].history = run[r].history /\ Len(run[r].history) = 2
        /\ runRow[r].status = run[r].status /\ runRow[r].retries = run[r].retries
        /\ stepRows[r]["main"].text = IF Retried(r) THEN "retried" ELSE "main"

\* A request never calls the model again more often than the policy allows, and a
\* retry that succeeded has brought text.
RetriesBounded ==
    \A r \in Requests :
        /\ attempt[r] <= MaxRetries
        /\ pc[r] = "complete" /\ Retried(r) => output[r] # {}

\* A request that waits for a permit gets one, and every stream comes to an end.
StreamsEnd == \A r \in Requests : pc[r] = "queued" ~> pc[r] \in {"done", "aborted"}

-----------------------------------------------------------------------------
(* What comments and documents say and the code does not do.               *)

\* runner.py: after the main step the finalize step brings the final status.  It is
\* added to the plan before it is completed, so it counts as a step of the plan.
RunReachesEnd ==
    \A r \in Requests : pc[r] = "complete" => run[r].status \in {"completed", "failed"}

\* persistence.py: a write that fails is not fatal.  Its rollback is.
LostWriteNotFatal == \A r \in Requests : abortedBy[r] # "expired"

\* persist_initial_agent_run: when it fails it returns no keys.
NoKeysOnFailure == \A r \in Requests : ids[r].run => runRow[r].exists

\* domain/agent/policy.py: errors of authentication, permission, validation and
\* missing resources are not retried.
FatalNotRetried == \A r \in Requests : main[r].kind = "fatal" => attempt[r] = 0

\* The smoke tests: a retry does not repeat content.
RetryTextOnce == \A r \in Requests : Cardinality(output[r]) <= 1
=============================================================================
