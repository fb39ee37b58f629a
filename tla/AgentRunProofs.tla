--------------------------- MODULE AgentRunProofs ---------------------------
(***************************************************************************)
(* The agent run for any requests, permits, plans and policy: its types,   *)
(* PermitsBalance, HistoryMatchesSteps, DoneIsRecorded, RetriesBounded.    *)
(*                                                                         *)
(* The arguments go from the memory of a request to its rows.  Memory says *)
(* what a request knows at each place of its pipeline; Rows adds what has  *)
(* been written by then, whichever writes were lost; Recorded what that is *)
(* when none was.  Each is preserved by a step of the request on the       *)
(* strength of the ones before, and no step touches another request.       *)
(***************************************************************************)
EXTENDS AgentRun, SequenceTheorems, FiniteSetTheorems, TLAPS

Early  == {"idle", "queued", "routing"}
Over   == {"done", "aborted"}
Before == {"persistInitial", "retrieve", "main"}
Between == {"persistStep", "followUp"}
After  == {"persistFollowUp", "updateMain", "complete"}

Results == {"success", "failed"}

\* The request has nothing in memory.
Blank(r) ==
    /\ expired[r] = {} /\ run[r] = NewRun /\ main[r] = NoStep /\ attempt[r] = 0
    /\ error[r] = "none" /\ output[r] = {} /\ ids[r] = NoIds /\ lost[r] = FALSE

\* A template cut off at the budget: its steps differ from one another.
PlanMade(steps) ==
    /\ steps \in Seq(StepIds) /\ Len(steps) \in 1..MaxSteps
    /\ \A i \in DOMAIN steps : steps[i] = Step(i)

MainEntry(r) == <<Step(1), main[r].status>>

\* What the request knows of its run: one entry of the history per completed step,
\* one retry at most, and a plan that holds the step that runs.
Memory(r) ==
    /\ pc[r] \in Early \union Over => Blank(r)
    /\ pc[r] \notin Early \union Over => run[r].status = "running" /\ attempt[r] <= MaxRetries
    /\ pc[r] \in Before \union Between =>
          /\ PlanMade(run[r].steps) /\ run[r].current = Step(1)
          /\ run[r].retries = 0 /\ attempt[r] = 0
    /\ pc[r] \in Before => run[r].history = <<>>
    /\ pc[r] \in Between \union {"retrying"} \union After => main[r].status \in Results
    /\ pc[r] \in Between \union {"retrying"} => run[r].history = <<MainEntry(r)>>
    /\ pc[r] = "retrying" =>
          StepIn(run[r].steps, run[r].current) /\ run[r].retries = 1 /\ attempt[r] >= 1
    /\ pc[r] \in After =>
          /\ \E status \in Results : run[r].history = <<MainEntry(r), <<run[r].current, status>>>>
          /\ Retried(r) => output[r] # {}
    /\ pc[r] = "updateMain" => Retried(r)

MemoryInv == TypeOK /\ \A r \in Requests : Memory(r)

RowStates ==
    [exists : BOOLEAN, status : {"none", "running", "failed", "completed"},
     history : Seq(StepIds \X Results), retries : Nat]

StepRowStates ==
    [key : StepIds \union {None}, status : {"none", "running", "success", "failed"},
     text : {"none", "main", "trace", "retried"}]

RowTypes ==
    /\ runRow \in [Requests -> RowStates]
    /\ stepRows \in [Requests -> [{"main", "follow"} -> StepRowStates]]

Recording(step) == IF step.status \in Results THEN <<<<step.key, step.status>>>> ELSE <<>>

\* The row of the run and the one of the main step are written together, and a step's
\* entry in the history together with the end of its row.
Rows(r) ==
    /\ pc[r] \in Early \union {"persistInitial"} => ~runRow[r].exists
    /\ ~runRow[r].exists => stepRows[r]["main"] = NoStepRow /\ stepRows[r]["follow"] = NoStepRow
    /\ runRow[r].exists => stepRows[r]["main"].key = Step(1) /\ stepRows[r]["main"].status # "none"
    /\ pc[r] \in Before \union {"persistStep"} => stepRows[r]["main"].status \notin Results
    /\ pc[r] \in Before \union Between \union {"retrying", "persistFollowUp"} =>
          stepRows[r]["follow"] = NoStepRow
    /\ runRow[r].exists =>
          runRow[r].history = Recording(stepRows[r]["main"]) \o Recording(stepRows[r]["follow"])

RowsInv == RowTypes /\ \A r \in Requests : Rows(r)

\* What is in the database of a request that has lost no write.
Recorded(r) ==
    /\ pc[r] \in Early \union {"persistInitial"} => ~lost[r]
    /\ ~lost[r] /\ pc[r] \notin Early \union Over \union {"persistInitial"} =>
          ids[r].run /\ ids[r].step /\ runRow[r].exists
    /\ ~lost[r] /\ pc[r] \in {"followUp", "retrying", "persistFollowUp"} =>
          runRow[r].history = <<MainEntry(r)>>
    /\ ~lost[r] /\ pc[r] \in {"followUp", "retrying", "persistFollowUp", "updateMain"} =>
          stepRows[r]["main"].text = "main"
    /\ ~lost[r] /\ pc[r] \in {"updateMain", "complete"} =>
          /\ runRow[r].history = run[r].history
          /\ runRow[r].status = run[r].status /\ runRow[r].retries = run[r].retries
    /\ ~lost[r] /\ pc[r] = "complete" =>
          stepRows[r]["main"].text = IF Retried(r) THEN "retried" ELSE "main"

RecordedInv == \A r \in Requests : Recorded(r)

-----------------------------------------------------------------------------
(* Plans and steps.                                                        *)

\* Plan: at least one step, at most as many as the budget.
LEMMA PlanIsMade == ASSUME NEW n \in PlanLengths PROVE PlanMade(Plan(n))
<1> DEFINE k == Smaller(n, MaxSteps)
<1>1. n \in Nat \ {0} /\ MaxSteps \in Nat \ {0}
  BY RunAssumption
<1>2. k \in 1..MaxSteps /\ k \in Nat
  BY <1>1 DEF Smaller
<1>3. \A i \in 1..k : Step(i) \in StepIds
  <2>1. \A i \in Nat : Step(i) \in StepIds
    BY DEF Step, StepIds
  <2> QED
    BY <1>2, <2>1
<1>4. Plan(n) = [i \in 1..k |-> Step(i)]
  BY DEF Plan
<1> HIDE DEF k
<1>5. Plan(n) \in Seq(StepIds) /\ Len(Plan(n)) = k /\ DOMAIN Plan(n) = 1..k
  BY <1>2, <1>3, <1>4
<1> QED
  BY <1>2, <1>4, <1>5 DEF PlanMade

\* The second entry of a history.
LEMMA AppendTwo == ASSUME NEW a, NEW b PROVE Append(<<a>>, b) = <<a, b>>
<1> DEFINE S == {a, b}
<1>1. a \in S /\ b \in S
  OBVIOUS
<1> HIDE DEF S
<1>2. <<a>> \in Seq(S) /\ <<a, b>> \in Seq(S) /\ Len(<<a>>) = 1 /\ <<a>>[1] = a
  BY <1>1
<1>3. Append(<<a>>, b) \in Seq(S) /\ Len(Append(<<a>>, b)) = 2 /\ Append(<<a>>, b)[1] = a /\ Append(<<a>>, b)[2] = b
  BY <1>1, <1>2, AppendProperties
<1> DEFINE s == Append(<<a>>, b)
           t == <<a, b>>
<1>4. Len(t) = 2 /\ t[1] = a /\ t[2] = b
  OBVIOUS
<1>5. s \in Seq(S) /\ t \in Seq(S) /\ Len(s) = Len(t)
  BY <1>2, <1>3, <1>4
<1>6. \A i \in 1..Len(s) : i = 1 \/ i = 2
  BY <1>3
<1>7. \A i \in 1..Len(s) : s[i] = t[i]
  BY <1>3, <1>4, <1>6
<1> HIDE DEF s, t
<1>8. s = t
  BY <1>5, <1>7, SeqEqual
<1> QED
  BY <1>8 DEF s, t

\* start_step: a step of the plan has its successor there, the last one has none.
LEMMA StartedIs ==
    ASSUME NEW state \in RunStates, NEW id \in StepIds, NextStep(state.steps, id) \in StepIds \union {None}
    PROVE  /\ Started(state, id) \in RunStates /\ Started(state, id).current = id
           /\ Started(state, id).steps = state.steps /\ Started(state, id).history = state.history
           /\ Started(state, id).retries = state.retries /\ Started(state, id).status = state.status
BY DEF Started, RunStates, StepIds

\* The first step of a plan, and the one that was added to it last, have their place.
LEMMA NextIs ==
    ASSUME NEW steps, PlanMade(steps)
    PROVE  /\ NextStep(steps, Step(1)) \in StepIds \union {None}
           /\ \A id \in StepIds : (\A i \in Nat : id # Step(i)) =>
                /\ NextStep(Append(steps, id), id) = None
                /\ StepIn(Append(steps, id), id)
                /\ Append(steps, id) \in Seq(StepIds) /\ Len(Append(steps, id)) <= MaxSteps + 1
<1>1. steps \in Seq(StepIds) /\ Len(steps) \in 1..MaxSteps /\ Len(steps) \in Nat /\ MaxSteps \in Nat
      /\ DOMAIN steps = 1..Len(steps) /\ \A i \in DOMAIN steps : steps[i] = Step(i)
  BY RunAssumption DEF PlanMade
<1>2. NextStep(steps, Step(1)) \in StepIds \union {None}
  <2>1. CASE \E i \in DOMAIN steps : steps[i] = Step(1) /\ i < Len(steps)
    <3> DEFINE c == CHOOSE i \in DOMAIN steps : steps[i] = Step(1)
    <3>1. \A i \in DOMAIN steps : steps[i] = Step(1) <=> i = 1
      BY <1>1 DEF Step
    <3>2. c = 1 /\ 1 < Len(steps)
      BY <1>1, <2>1, <3>1
    <3>3. NextStep(steps, Step(1)) = steps[1 + c]
      BY <2>1 DEF NextStep
    <3>4. 2 \in DOMAIN steps
      BY <1>1, <3>2
    <3> HIDE DEF c
    <3> QED
      BY <1>1, <3>2, <3>3, <3>4
  <2>2. CASE ~\E i \in DOMAIN steps : steps[i] = Step(1) /\ i < Len(steps)
    BY <2>2 DEF NextStep
  <2> QED
    BY <2>1, <2>2
<1>3. ASSUME NEW id \in StepIds, \A i \in Nat : id # Step(i)
      PROVE  /\ NextStep(Append(steps, id), id) = None
             /\ StepIn(Append(steps, id), id)
             /\ Append(steps, id) \in Seq(StepIds) /\ Len(Append(steps, id)) <= MaxSteps + 1
  <2> DEFINE all == Append(steps, id)
  <2>1. all \in Seq(StepIds) /\ Len(all) = Len(steps) + 1 /\ all[Len(steps) + 1] = id
        /\ \A i \in 1..Len(steps) : all[i] = steps[i]
    BY <1>1
  <2>2. DOMAIN all = 1..(Len(steps) + 1)
    BY <1>1, <2>1
  <2> HIDE DEF all
  <2>3. \A i \in DOMAIN all : all[i] = id => i = Len(steps) + 1
    BY <1>1, <1>3, <2>1, <2>2
  <2>4. ~\E i \in DOMAIN all : all[i] = id /\ i < Len(all)
    BY <1>1, <2>1, <2>3
  <2>5. NextStep(all, id) = None
    BY <2>4 DEF NextStep
  <2>6. StepIn(all, id)
    BY <1>1, <2>1, <2>2 DEF StepIn
  <2>7. Len(all) <= MaxSteps + 1
    BY <1>1, <2>1
  <2> QED
    BY <2>1, <2>5, <2>6, <2>7 DEF all
<1> QED
  BY <1>2, <1>3

\* complete_step of a step that is in the plan: the run goes on, with an entry more.
LEMMA CompletedIs ==
    ASSUME NEW state \in RunStates, NEW id \in StepIds, NEW status \in Results, StepIn(state.steps, id)
    PROVE  /\ Completed(state, id, status) \in RunStates
           /\ Completed(state, id, status).status = "running"
           /\ Completed(state, id, status).current = state.current
           /\ Completed(state, id, status).steps = state.steps
           /\ Completed(state, id, status).retries = state.retries
           /\ Completed(state, id, status).history = Append(state.history, <<id, status>>)
<1> DEFINE left == Larger(0, state.budget - 1)
           told == Append(state.history, <<id, status>>)
           done == [state EXCEPT !.budget = left, !.history = told, !.status = "running", !.next = None]
<1>1. left \in Nat
  BY DEF Larger, RunStates
<1>2. told \in Seq(StepIds \X Results)
  BY DEF RunStates, StepIds, Results
<1>3. Completed(state, id, status) = done
  BY DEF Completed
<1> HIDE DEF left, told
<1>4. /\ done \in RunStates /\ done.status = "running" /\ done.current = state.current
      /\ done.steps = state.steps /\ done.retries = state.retries /\ done.history = told
  BY <1>1, <1>2 DEF RunStates, Results
<1> QED
  BY <1>3, <1>4 DEF told

-----------------------------------------------------------------------------
(* The memory of a request.                                                *)

\* No other request is touched.
Others(r) ==
    \A q \in Requests \ {r} :
        /\ pc'[q] = pc[q] /\ expired'[q] = expired[q] /\ run'[q] = run[q] /\ main'[q] = main[q]
        /\ attempt'[q] = attempt[q] /\ error'[q] = error[q] /\ output'[q] = output[q]
        /\ ids'[q] = ids[q] /\ lost'[q] = lost[q]

\* A step that leaves the others alone and its own memory in order keeps all in order.
LEMMA OneMemory ==
    ASSUME MemoryInv, NEW r \in Requests, Others(r), TypeOK', Memory(r)'
    PROVE  MemoryInv'
<1>1. ASSUME NEW q \in Requests \ {r} PROVE Memory(q)'
  <2>1. Memory(q)
    BY DEF MemoryInv
  <2> QED
    BY <2>1 DEF Others, Memory, Blank, MainEntry, Retried
<1> QED
  BY <1>1 DEF MemoryInv

\* A generator that ends forgets.
LEMMA ForgetKeeps ==
    ASSUME MemoryInv, NEW r \in Requests, NEW place \in Over, Goto(r, place), Forget(r),
           permits' \in Nat, abortedBy' \in [Requests -> {"nothing", "expired", "error", "disconnect"}],
           history' = history, reply' \in [Requests -> BOOLEAN]
    PROVE  MemoryInv'
<1>1. TypeOK
  BY DEF MemoryInv
<1>2. /\ NewRun \in RunStates /\ Len(NewRun.steps) <= MaxSteps + 1
      /\ NoStep \in [status : {"pending", "success", "failed"}, kind : {"none", "success", "retryable", "fatal"}]
      /\ NoIds \in [run : BOOLEAN, step : BOOLEAN]
  BY RunAssumption, EmptySeq DEF NewRun, NoStep, NoIds, RunStates
<1>3. TypeOK'
  BY <1>1, <1>2 DEF TypeOK, Goto, Forget, Over
<1>4. Others(r)
  BY <1>1 DEF TypeOK, Others, Goto, Forget
<1>5. pc'[r] = place /\ Blank(r)'
  BY <1>1 DEF TypeOK, Goto, Forget, Blank
<1>6. Memory(r)'
  BY <1>5 DEF Memory, Over, Early, Before, Between, After
<1> QED
  BY <1>3, <1>4, <1>6, OneMemory

\* A request arrives with nothing in memory.
LEMMA ArriveMemory == ASSUME MemoryInv, NEW r \in Requests, Arrive(r) PROVE MemoryInv'
<1>1. TypeOK /\ Memory(r)
  BY DEF MemoryInv
<1>2. TypeOK'
  BY <1>1 DEF TypeOK, Arrive, Goto, memory
<1>3. Others(r)
  BY <1>1 DEF TypeOK, Others, Arrive, Goto, memory
<1>4. Memory(r)'
  BY <1>1 DEF TypeOK, Arrive, Goto, memory, Memory, Blank, MainEntry, Retried,
              Early, Over, Before, Between, After
<1> QED
  BY <1>2, <1>3, <1>4, OneMemory

\* It is admitted so, too.
LEMMA AdmitMemory == ASSUME MemoryInv, NEW r \in Requests, Admit(r) PROVE MemoryInv'
<1>1. TypeOK /\ Memory(r)
  BY DEF MemoryInv
<1>2. TypeOK'
  BY <1>1 DEF TypeOK, Admit, Goto, memory
<1>3. Others(r)
  BY <1>1 DEF TypeOK, Others, Admit, Goto, memory
<1>4. Memory(r)'
  BY <1>1 DEF TypeOK, Admit, Goto, memory, Memory, Blank, MainEntry, Retried,
              Early, Over, Before, Between, After
<1> QED
  BY <1>2, <1>3, <1>4, OneMemory

\* What a write to the database may do to the memory of its request.
Writes(r, place) ==
    /\ pc' = [pc EXCEPT ![r] = place]
    /\ expired' \in {expired, [expired EXCEPT ![r] = {"conversation", "messages"}]}
    /\ lost' \in {lost, [lost EXCEPT ![r] = TRUE]}
    /\ UNCHANGED <<permits, abortedBy, history, run, main, attempt, error, output, reply>>
    /\ \E flushed \in [run : BOOLEAN, step : BOOLEAN] : ids' = [ids EXCEPT ![r] = flushed]

\* Such a write leaves the run as it is.
LEMMA WriteKeeps ==
    ASSUME MemoryInv, NEW r \in Requests, NEW place, Writes(r, place),
           \/ pc[r] = "persistInitial" /\ place = "retrieve"
           \/ pc[r] = "persistStep" /\ place = "followUp"
           \/ pc[r] = "persistFollowUp" /\ place = IF Retried(r) THEN "updateMain" ELSE "complete"
           \/ pc[r] = "updateMain" /\ place = "complete"
    PROVE  MemoryInv'
<1>1. TypeOK /\ Memory(r)
  BY DEF MemoryInv
<1>2. place \in {"retrieve", "followUp", "updateMain", "complete"}
  OBVIOUS
<1>3. PICK e \in SUBSET {"conversation", "messages"}, l \in BOOLEAN, i \in [run : BOOLEAN, step : BOOLEAN] :
        /\ expired' = [expired EXCEPT ![r] = e]
        /\ lost' = [lost EXCEPT ![r] = l]
        /\ ids' = [ids EXCEPT ![r] = i]
  <2>1. PICK i \in [run : BOOLEAN, step : BOOLEAN] : ids' = [ids EXCEPT ![r] = i]
    BY DEF Writes
  <2>2. expired = [expired EXCEPT ![r] = expired[r]] /\ expired[r] \in SUBSET {"conversation", "messages"}
    BY <1>1 DEF TypeOK
  <2>3. lost = [lost EXCEPT ![r] = lost[r]] /\ lost[r] \in BOOLEAN
    BY <1>1 DEF TypeOK
  <2>4. \E e \in SUBSET {"conversation", "messages"} : expired' = [expired EXCEPT ![r] = e]
    BY <2>2 DEF Writes
  <2>5. \E l \in BOOLEAN : lost' = [lost EXCEPT ![r] = l]
    BY <2>3 DEF Writes
  <2> QED
    BY <2>1, <2>4, <2>5
<1>4. TypeOK'
  BY <1>1, <1>2, <1>3 DEF TypeOK, Writes
<1>5. Others(r)
  BY <1>1, <1>3 DEF TypeOK, Others, Writes
<1>6. pc'[r] = place
  BY <1>1 DEF TypeOK, Writes
<1>7. Memory(r)'
  BY <1>1, <1>6 DEF Writes, Memory, Blank, MainEntry, Retried, Early, Over, Before, Between, After
<1> QED
  BY <1>4, <1>5, <1>7, OneMemory

\* The first write notes keys, also of rows that were rolled back.
LEMMA PersistInitialMemory == ASSUME MemoryInv, NEW r \in Requests, PersistInitial(r) PROVE MemoryInv'
<1>1. TypeOK
  BY DEF MemoryInv
<1>2. \E flushed \in [run : BOOLEAN, step : BOOLEAN] : ids' = [ids EXCEPT ![r] = flushed]
  BY DEF PersistInitial, NoIds
<1>3. Writes(r, "retrieve") /\ pc[r] = "persistInitial"
  BY <1>2 DEF PersistInitial, Goto, RollBack, Commit, memory, Writes
<1> QED
  BY <1>3, WriteKeeps

\* The retrieval may load the conversation again.
LEMMA RetrieveMemory == ASSUME MemoryInv, NEW r \in Requests, Retrieve(r) PROVE MemoryInv'
<1>1. TypeOK /\ Memory(r)
  BY DEF MemoryInv
<1>2. TypeOK'
  BY <1>1 DEF TypeOK, Retrieve, Goto, memory
<1>3. Others(r)
  BY <1>1 DEF TypeOK, Others, Retrieve, Goto, memory
<1>4. Memory(r)'
  BY <1>1 DEF TypeOK, Retrieve, Goto, memory, Memory, Blank, MainEntry, Retried,
              Early, Over, Before, Between, After
<1> QED
  BY <1>2, <1>3, <1>4, OneMemory

\* The write of the main step, of the follow-up step and of the retried output.
LEMMA PersistMemory ==
    ASSUME MemoryInv, NEW r \in Requests, PersistStep(r) \/ PersistFollowUp(r) \/ UpdateMain(r)
    PROVE  MemoryInv'
<1>1. TypeOK
  BY DEF MemoryInv
<1>2. ids' = ids /\ ids[r] \in [run : BOOLEAN, step : BOOLEAN] /\ ids = [ids EXCEPT ![r] = ids[r]]
  BY <1>1 DEF TypeOK, PersistStep, PersistFollowUp, UpdateMain
<1>3. \E flushed \in [run : BOOLEAN, step : BOOLEAN] : ids' = [ids EXCEPT ![r] = flushed]
  BY <1>2
<1>4. ASSUME PersistStep(r) PROVE Writes(r, "followUp") /\ pc[r] = "persistStep"
  BY <1>3, <1>4 DEF PersistStep, Goto, RollBack, Commit, memory, Writes
<1>5. ASSUME PersistFollowUp(r)
      PROVE Writes(r, IF Retried(r) THEN "updateMain" ELSE "complete") /\ pc[r] = "persistFollowUp"
  BY <1>3, <1>5 DEF PersistFollowUp, Goto, RollBack, Commit, memory, Writes
<1>6. ASSUME UpdateMain(r) PROVE Writes(r, "complete") /\ pc[r] = "updateMain"
  BY <1>3, <1>6 DEF UpdateMain, Goto, RollBack, Commit, memory, Writes
<1> QED
  BY <1>4, <1>5, <1>6, WriteKeeps

\* The route's plan, its first step started.
LEMMA RouteMemory == ASSUME MemoryInv, NEW r \in Requests, Route(r) PROVE MemoryInv'
<1>1. TypeOK /\ Memory(r) /\ Blank(r)
  BY DEF MemoryInv, Memory, Route, Early
<1>2. PICK n \in PlanLengths : run' = [run EXCEPT ![r] = Started([@ EXCEPT !.steps = Plan(n)], Step(1))]
  BY DEF Route
<1> DEFINE state == [NewRun EXCEPT !.steps = Plan(n)]
           made == Started(state, Step(1))
<1>3. run' = [run EXCEPT ![r] = made]
  BY <1>1, <1>2 DEF TypeOK, Blank
<1>4. PlanMade(Plan(n)) /\ Step(1) \in StepIds
  BY PlanIsMade DEF Step, StepIds
<1>5. /\ state \in RunStates /\ state.steps = Plan(n) /\ state.history = <<>> /\ state.retries = 0
      /\ state.status = "running"
  BY <1>4, RunAssumption, EmptySeq DEF NewRun, RunStates, PlanMade
<1> HIDE DEF state
<1>6. /\ made \in RunStates /\ made.current = Step(1) /\ made.steps = Plan(n) /\ made.history = <<>>
      /\ made.retries = 0 /\ made.status = "running"
  BY <1>4, <1>5, NextIs, StartedIs
<1> HIDE DEF made
<1>7. Len(made.steps) <= MaxSteps + 1
  BY <1>4, <1>6, RunAssumption DEF PlanMade
<1>8. pc' = [pc EXCEPT ![r] = "persistInitial"]
      /\ UNCHANGED <<permits, abortedBy, history, expired, main, attempt, error, output, ids, reply, lost>>
  BY DEF Route, Goto
<1>9. TypeOK'
  BY <1>1, <1>3, <1>6, <1>7, <1>8 DEF TypeOK
<1>10. Others(r)
  BY <1>1, <1>3, <1>8 DEF TypeOK, Others
<1>11. pc'[r] = "persistInitial" /\ run'[r] = made /\ attempt'[r] = 0
  BY <1>1, <1>3, <1>8 DEF TypeOK, Blank
<1>12. Memory(r)'
  BY <1>4, <1>6, <1>11, RunAssumption DEF Memory, Early, Over, Before, Between, After
<1> QED
  BY <1>9, <1>10, <1>12, OneMemory

\* The main step is completed with its outcome.
LEMMA MainStepMemory == ASSUME MemoryInv, NEW r \in Requests, MainStep(r) PROVE MemoryInv'
<1>1. TypeOK /\ Memory(r) /\ pc[r] = "main" /\ run[r] \in RunStates
  BY DEF MemoryInv, MainStep, TypeOK
<1>2. PICK outcome \in {"success", "retryable", "fatal"}, status \in Results :
        /\ main' = [main EXCEPT ![r] = [status |-> status, kind |-> outcome]]
        /\ run' = [run EXCEPT ![r] = Completed(run[r], Step(1), status)]
  <2>1. PICK kind \in {"answer", "artifact", "tools"}, outcome \in {"success", "retryable", "fatal"} :
          LET status == IF outcome = "success" THEN "success" ELSE "failed"
          IN /\ main' = [main EXCEPT ![r] = [status |-> status, kind |-> outcome]]
             /\ run' = [run EXCEPT ![r] = Completed(@, Step(1), status)]
    BY DEF MainStep
  <2> DEFINE status == IF outcome = "success" THEN "success" ELSE "failed"
  <2>2. status \in Results
    BY DEF Results
  <2>3. [run EXCEPT ![r] = Completed(@, Step(1), status)] = [run EXCEPT ![r] = Completed(run[r], Step(1), status)]
    BY <1>1 DEF TypeOK
  <2> QED
    BY <2>1, <2>2, <2>3
<1> DEFINE done == Completed(run[r], Step(1), status)
           told == [status |-> status, kind |-> outcome]
<1>3. PlanMade(run[r].steps) /\ run[r].current = Step(1) /\ run[r].retries = 0 /\ attempt[r] = 0
      /\ run[r].history = <<>>
  BY <1>1 DEF Memory, Before, Between
<1>4. StepIn(run[r].steps, Step(1)) /\ Step(1) \in StepIds
  <2>1. 1 \in DOMAIN run[r].steps /\ run[r].steps[1] = Step(1)
    BY <1>3, RunAssumption DEF PlanMade
  <2>2. Step(1) \in StepIds
    BY DEF Step, StepIds
  <2> QED
    BY <2>1, <2>2 DEF StepIn
<1>5. /\ done \in RunStates /\ done.status = "running" /\ done.current = Step(1)
      /\ done.steps = run[r].steps /\ done.retries = 0
      /\ done.history = Append(run[r].history, <<Step(1), status>>)
  BY <1>1, <1>3, <1>4, CompletedIs
<1>6. done.history = <<<<Step(1), status>>>>
  BY <1>3, <1>5
<1>7. told \in [status : {"pending", "success", "failed"}, kind : {"none", "success", "retryable", "fatal"}]
      /\ told.status = status
  BY DEF Results
<1> HIDE DEF done, told
<1>8. pc' = [pc EXCEPT ![r] = "persistStep"] /\ run' = [run EXCEPT ![r] = done]
      /\ main' = [main EXCEPT ![r] = told]
      /\ UNCHANGED <<permits, abortedBy, history, expired, attempt, error, output, ids, reply, lost>>
  BY <1>2 DEF MainStep, Goto, done, told
<1>9. TypeOK'
  BY <1>1, <1>5, <1>7, <1>8 DEF TypeOK
<1>10. Others(r)
  BY <1>1, <1>8 DEF TypeOK, Others
<1>11. pc'[r] = "persistStep" /\ run'[r] = done /\ main'[r] = told /\ attempt'[r] = 0
  BY <1>1, <1>3, <1>8 DEF TypeOK
<1>12. Memory(r)'
  BY <1>3, <1>5, <1>6, <1>7, <1>11, RunAssumption
  DEF Memory, MainEntry, Early, Over, Before, Between, After
<1> QED
  BY <1>9, <1>10, <1>12, OneMemory

\* The follow-up step is the last of the plan; it is a retry, the first one, or complete
\* at once.
LEMMA BeginFollowUpMemory == ASSUME MemoryInv, NEW r \in Requests, BeginFollowUp(r) PROVE MemoryInv'
<1> DEFINE state == run[r]
           id == FollowUp(main[r].status, state.retries)
           retries == IF id = Retry(state.retries + 1) THEN state.retries + 1 ELSE state.retries
           added == [state EXCEPT !.steps = Append(@, id), !.retries = retries]
           begun == Started(added, id)
           done == Completed(begun, id, "success")
<1>1. TypeOK /\ Memory(r) /\ pc[r] = "followUp" /\ state \in RunStates
  BY DEF MemoryInv, BeginFollowUp, TypeOK
<1>2. PlanMade(state.steps) /\ state.retries = 0 /\ attempt[r] = 0 /\ main[r].status \in Results
      /\ state.history = <<MainEntry(r)>> /\ state.status = "running"
  BY <1>1 DEF Memory, Between, Early, Over
<1>3. \/ main[r].status = "failed" /\ id = Retry(1) /\ retries = 1
      \/ main[r].status # "failed" /\ id = Finalize /\ retries = 0
  BY <1>2, RunAssumption DEF FollowUp, Retry, Finalize
<1>4. id \in StepIds /\ \A i \in Nat : id # Step(i)
  BY <1>3 DEF StepIds, Retry, Finalize, Step
<1> DEFINE all == Append(state.steps, id)
<1>5. /\ NextStep(all, id) = None /\ StepIn(all, id) /\ all \in Seq(StepIds)
      /\ Len(all) <= MaxSteps + 1
  BY <1>2, <1>4, NextIs
<1>6. retries \in {0, 1} /\ added = [state EXCEPT !.steps = all, !.retries = retries]
  BY <1>1, <1>3 DEF RunStates
<1>7. /\ IF retries > state.retries
         THEN /\ run' = [run EXCEPT ![r] = begun]
              /\ attempt' = [attempt EXCEPT ![r] = 1]
              /\ pc' = [pc EXCEPT ![r] = "retrying"]
         ELSE /\ run' = [run EXCEPT ![r] = done]
              /\ pc' = [pc EXCEPT ![r] = "persistFollowUp"]
              /\ UNCHANGED attempt
      /\ UNCHANGED <<permits, abortedBy, history, expired, main, error, output, ids, reply, lost>>
  BY DEF BeginFollowUp, Goto
<1> HIDE DEF id, retries, all
<1>7a. /\ [state EXCEPT !.steps = all, !.retries = retries] \in RunStates
       /\ [state EXCEPT !.steps = all, !.retries = retries].steps = all
       /\ [state EXCEPT !.steps = all, !.retries = retries].history = state.history
       /\ [state EXCEPT !.steps = all, !.retries = retries].retries = retries
       /\ [state EXCEPT !.steps = all, !.retries = retries].status = "running"
  <2>1. retries \in Nat
    BY <1>6
  <2> QED
    BY <1>1, <1>2, <1>5, <2>1 DEF RunStates
<1> HIDE DEF added
<1>8. /\ added \in RunStates /\ added.steps = all /\ added.history = state.history
      /\ added.retries = retries /\ added.status = "running"
  BY <1>6, <1>7a
<1>9. /\ begun \in RunStates /\ begun.current = id /\ begun.steps = all /\ begun.history = state.history
      /\ begun.retries = retries /\ begun.status = "running"
  BY <1>4, <1>5, <1>8, StartedIs
<1> HIDE DEF begun
<1>10. /\ done \in RunStates /\ done.current = id /\ done.steps = all
       /\ done.history = Append(state.history, <<id, "success">>)
       /\ done.retries = retries /\ done.status = "running"
  <2>1. StepIn(begun.steps, id) /\ "success" \in Results
    BY <1>5, <1>9 DEF Results
  <2> QED
    <3>1. /\ Completed(begun, id, "success") \in RunStates
          /\ Completed(begun, id, "success").status = "running"
          /\ Completed(begun, id, "success").current = begun.current
          /\ Completed(begun, id, "success").steps = begun.steps
          /\ Completed(begun, id, "success").retries = begun.retries
          /\ Completed(begun, id, "success").history = Append(begun.history, <<id, "success">>)
      BY <1>4, <1>9, <2>1, CompletedIs
    <3> QED
      BY <1>9, <3>1
<1>11. done.history = <<MainEntry(r), <<id, "success">>>>
  BY <1>2, <1>10
<1> HIDE DEF done
<1>12. CASE retries = 1
  <2>1. run' = [run EXCEPT ![r] = begun] /\ attempt' = [attempt EXCEPT ![r] = 1]
        /\ pc' = [pc EXCEPT ![r] = "retrying"]
        /\ UNCHANGED <<permits, abortedBy, history, expired, main, error, output, ids, reply, lost>>
    BY <1>2, <1>7, <1>12
  <2>2. TypeOK'
    BY <1>1, <1>5, <1>9, <2>1 DEF TypeOK
  <2>3. Others(r)
    BY <1>1, <2>1 DEF TypeOK, Others
  <2>4. pc'[r] = "retrying" /\ run'[r] = begun /\ main'[r] = main[r] /\ attempt'[r] = 1
    BY <1>1, <2>1 DEF TypeOK
  <2>5. Memory(r)'
    BY <1>2, <1>5, <1>9, <1>12, <2>4, RunAssumption
    DEF Memory, MainEntry, Early, Over, Before, Between, After
  <2> QED
    BY <2>2, <2>3, <2>5, OneMemory
<1>13. CASE retries = 0
  <2>1. run' = [run EXCEPT ![r] = done] /\ attempt' = attempt
        /\ pc' = [pc EXCEPT ![r] = "persistFollowUp"]
        /\ UNCHANGED <<permits, abortedBy, history, expired, main, error, output, ids, reply, lost>>
    BY <1>2, <1>7, <1>13
  <2>2. TypeOK'
    BY <1>1, <1>5, <1>10, <2>1 DEF TypeOK
  <2>3. Others(r)
    BY <1>1, <2>1 DEF TypeOK, Others
  <2>4. pc'[r] = "persistFollowUp" /\ run'[r] = done /\ main'[r] = main[r] /\ attempt'[r] = 0
    BY <1>1, <1>2, <2>1 DEF TypeOK
  <2>5. Memory(r)'
    BY <1>2, <1>10, <1>11, <2>4, RunAssumption
    DEF Memory, MainEntry, Retried, Results, Early, Over, Before, Between, After
  <2> QED
    BY <2>2, <2>3, <2>5, OneMemory
<1> QED
  BY <1>6, <1>12, <1>13

\* An attempt of the retry: another one while some are left, or the step's result, which
\* is a success only with text.
LEMMA TryAgainMemory == ASSUME MemoryInv, NEW r \in Requests, TryAgain(r) PROVE MemoryInv'
<1>1. TypeOK /\ Memory(r) /\ pc[r] = "retrying" /\ run[r] \in RunStates /\ attempt[r] \in Nat
  BY DEF MemoryInv, TryAgain, TypeOK
<1>2. StepIn(run[r].steps, run[r].current) /\ run[r].retries = 1 /\ attempt[r] >= 1
      /\ attempt[r] <= MaxRetries /\ main[r].status \in Results
      /\ run[r].history = <<MainEntry(r)>> /\ run[r].status = "running"
  BY <1>1 DEF Memory, Early, Over
<1>3. PICK text \in SUBSET Nat, fault \in {"none", "retryable", "fatal"}, status \in Results :
        /\ output' = [output EXCEPT ![r] = text] /\ error' = [error EXCEPT ![r] = fault]
        /\ fault = "none" => text # {}
        /\ \/ /\ attempt[r] < Attempts(1)
              /\ attempt' = [attempt EXCEPT ![r] = attempt[r] + 1]
              /\ UNCHANGED <<pc, run>>
           \/ /\ run' = [run EXCEPT ![r] = Completed(run[r], run[r].current, status)]
              /\ pc' = [pc EXCEPT ![r] = "persistFollowUp"]
              /\ UNCHANGED attempt
  <2>1. PICK wrote \in BOOLEAN, outcome \in {"none", "silent", "retryable", "fatal"} :
        LET text == IF wrote THEN output[r] \union {attempt[r]} ELSE output[r]
            fault == IF outcome \in {"retryable", "fatal"} THEN outcome
                     ELSE IF text = {} THEN "retryable" ELSE "none"
            again == /\ attempt[r] < Attempts(run[r].retries)
                     /\ outcome = "silent" \/ fault = "retryable"
            status == IF fault = "none" THEN "success" ELSE "failed"
        IN  /\ output' = [output EXCEPT ![r] = text]
            /\ error' = [error EXCEPT ![r] = fault]
            /\ IF again
               THEN /\ attempt' = [attempt EXCEPT ![r] = @ + 1]
                    /\ UNCHANGED <<pc, run>>
               ELSE /\ run' = [run EXCEPT ![r] = Completed(@, @.current, status)]
                    /\ Goto(r, "persistFollowUp")
                    /\ UNCHANGED attempt
    BY ZenonT(60) DEF TryAgain
  <2> DEFINE text == IF wrote THEN output[r] \union {attempt[r]} ELSE output[r]
             fault == IF outcome \in {"retryable", "fatal"} THEN outcome
                      ELSE IF text = {} THEN "retryable" ELSE "none"
             status == IF fault = "none" THEN "success" ELSE "failed"
  <2>2. text \in SUBSET Nat /\ fault \in {"none", "retryable", "fatal"} /\ status \in Results
        /\ (fault = "none" => text # {})
    BY <1>1 DEF TypeOK, Results
  <2>3. [attempt EXCEPT ![r] = @ + 1] = [attempt EXCEPT ![r] = attempt[r] + 1]
        /\ [run EXCEPT ![r] = Completed(@, @.current, status)]
             = [run EXCEPT ![r] = Completed(run[r], run[r].current, status)]
    BY <1>1 DEF TypeOK
  <2>4. /\ output' = [output EXCEPT ![r] = text] /\ error' = [error EXCEPT ![r] = fault]
        /\ \/ /\ attempt[r] < Attempts(1)
              /\ attempt' = [attempt EXCEPT ![r] = attempt[r] + 1]
              /\ UNCHANGED <<pc, run>>
           \/ /\ run' = [run EXCEPT ![r] = Completed(run[r], run[r].current, status)]
              /\ pc' = [pc EXCEPT ![r] = "persistFollowUp"]
              /\ UNCHANGED attempt
    BY <1>2, <2>1, <2>3 DEF Goto
  <2> HIDE DEF text, fault, status
  <2> QED
    BY <2>2, <2>4
<1>4. UNCHANGED <<permits, abortedBy, history, expired, main, ids, reply, lost>>
  BY DEF TryAgain
<1>5. CASE /\ attempt[r] < Attempts(1)
           /\ attempt' = [attempt EXCEPT ![r] = attempt[r] + 1]
           /\ UNCHANGED <<pc, run>>
  <2>1. attempt[r] + 1 \in Nat /\ attempt[r] + 1 <= MaxRetries
    BY <1>1, <1>2, <1>5, RunAssumption DEF Attempts, Larger
  <2>2. TypeOK'
    BY <1>1, <1>3, <1>4, <1>5, <2>1 DEF TypeOK
  <2>3. Others(r)
    BY <1>1, <1>3, <1>4, <1>5 DEF TypeOK, Others
  <2>4. attempt'[r] = attempt[r] + 1 /\ pc'[r] = "retrying" /\ run'[r] = run[r] /\ main'[r] = main[r]
    BY <1>1, <1>4, <1>5 DEF TypeOK
  <2>5. Memory(r)'
    BY <1>1, <1>2, <2>1, <2>4 DEF Memory, MainEntry, Early, Over, Before, Between, After
  <2> QED
    BY <2>2, <2>3, <2>5, OneMemory
<1>6. CASE /\ run' = [run EXCEPT ![r] = Completed(run[r], run[r].current, status)]
           /\ pc' = [pc EXCEPT ![r] = "persistFollowUp"]
           /\ UNCHANGED attempt
  <2> DEFINE id == run[r].current
             done == Completed(run[r], id, status)
  <2>1. id \in StepIds
    <3>1. PICK i \in DOMAIN run[r].steps : run[r].steps[i] = id
      BY <1>2 DEF StepIn
    <3> QED
      BY <1>1, <3>1 DEF RunStates
  <2>2. /\ done \in RunStates /\ done.current = id /\ done.steps = run[r].steps
        /\ done.history = Append(run[r].history, <<id, status>>)
        /\ done.status = "running"
    BY <1>1, <1>2, <2>1, CompletedIs
  <2>3. done.history = <<MainEntry(r), <<id, status>>>>
    <3>1. done.history = Append(<<MainEntry(r)>>, <<id, status>>)
      BY <1>2, <2>2
    <3> QED
      BY <3>1, AppendTwo
  <2>4. run' = [run EXCEPT ![r] = done]
    BY <1>6
  <2> HIDE DEF id, done
  <2>5. TypeOK'
    BY <1>1, <1>3, <1>4, <1>6, <2>2, <2>4 DEF TypeOK
  <2>6. Others(r)
    BY <1>1, <1>3, <1>4, <1>6, <2>4 DEF TypeOK, Others
  <2>7. /\ pc'[r] = "persistFollowUp" /\ run'[r] = done /\ main'[r] = main[r] /\ attempt'[r] = attempt[r]
        /\ error'[r] = fault /\ output'[r] = text
    BY <1>1, <1>3, <1>4, <1>6, <2>4 DEF TypeOK
  <2>8. Memory(r)'
    BY <1>2, <1>3, <2>2, <2>3, <2>7 DEF Memory, MainEntry, Retried, Early, Over, Before, Between, After
  <2> QED
    BY <2>5, <2>6, <2>8, OneMemory
<1> QED
  BY <1>3, <1>5, <1>6

\* Every way out of the generator.
LEMMA EndMemory ==
    ASSUME MemoryInv, NEW r \in Requests, Complete(r) \/ ReadExpired(r) \/ Uncaught(r) \/ Disconnect(r)
    PROVE  MemoryInv'
<1>1. TypeOK /\ Memory(r)
  BY DEF MemoryInv
<1>2. CASE Complete(r)
  <2>1. permits' \in Nat /\ abortedBy' = abortedBy /\ history' = history /\ reply' \in [Requests -> BOOLEAN]
    BY <1>1, <1>2 DEF TypeOK, Complete
  <2> QED
    BY <1>1, <1>2, <2>1, ForgetKeeps DEF Complete, Over, TypeOK
<1>3. ASSUME NEW cause \in {"expired", "error", "disconnect"}, Abort(r, cause), UNCHANGED <<history, reply>>
      PROVE  MemoryInv'
  <2>1. permits' \in Nat /\ abortedBy' \in [Requests -> {"nothing", "expired", "error", "disconnect"}]
        /\ reply' \in [Requests -> BOOLEAN]
    BY <1>1, <1>3 DEF TypeOK, Abort
  <2> QED
    BY <1>3, <2>1, ForgetKeeps DEF Abort, Over
<1>4. CASE Disconnect(r) /\ pc[r] = "queued" /\ Goto(r, "aborted") /\ UNCHANGED locals
  <2>1. UNCHANGED <<permits, history, reply, run, main, attempt, error, output, expired, ids, lost>>
        /\ pc' = [pc EXCEPT ![r] = "aborted"] /\ abortedBy' = [abortedBy EXCEPT ![r] = "disconnect"]
    BY <1>4 DEF Disconnect, locals, memory, Goto, Abort, Streaming
  <2>2. TypeOK'
    BY <1>1, <2>1 DEF TypeOK
  <2>3. Others(r)
    BY <1>1, <2>1 DEF TypeOK, Others
  <2>4. pc'[r] = "aborted" /\ Blank(r)
    BY <1>1, <1>4, <2>1 DEF TypeOK, Memory, Early
  <2>5. Memory(r)'
    BY <2>1, <2>4 DEF Memory, Blank, Over, Early, Before, Between, After
  <2> QED
    BY <2>2, <2>3, <2>5, OneMemory
<1> QED
  BY <1>2, <1>3, <1>4 DEF ReadExpired, Uncaught, Disconnect

\* Every step keeps every request's memory in order.
LEMMA MemorySteps == MemoryInv /\ [Next]_vars => MemoryInv'
<1> SUFFICES ASSUME MemoryInv, [Next]_vars PROVE MemoryInv'
  OBVIOUS
<1>1. CASE UNCHANGED vars
  BY <1>1 DEF vars, memory, MemoryInv, TypeOK, Memory, Blank, MainEntry, Retried
<1>2. CASE Next
  BY <1>2, ArriveMemory, AdmitMemory, RouteMemory, PersistInitialMemory, RetrieveMemory, MainStepMemory,
     PersistMemory, BeginFollowUpMemory, TryAgainMemory, EndMemory DEF Next, Advance
<1> QED
  BY <1>1, <1>2

\* In the first state no request has a memory.
LEMMA MemoryStarts == Init => MemoryInv
<1> SUFFICES ASSUME Init PROVE MemoryInv
  OBVIOUS
<1>1. /\ NewRun \in RunStates /\ Len(NewRun.steps) <= MaxSteps + 1
      /\ NoStep \in [status : {"pending", "success", "failed"}, kind : {"none", "success", "retryable", "fatal"}]
      /\ NoIds \in [run : BOOLEAN, step : BOOLEAN]
  BY RunAssumption, EmptySeq DEF NewRun, NoStep, NoIds, RunStates
<1>2. TypeOK
  BY <1>1, RunAssumption DEF Init, TypeOK
<1>3. \A r \in Requests : pc[r] = "idle" /\ Blank(r)
  BY DEF Init, Blank
<1>4. \A r \in Requests : Memory(r)
  BY <1>3 DEF Memory, Early, Over, Before, Between, After
<1> QED
  BY <1>2, <1>4 DEF MemoryInv

\* Every variable keeps its type, and a plan its budget and one follow-up step, for any
\* template and any policy.
THEOREM RunTyped == Spec => []TypeOK
<1>1. MemoryInv => TypeOK
  BY DEF MemoryInv
<1> QED
  BY <1>1, MemoryStarts, MemorySteps, PTL DEF Spec

\* A retry calls the model as often as the policy allows and no more, and is taken for
\* a success only when it has brought text.
THEOREM RunRetriesBounded == Spec => []RetriesBounded
<1>1. MemoryInv => RetriesBounded
  BY RunAssumption DEF MemoryInv, Memory, Blank, Early, Over, Before, Between, After, RetriesBounded
<1> QED
  BY <1>1, MemoryStarts, MemorySteps, PTL DEF Spec

-----------------------------------------------------------------------------
(* Permits.                                                                *)

Active == {r \in Requests : Streaming(r)}

\* The requests that stream are finitely many, however many there are: each took a permit.
PermitsInv == IsFiniteSet(Active) /\ PermitsBalance

\* Entering the stream takes a permit, leaving it gives one back, and nothing else
\* touches them.
LEMMA PermitMoves ==
    ASSUME TypeOK, NEW r \in Requests,
           Arrive(r) \/ Advance(r) \/ Uncaught(r) \/ Disconnect(r)
    PROVE  \/ permits' = permits /\ Active' = Active
           \/ permits' = permits - 1 /\ r \notin Active /\ Active' = Active \union {r}
           \/ permits' = permits + 1 /\ r \in Active /\ Active' = Active \ {r}
<1>1. \A place : pc' = [pc EXCEPT ![r] = place] =>
          Active' = IF place \in {"idle", "queued", "done", "aborted"} THEN Active \ {r} ELSE Active \union {r}
  BY DEF TypeOK, Active, Streaming
<1>2. r \in Active <=> pc[r] \notin {"idle", "queued", "done", "aborted"}
  BY DEF Active, Streaming
<1>3. CASE Arrive(r)
  BY <1>1, <1>2, <1>3 DEF Arrive, Goto
<1>4. CASE Admit(r)
  <2>1. pc' = [pc EXCEPT ![r] = "routing"] /\ pc[r] = "queued" /\ permits' = permits - 1
    BY <1>4 DEF Admit, Goto
  <2>2. r \notin Active
    BY <1>2, <2>1
  <2>3. Active' = Active \union {r}
    BY <2>1 DEF TypeOK, Active, Streaming
  <2> QED
    BY <2>1, <2>2, <2>3
<1>5. CASE Route(r) \/ PersistInitial(r) \/ Retrieve(r) \/ MainStep(r) \/ PersistStep(r) \/ UpdateMain(r)
  BY <1>1, <1>2, <1>5 DEF Route, PersistInitial, Retrieve, MainStep, PersistStep, UpdateMain, Goto
<1>6. CASE BeginFollowUp(r)
  BY <1>1, <1>2, <1>6 DEF BeginFollowUp, Goto
<1>7. CASE TryAgain(r)
  <2>1. permits' = permits /\ pc[r] = "retrying"
        /\ (pc' = pc \/ pc' = [pc EXCEPT ![r] = "persistFollowUp"])
    BY <1>7 DEF TryAgain, Goto
  <2>2. CASE pc' = pc
    BY <2>1, <2>2 DEF Active, Streaming
  <2> QED
    BY <1>1, <1>2, <2>1, <2>2
<1>8. CASE PersistFollowUp(r)
  <2>1. permits' = permits /\ pc[r] = "persistFollowUp"
        /\ \E place \in {"updateMain", "complete"} : pc' = [pc EXCEPT ![r] = place]
    BY <1>8 DEF PersistFollowUp, Goto
  <2>2. Active' = Active \union {r} /\ r \in Active
    BY <1>1, <1>2, <2>1
  <2> QED
    BY <2>1, <2>2
<1>9. CASE Complete(r)
  BY <1>1, <1>2, <1>9 DEF Complete, Goto
<1>10. ASSUME NEW cause, Abort(r, cause), pc[r] \notin {"idle", "queued", "done", "aborted"}
       PROVE  permits' = permits + 1 /\ r \in Active /\ Active' = Active \ {r}
  BY <1>1, <1>2, <1>10 DEF Abort, Goto
<1>11. CASE ReadExpired(r)
  BY <1>10, <1>11 DEF ReadExpired
<1>12. CASE Uncaught(r)
  BY <1>10, <1>12 DEF Uncaught
<1>13. CASE Disconnect(r)
  <2>1. CASE Streaming(r) /\ Abort(r, "disconnect")
    BY <1>10, <2>1 DEF Streaming
  <2>2. CASE pc[r] = "queued" /\ Goto(r, "aborted") /\ UNCHANGED permits
    BY <1>1, <1>2, <2>2 DEF Goto
  <2> QED
    BY <1>13, <2>1, <2>2 DEF Disconnect
<1> QED
  BY <1>3, <1>4, <1>5, <1>6, <1>7, <1>8, <1>9, <1>11, <1>12, <1>13 DEF Advance

\* Every step keeps the balance.
LEMMA PermitSteps == TypeOK /\ PermitsInv /\ [Next]_vars => PermitsInv'
<1> SUFFICES ASSUME TypeOK, PermitsInv, [Next]_vars PROVE PermitsInv'
  OBVIOUS
<1>1. permits \in Nat /\ Permits \in Nat /\ IsFiniteSet(Active) /\ Cardinality(Active) \in Nat
      /\ permits + Cardinality(Active) = Permits
  BY RunAssumption, FS_CardinalityType DEF TypeOK, PermitsInv, PermitsBalance, Active
<1>2. CASE permits' = permits /\ Active' = Active
  BY <1>1, <1>2 DEF PermitsInv, PermitsBalance, Active
<1>3. ASSUME NEW r \in Requests, permits' = permits - 1, r \notin Active, Active' = Active \union {r}
      PROVE  PermitsInv'
  <2>1. IsFiniteSet(Active') /\ Cardinality(Active') = Cardinality(Active) + 1
    BY <1>1, <1>3, FS_AddElement
  <2>2. permits' + Cardinality(Active') = Permits
    BY <1>1, <1>3, <2>1
  <2> QED
    BY <2>1, <2>2 DEF PermitsInv, PermitsBalance, Active
<1>4. ASSUME NEW r \in Requests, permits' = permits + 1, r \in Active, Active' = Active \ {r}
      PROVE  PermitsInv'
  <2>1. IsFiniteSet(Active') /\ Cardinality(Active') = Cardinality(Active) - 1
    BY <1>1, <1>4, FS_RemoveElement
  <2>2. permits' + Cardinality(Active') = Permits
    BY <1>1, <1>4, <2>1
  <2> QED
    BY <2>1, <2>2 DEF PermitsInv, PermitsBalance, Active
<1>5. CASE UNCHANGED vars
  BY <1>2, <1>5 DEF vars, Active, Streaming
<1>6. CASE Next
  <2>1. PICK r \in Requests : Arrive(r) \/ Advance(r) \/ Uncaught(r) \/ Disconnect(r)
    BY <1>6 DEF Next
  <2> QED
    BY <1>2, <1>3, <1>4, <2>1, PermitMoves
<1> QED
  BY <1>5, <1>6

\* No permit is lost on any of the ways out of a stream, and none is given back twice:
\* those that are free and those in use are always as many as there are.
THEOREM RunPermits == Spec => []PermitsBalance
<1>1. Init => PermitsInv
  <2> SUFFICES ASSUME Init PROVE PermitsInv
    OBVIOUS
  <2>1. Active = {}
    BY DEF Init, Active, Streaming
  <2>2. IsFiniteSet(Active) /\ Cardinality(Active) = 0
    BY <2>1, FS_EmptySet
  <2> QED
    BY <2>2, RunAssumption DEF Init, PermitsInv, PermitsBalance, Active
<1>2. PermitsInv => PermitsBalance
  BY DEF PermitsInv
<1> QED
  BY <1>1, <1>2, PermitSteps, RunTyped, PTL DEF Spec

-----------------------------------------------------------------------------
(* The rows of a request.                                                  *)

\* No other request's place or rows are touched.
OtherRows(r) ==
    \A q \in Requests \ {r} :
        pc'[q] = pc[q] /\ runRow'[q] = runRow[q] /\ stepRows'[q] = stepRows[q]

\* A step that leaves the others' rows alone and its own in order keeps all in order.
LEMMA OneRow ==
    ASSUME RowsInv, NEW r \in Requests, OtherRows(r), RowTypes', Rows(r)'
    PROVE  RowsInv'
<1>1. ASSUME NEW q \in Requests \ {r} PROVE Rows(q)'
  <2>1. Rows(q)
    BY DEF RowsInv
  <2> QED
    BY <2>1 DEF OtherRows, Rows
<1> QED
  BY <1>1 DEF RowsInv

\* Places before the end of a step's row come before it.
LEMMA RowsStay ==
    ASSUME TypeOK, RowsInv, NEW r \in Requests, UNCHANGED rows, NEW place,
           pc' = [pc EXCEPT ![r] = place],
           place \in Early \union {"persistInitial"} => pc[r] \in Early \union {"persistInitial"},
           place \in Before \union {"persistStep"} => pc[r] \in Early \union Before \union {"persistStep"},
           place \in Before \union Between \union {"retrying", "persistFollowUp"} =>
               pc[r] \in Early \union Before \union Between \union {"retrying", "persistFollowUp"}
    PROVE  RowsInv'
<1>1. RowTypes /\ Rows(r) /\ runRow' = runRow /\ stepRows' = stepRows
  BY DEF RowsInv, rows
<1>2. RowTypes' /\ OtherRows(r) /\ pc'[r] = place
  BY <1>1 DEF TypeOK, RowTypes, OtherRows
<1>3. ~runRow[r].exists => stepRows[r]["main"].status \notin Results /\ stepRows[r]["follow"] = NoStepRow
  BY <1>1 DEF Rows, NoStepRow, Results
<1>4. Rows(r)'
  BY <1>1, <1>2, <1>3 DEF Rows
<1> QED
  BY <1>2, <1>4, OneRow

\* Steps that write nothing.
LEMMA QuietRows ==
    ASSUME TypeOK, RowsInv, NEW r \in Requests,
           \/ Arrive(r) \/ Admit(r) \/ Route(r) \/ Retrieve(r) \/ MainStep(r) \/ BeginFollowUp(r)
           \/ TryAgain(r) \/ Complete(r) \/ ReadExpired(r) \/ Uncaught(r) \/ Disconnect(r)
    PROVE  RowsInv'
<1>1. UNCHANGED rows
  BY DEF Arrive, Admit, Route, Retrieve, MainStep, BeginFollowUp, TryAgain, Complete, ReadExpired,
         Uncaught, Disconnect
<1>2. CASE Arrive(r)
  BY <1>1, <1>2, RowsStay DEF Arrive, Goto, Early, Before, Between
<1>3. CASE Admit(r)
  BY <1>1, <1>3, RowsStay DEF Admit, Goto, Early, Before, Between
<1>4. CASE Route(r)
  BY <1>1, <1>4, RowsStay DEF Route, Goto, Early, Before, Between
<1>5. CASE Retrieve(r)
  BY <1>1, <1>5, RowsStay DEF Retrieve, Goto, Early, Before, Between
<1>6. CASE MainStep(r)
  BY <1>1, <1>6, RowsStay DEF MainStep, Goto, Early, Before, Between
<1>7. CASE BeginFollowUp(r)
  <2>1. pc[r] = "followUp" /\ \E place \in {"retrying", "persistFollowUp"} : pc' = [pc EXCEPT ![r] = place]
    BY <1>7 DEF BeginFollowUp, Goto
  <2> QED
    BY <1>1, <2>1, RowsStay DEF Early, Before, Between
<1>8. CASE TryAgain(r)
  <2>1. pc[r] = "retrying" /\ \E place \in {"retrying", "persistFollowUp"} : pc' = [pc EXCEPT ![r] = place]
    BY <1>8 DEF TryAgain, Goto, TypeOK
  <2> QED
    BY <1>1, <2>1, RowsStay DEF Early, Before, Between
<1>9. CASE Complete(r) \/ ReadExpired(r) \/ Uncaught(r) \/ Disconnect(r)
  <2>1. \E place \in Over : pc' = [pc EXCEPT ![r] = place]
    BY <1>9 DEF Complete, ReadExpired, Uncaught, Disconnect, Abort, Goto, Over
  <2> QED
    BY <1>1, <2>1, RowsStay DEF Over, Early, Before, Between
<1> QED
  BY <1>2, <1>3, <1>4, <1>5, <1>6, <1>7, <1>8, <1>9

\* The first write makes both rows, or none.
LEMMA PersistInitialRows ==
    ASSUME MemoryInv, RowsInv, NEW r \in Requests, PersistInitial(r)
    PROVE  RowsInv'
<1>1. TypeOK /\ Memory(r) /\ RowTypes /\ Rows(r) /\ pc[r] = "persistInitial"
  BY DEF MemoryInv, RowsInv, PersistInitial
<1>2. CASE UNCHANGED rows
  BY <1>1, <1>2, RowsStay DEF PersistInitial, Goto, Early, Before, Between
<1> DEFINE row == [exists |-> TRUE, status |-> run[r].status, history |-> run[r].history,
                   retries |-> run[r].retries]
           step == [key |-> run[r].current, status |-> "running", text |-> "none"]
<1>3. CASE /\ runRow' = [runRow EXCEPT ![r] = row]
           /\ stepRows' = [stepRows EXCEPT ![r]["main"] = step]
  <2>1. /\ run[r] \in RunStates /\ run[r].status = "running" /\ run[r].history = <<>> /\ run[r].current = Step(1)
        /\ Step(1) \in StepIds
    BY <1>1 DEF TypeOK, Memory, Before, Early, Over, Step, StepIds
  <2>2. row \in RowStates /\ row.exists = TRUE /\ row.history = <<>>
    BY <2>1 DEF RunStates, RowStates, Results
  <2>3. step \in StepRowStates /\ step.key = Step(1) /\ step.status = "running"
    BY <2>1 DEF StepRowStates
  <2>4. stepRows' = [stepRows EXCEPT ![r] = [stepRows[r] EXCEPT !["main"] = step]]
    BY <1>1, <1>3 DEF RowTypes
  <2> HIDE DEF row, step
  <2>5. RowTypes'
    BY <1>1, <1>3, <2>2, <2>3, <2>4 DEF RowTypes
  <2>6. OtherRows(r)
    BY <1>1, <1>3, <2>4 DEF OtherRows, TypeOK, RowTypes, PersistInitial, Goto
  <2>7. /\ pc'[r] = "retrieve" /\ runRow'[r] = row /\ stepRows'[r]["main"] = step
        /\ stepRows'[r]["follow"] = stepRows[r]["follow"]
    BY <1>1, <1>3, <2>4 DEF TypeOK, RowTypes, PersistInitial, Goto
  <2>8. stepRows[r]["follow"] = NoStepRow /\ Recording(NoStepRow) = <<>> /\ Recording(step) = <<>>
    BY <1>1, <2>3 DEF Rows, NoStepRow, Recording, Results
  <2>9. Rows(r)'
    BY <2>2, <2>3, <2>7, <2>8 DEF Rows, Early, Before, Between, Results
  <2> QED
    BY <2>5, <2>6, <2>9, OneRow
<1> QED
  BY <1>2, <1>3 DEF PersistInitial, RollBack

\* What WithRun makes of a row: nothing of a missing one.
LEMMA WithRunIs ==
    ASSUME NEW row \in RowStates, NEW state \in RunStates, NEW entries \in Seq(StepIds \X Results)
    PROVE  /\ WithRun(row, state, entries) \in RowStates
           /\ WithRun(row, state, entries).exists = row.exists
           /\ ~row.exists => WithRun(row, state, entries) = row
           /\ row.exists => /\ WithRun(row, state, entries).history = row.history \o entries
                            /\ WithRun(row, state, entries).status = state.status
                            /\ WithRun(row, state, entries).retries = state.retries
<1>1. row.history \o entries \in Seq(StepIds \X Results)
  BY ConcatProperties DEF RowStates
<1> QED
  BY <1>1 DEF WithRun, RowStates, RunStates

\* The entry that is appended to the row is that of the step that has just ended.
LEMMA LastIs ==
    ASSUME MemoryInv, NEW r \in Requests
    PROVE  /\ LastEntry(r) \in Seq(StepIds \X Results) \/ pc[r] \notin {"persistStep", "persistFollowUp"}
           /\ pc[r] = "persistStep" => LastEntry(r) = <<MainEntry(r)>>
           /\ pc[r] = "persistFollowUp" =>
                \E status \in Results :
                    /\ run[r].history = <<MainEntry(r), <<run[r].current, status>>>>
                    /\ LastEntry(r) = <<<<run[r].current, status>>>>
                    /\ run[r].history[Len(run[r].history)][2] = status
                    /\ run[r].current \in StepIds
<1>1. Memory(r) /\ run[r] \in RunStates
  BY DEF MemoryInv, TypeOK
<1>2. Step(1) \in StepIds
  BY DEF Step, StepIds
<1>3. ASSUME pc[r] = "persistStep" PROVE LastEntry(r) = <<MainEntry(r)>> /\ LastEntry(r) \in Seq(StepIds \X Results)
  <2>1. run[r].history = <<MainEntry(r)>> /\ main[r].status \in Results
    BY <1>1, <1>3 DEF Memory, Between
  <2>2. LastEntry(r) = <<MainEntry(r)>>
    BY <2>1 DEF LastEntry
  <2>3. MainEntry(r) \in StepIds \X Results
    BY <1>2, <2>1 DEF MainEntry
  <2> QED
    BY <2>2, <2>3
<1>4. ASSUME pc[r] = "persistFollowUp"
      PROVE  \E status \in Results :
                    /\ run[r].history = <<MainEntry(r), <<run[r].current, status>>>>
                    /\ LastEntry(r) = <<<<run[r].current, status>>>>
                    /\ run[r].history[Len(run[r].history)][2] = status
                    /\ run[r].current \in StepIds
                    /\ LastEntry(r) \in Seq(StepIds \X Results)
  <2>1. PICK status \in Results : run[r].history = <<MainEntry(r), <<run[r].current, status>>>>
    BY <1>1, <1>4 DEF Memory, After
  <2> DEFINE e == <<run[r].current, status>>
  <2>2. e \in StepIds \X Results /\ e[2] = status
    <3>1. run[r].history \in Seq(StepIds \X Results)
      BY <1>1 DEF RunStates, Results
    <3>2. 2 \in DOMAIN run[r].history /\ run[r].history[2] = e
      BY <2>1
    <3>3. run[r].history[2] \in StepIds \X Results
      BY <3>1, <3>2
    <3> QED
      BY <3>2, <3>3
  <2>3. Len(run[r].history) = 2 /\ run[r].history[2] = e
    BY <2>1
  <2> HIDE DEF e
  <2>4. LastEntry(r) = <<e>> /\ run[r].history[Len(run[r].history)][2] = status
    BY <2>2, <2>3 DEF LastEntry
  <2>5. <<e>> \in Seq(StepIds \X Results)
    BY <2>2
  <2>6. run[r].current \in StepIds
    BY <2>2 DEF e
  <2> QED
    BY <2>1, <2>4, <2>5, <2>6 DEF e
<1> QED
  BY <1>3, <1>4

\* The end of the main step: its row and its entry in the run's row, where there are any.
LEMMA PersistStepRows ==
    ASSUME MemoryInv, RowsInv, NEW r \in Requests, PersistStep(r)
    PROVE  RowsInv'
<1>1. TypeOK /\ Memory(r) /\ RowTypes /\ Rows(r) /\ pc[r] = "persistStep" /\ pc' = [pc EXCEPT ![r] = "followUp"]
  BY DEF MemoryInv, RowsInv, PersistStep, Goto
<1>2. CASE UNCHANGED rows
  BY <1>1, <1>2, RowsStay DEF Early, Before, Between
<1> DEFINE old == stepRows[r]["main"]
           step == IF old # NoStepRow THEN [old EXCEPT !.status = main[r].status, !.text = "main"] ELSE old
           row == WithRun(runRow[r], run[r], LastEntry(r))
<1>3. CASE /\ runRow' = [runRow EXCEPT ![r] = WithRun(@, run[r], LastEntry(r))]
           /\ stepRows' = [stepRows EXCEPT ![r]["main"] =
                      IF @ # NoStepRow THEN [@ EXCEPT !.status = main[r].status, !.text = "main"]
                      ELSE @]
  <2>1. run[r] \in RunStates /\ runRow[r] \in RowStates /\ old \in StepRowStates /\ main[r].status \in Results
        /\ stepRows[r]["follow"] = NoStepRow /\ old.status \notin Results
    BY <1>1 DEF TypeOK, RowTypes, Memory, Rows, Before, Between
  <2>2. LastEntry(r) = <<MainEntry(r)>> /\ LastEntry(r) \in Seq(StepIds \X Results)
    BY <1>1, LastIs
  <2>3. /\ row \in RowStates /\ row.exists = runRow[r].exists
        /\ row.exists => row.history = runRow[r].history \o <<MainEntry(r)>>
    <3>1. row \in RowStates /\ row.exists = runRow[r].exists
      BY <2>1, <2>2, WithRunIs
    <3>2. ASSUME runRow[r].exists PROVE row.history = runRow[r].history \o LastEntry(r)
      BY <2>1, <2>2, <3>2, WithRunIs
    <3> HIDE DEF row
    <3> QED
      BY <2>2, <3>1, <3>2
  <2>4. step \in StepRowStates /\ step.key = old.key
        /\ (old # NoStepRow => step.status = main[r].status) /\ (old = NoStepRow => step = NoStepRow)
    BY <2>1 DEF StepRowStates, Results
  <2>5. runRow' = [runRow EXCEPT ![r] = row] /\ stepRows' = [stepRows EXCEPT ![r] = [stepRows[r] EXCEPT !["main"] = step]]
    BY <1>1, <1>3 DEF RowTypes
  <2> HIDE DEF row, step
  <2>6. RowTypes'
    BY <1>1, <2>3, <2>4, <2>5 DEF RowTypes
  <2>7. OtherRows(r)
    BY <1>1, <2>5 DEF OtherRows, TypeOK, RowTypes
  <2>8. /\ pc'[r] = "followUp" /\ runRow'[r] = row /\ stepRows'[r]["main"] = step
        /\ stepRows'[r]["follow"] = NoStepRow
    BY <1>1, <2>1, <2>5 DEF TypeOK, RowTypes
  <2>9. row.exists => old # NoStepRow /\ old.key = Step(1)
    BY <1>1, <2>3 DEF Rows, NoStepRow
  <2>10. ~row.exists => step = NoStepRow
    BY <1>1, <2>3, <2>4 DEF Rows
  <2>11. row.exists => row.history = Recording(step) \o Recording(NoStepRow)
    <3>1. ASSUME row.exists PROVE row.history = Recording(step) \o Recording(NoStepRow)
      <4>1. Recording(old) = <<>> /\ Recording(NoStepRow) = <<>>
        BY <2>1 DEF Recording, NoStepRow, Results
      <4>2. Recording(step) = <<MainEntry(r)>>
        BY <2>1, <2>4, <2>9, <3>1 DEF Recording, MainEntry
      <4>3. runRow[r].history = <<>> \o <<>>
        BY <1>1, <2>1, <2>3, <3>1, <4>1 DEF Rows
      <4>4. <<MainEntry(r)>> \in Seq(StepIds \X Results)
        BY <2>2
      <4> QED
        BY <2>3, <3>1, <4>1, <4>2, <4>3, <4>4, ConcatEmptySeq
    <3> QED
      BY <3>1
  <2>12. Rows(r)'
    BY <2>1, <2>4, <2>8, <2>9, <2>10, <2>11 DEF Rows, Early, Before, Between, Results
  <2> QED
    BY <2>6, <2>7, <2>12, OneRow
<1> QED
  BY <1>2, <1>3 DEF PersistStep, RollBack

\* The follow-up step's row and its entry; both need the row of the run.
LEMMA PersistFollowUpRows ==
    ASSUME MemoryInv, RowsInv, NEW r \in Requests, PersistFollowUp(r)
    PROVE  RowsInv'
<1>1. TypeOK /\ Memory(r) /\ RowTypes /\ Rows(r) /\ pc[r] = "persistFollowUp"
  BY DEF MemoryInv, RowsInv, PersistFollowUp
<1>2. PICK place \in {"updateMain", "complete"} : pc' = [pc EXCEPT ![r] = place]
  BY DEF PersistFollowUp, Goto
<1>3. CASE UNCHANGED rows
  BY <1>1, <1>2, <1>3, RowsStay DEF Early, Before, Between
<1>4. PICK status \in Results :
        /\ run[r].history = <<MainEntry(r), <<run[r].current, status>>>>
        /\ LastEntry(r) = <<<<run[r].current, status>>>>
        /\ run[r].history[Len(run[r].history)][2] = status
        /\ run[r].current \in StepIds
  BY <1>1, LastIs
<1> DEFINE step == [key |-> run[r].current, status |-> status, text |-> "trace"]
           row == WithRun(runRow[r], run[r], LastEntry(r))
<1>5. CASE /\ runRow[r].exists
           /\ runRow' = [runRow EXCEPT ![r] = WithRun(@, run[r], LastEntry(r))]
           /\ stepRows' = [stepRows EXCEPT ![r]["follow"] = step]
  <2>1. run[r] \in RunStates /\ runRow[r] \in RowStates /\ stepRows[r]["follow"] = NoStepRow
        /\ stepRows[r]["main"] \in StepRowStates
    BY <1>1 DEF TypeOK, RowTypes, Rows
  <2>2. LastEntry(r) \in Seq(StepIds \X Results)
    BY <1>1, LastIs
  <2>3. row \in RowStates /\ row.exists = TRUE /\ row.history = runRow[r].history \o <<<<run[r].current, status>>>>
    <3>1. row \in RowStates /\ row.exists = runRow[r].exists
      BY <2>1, <2>2, WithRunIs
    <3>2. row.history = runRow[r].history \o LastEntry(r)
      BY <1>5, <2>1, <2>2, WithRunIs
    <3>3. runRow[r].exists = TRUE
      BY <1>5, <2>1 DEF RowStates
    <3> HIDE DEF row
    <3> QED
      BY <1>4, <3>1, <3>2, <3>3
  <2>4. step \in StepRowStates /\ Recording(step) = <<<<run[r].current, status>>>>
    BY <1>4 DEF StepRowStates, Recording, Results
  <2>5. runRow' = [runRow EXCEPT ![r] = row] /\ stepRows' = [stepRows EXCEPT ![r] = [stepRows[r] EXCEPT !["follow"] = step]]
    BY <1>1, <1>5 DEF RowTypes
  <2> HIDE DEF row, step
  <2>6. RowTypes'
    BY <1>1, <2>3, <2>4, <2>5 DEF RowTypes
  <2>7. OtherRows(r)
    BY <1>1, <1>2, <2>5 DEF OtherRows, TypeOK, RowTypes
  <2>8. /\ pc'[r] = place /\ runRow'[r] = row /\ stepRows'[r]["main"] = stepRows[r]["main"]
        /\ stepRows'[r]["follow"] = step
    BY <1>1, <1>2, <2>5 DEF TypeOK, RowTypes
  <2>9. row.history = Recording(stepRows[r]["main"]) \o Recording(step)
    <3>1. Recording(stepRows[r]["main"]) \in Seq(StepIds \X Results)
      <4>1. stepRows[r]["main"].status \in Results => stepRows[r]["main"].key \in StepIds
        <5>1. stepRows[r]["main"].key = Step(1)
          BY <1>1, <1>5 DEF Rows
        <5>2. Step(1) \in StepIds
          BY DEF Step, StepIds
        <5> QED
          BY <5>1, <5>2
      <4>2. ASSUME NEW e \in StepIds \X Results PROVE <<e>> \in Seq(StepIds \X Results)
        OBVIOUS
      <4>3. <<>> \in Seq(StepIds \X Results)
        BY EmptySeq
      <4> QED
        BY <4>1, <4>2, <4>3 DEF Recording
    <3>2. runRow[r].history = Recording(stepRows[r]["main"]) \o <<>>
      BY <1>1, <1>5, <2>1 DEF Rows, Recording, NoStepRow, Results
    <3> QED
      BY <2>3, <2>4, <3>1, <3>2, ConcatEmptySeq
  <2>10. Rows(r)'
    BY <1>1, <1>5, <2>3, <2>8, <2>9 DEF Rows, Early, Before, Between
  <2> QED
    BY <2>6, <2>7, <2>10, OneRow
<1> QED
  BY <1>3, <1>4, <1>5 DEF PersistFollowUp, RollBack

\* The retried text changes neither a step's key nor its status.
LEMMA UpdateMainRows ==
    ASSUME MemoryInv, RowsInv, NEW r \in Requests, UpdateMain(r)
    PROVE  RowsInv'
<1>1. TypeOK /\ RowTypes /\ Rows(r) /\ pc[r] = "updateMain" /\ pc' = [pc EXCEPT ![r] = "complete"]
  BY DEF MemoryInv, RowsInv, UpdateMain, Goto
<1>2. CASE UNCHANGED rows
  BY <1>1, <1>2, RowsStay DEF Early, Before, Between
<1> DEFINE old == stepRows[r]["main"]
           step == IF old # NoStepRow THEN [old EXCEPT !.text = "retried"] ELSE old
<1>3. CASE /\ UNCHANGED runRow
           /\ stepRows' = [stepRows EXCEPT ![r]["main"] =
                IF @ # NoStepRow THEN [@ EXCEPT !.text = "retried"] ELSE @]
  <2>1. old \in StepRowStates
    BY <1>1 DEF RowTypes
  <2>2. step \in StepRowStates /\ step.key = old.key /\ step.status = old.status
        /\ (old = NoStepRow => step = NoStepRow)
    BY <2>1 DEF StepRowStates
  <2>3. stepRows' = [stepRows EXCEPT ![r] = [stepRows[r] EXCEPT !["main"] = step]]
    BY <1>1, <1>3 DEF RowTypes
  <2> HIDE DEF step
  <2>4. RowTypes'
    BY <1>1, <1>3, <2>2, <2>3 DEF RowTypes
  <2>5. OtherRows(r)
    BY <1>1, <1>3, <2>3 DEF OtherRows, TypeOK, RowTypes
  <2>6. /\ pc'[r] = "complete" /\ runRow'[r] = runRow[r] /\ stepRows'[r]["main"] = step
        /\ stepRows'[r]["follow"] = stepRows[r]["follow"] /\ Recording(step) = Recording(old)
    BY <1>1, <1>3, <2>2, <2>3 DEF TypeOK, RowTypes, Recording
  <2>7. Rows(r)'
    BY <1>1, <2>2, <2>6 DEF Rows, Early, Before, Between
  <2> QED
    BY <2>4, <2>5, <2>7, OneRow
<1> QED
  BY <1>2, <1>3 DEF UpdateMain, RollBack

\* Every step keeps every request's rows in order.
LEMMA RowSteps == MemoryInv /\ RowsInv /\ [Next]_vars => RowsInv'
<1> SUFFICES ASSUME MemoryInv, RowsInv, [Next]_vars PROVE RowsInv'
  OBVIOUS
<1>1. CASE UNCHANGED vars
  BY <1>1 DEF vars, rows, RowsInv, RowTypes, Rows
<1>2. CASE Next
  <2>1. TypeOK
    BY DEF MemoryInv
  <2> QED
    BY <1>2, <2>1, QuietRows, PersistInitialRows, PersistStepRows, PersistFollowUpRows, UpdateMainRows
    DEF Next, Advance
<1> QED
  BY <1>1, <1>2

\* In the first state there are no rows.
LEMMA RowsStart == Init => RowsInv
<1> SUFFICES ASSUME Init PROVE RowsInv
  OBVIOUS
<1>1. NoRow \in RowStates /\ NoStepRow \in StepRowStates
  BY EmptySeq DEF NoRow, NoStepRow, RowStates, StepRowStates
<1>2. RowTypes
  BY <1>1 DEF Init, RowTypes
<1>3. \A r \in Requests : Rows(r)
  BY DEF Init, Rows, NoRow, NoStepRow, Early, Before, Between, Results
<1> QED
  BY <1>2, <1>3 DEF RowsInv

\* The history in a run's row is that of its step rows, whichever of the writes were
\* rolled back and wherever the request ended.
THEOREM RunHistory == Spec => []HistoryMatchesSteps
<1>1. RowsInv => HistoryMatchesSteps
  BY DEF RowsInv, Rows, Recording, Results, HistoryMatchesSteps
<1> QED
  BY <1>1, MemoryStarts, MemorySteps, RowsStart, RowSteps, PTL DEF Spec

-----------------------------------------------------------------------------
(* What is recorded of a request that has lost no write.                   *)

\* A step of a request touches neither the memory nor the rows of another.
LEMMA Alone ==
    ASSUME TypeOK, RowTypes, NEW r \in Requests,
           Arrive(r) \/ Advance(r) \/ Uncaught(r) \/ Disconnect(r)
    PROVE  Others(r) /\ OtherRows(r)
<1> USE DEF Others, OtherRows, TypeOK, RowTypes
<1>1. CASE Arrive(r) \/ Admit(r)
  BY <1>1 DEF Arrive, Admit, Goto, memory, rows
<1>2. CASE Route(r)
  BY <1>2 DEF Route, Goto, rows
<1>3. CASE PersistInitial(r)
  BY <1>3 DEF PersistInitial, Goto, memory, rows, RollBack, Commit
<1>4. CASE Retrieve(r)
  BY <1>4 DEF Retrieve, Goto, memory, rows
<1>5. CASE MainStep(r)
  BY <1>5 DEF MainStep, Goto, rows
<1>6. CASE PersistStep(r)
  BY <1>6 DEF PersistStep, Goto, memory, rows, RollBack, Commit
<1>7. CASE BeginFollowUp(r)
  BY <1>7 DEF BeginFollowUp, Goto, rows
<1>8. CASE TryAgain(r)
  <2>1. \A q \in Requests \ {r} : output'[q] = output[q] /\ error'[q] = error[q]
    BY <1>8 DEF TryAgain
  <2>2. \A q \in Requests \ {r} : pc'[q] = pc[q] /\ run'[q] = run[q]
    BY <1>8 DEF TryAgain, Goto
  <2>3. \A q \in Requests \ {r} : attempt'[q] = attempt[q]
    BY <1>8 DEF TryAgain
  <2>4. UNCHANGED <<expired, main, ids, lost, runRow, stepRows>>
    BY <1>8 DEF TryAgain, rows
  <2> QED
    BY <2>1, <2>2, <2>3, <2>4
<1>9. CASE PersistFollowUp(r)
  BY <1>9 DEF PersistFollowUp, Goto, memory, rows, RollBack, Commit
<1>10. CASE UpdateMain(r)
  BY <1>10 DEF UpdateMain, Goto, memory, rows, RollBack, Commit
<1>11. ASSUME NEW place, Goto(r, place), Forget(r), UNCHANGED rows
       PROVE  Others(r) /\ OtherRows(r)
  BY <1>11 DEF Goto, Forget, rows
<1>12. CASE Complete(r)
  BY <1>11, <1>12 DEF Complete
<1>13. CASE ReadExpired(r) \/ Uncaught(r)
  BY <1>11, <1>13 DEF ReadExpired, Uncaught, Abort
<1>14. CASE Disconnect(r)
  <2>1. CASE Abort(r, "disconnect") /\ UNCHANGED rows
    BY <1>11, <2>1 DEF Abort
  <2>2. CASE Goto(r, "aborted") /\ UNCHANGED locals /\ UNCHANGED rows
    BY <2>2 DEF Goto, locals, memory, rows
  <2> QED
    BY <1>14, <2>1, <2>2 DEF Disconnect
<1> QED
  BY <1>1, <1>2, <1>3, <1>4, <1>5, <1>6, <1>7, <1>8, <1>9, <1>10, <1>12, <1>13, <1>14 DEF Advance

\* A lost write leaves nothing to be shown.
LEMMA LostRecords ==
    ASSUME NEW r \in Requests, lost'[r] = TRUE, pc'[r] \notin Early \union {"persistInitial"}
    PROVE  Recorded(r)'
BY DEF Recorded

\* Up to the main step's end nothing is recorded, but what is to be written has its rows.
LEMMA FirstRecords ==
    ASSUME MemoryInv, RowTypes, NEW r \in Requests, Recorded(r),
           \/ Arrive(r) \/ Admit(r) \/ Route(r) \/ PersistInitial(r) \/ Retrieve(r) \/ MainStep(r)
    PROVE  Recorded(r)'
<1>1. TypeOK /\ Memory(r)
  BY DEF MemoryInv
<1>2. CASE Arrive(r) \/ Admit(r) \/ Route(r)
  <2>1. lost[r] = FALSE /\ lost' = lost
    BY <1>1, <1>2 DEF Memory, Blank, Early, Arrive, Admit, Route
  <2>2. pc'[r] \in Early \union {"persistInitial"}
    BY <1>1, <1>2 DEF TypeOK, Arrive, Admit, Route, Goto, Early
  <2> QED
    BY <2>1, <2>2 DEF Recorded, Early
<1>3. CASE PersistInitial(r)
  <2>1. pc'[r] = "retrieve"
    BY <1>1, <1>3 DEF TypeOK, PersistInitial, Goto
  <2>2. CASE RollBack(r)
    BY <1>1, <2>1, <2>2, LostRecords DEF RollBack, TypeOK, Early
  <2>3. CASE /\ ids' = [ids EXCEPT ![r] = [run |-> TRUE, step |-> TRUE]]
             /\ runRow' = [runRow EXCEPT ![r] =
                  [exists |-> TRUE, status |-> run[r].status, history |-> run[r].history,
                   retries |-> run[r].retries]]
    <3>1. ids'[r].run /\ ids'[r].step /\ runRow'[r].exists
      BY <1>1, <2>3 DEF TypeOK, RowTypes
    <3> QED
      BY <2>1, <3>1 DEF Recorded, Early
  <2> QED
    BY <1>3, <2>2, <2>3 DEF PersistInitial
<1>4. CASE Retrieve(r) \/ MainStep(r)
  <2>1. /\ pc[r] \in {"retrieve", "main"} /\ pc'[r] \in {"main", "persistStep"}
        /\ UNCHANGED <<ids, runRow, stepRows, lost>>
    BY <1>1, <1>4 DEF TypeOK, Retrieve, MainStep, Goto, rows
  <2> QED
    BY <2>1 DEF Recorded, Early, Over
<1> QED
  BY <1>2, <1>3, <1>4

\* The main step's end is recorded with its text.
LEMMA PersistStepRecords ==
    ASSUME MemoryInv, RowsInv, NEW r \in Requests, Recorded(r), PersistStep(r)
    PROVE  Recorded(r)'
<1>1. TypeOK /\ Memory(r) /\ RowTypes /\ Rows(r) /\ pc[r] = "persistStep" /\ pc'[r] = "followUp"
      /\ UNCHANGED <<ids, main>>
  BY DEF MemoryInv, RowsInv, PersistStep, Goto, TypeOK, memory
<1>2. CASE RollBack(r)
  BY <1>1, <1>2, LostRecords DEF RollBack, TypeOK, Early
<1>3. CASE ~(ids[r].run /\ ids[r].step) /\ UNCHANGED lost
  <2>1. lost[r] # FALSE
    BY <1>1, <1>3 DEF Recorded, Early, Over
  <2> QED
    BY <1>1, <1>3, <2>1, LostRecords DEF TypeOK, Early
<1>4. CASE /\ ids[r].run /\ ids[r].step
           /\ stepRows' = [stepRows EXCEPT ![r]["main"] =
                 IF @ # NoStepRow THEN [@ EXCEPT !.status = main[r].status, !.text = "main"] ELSE @]
           /\ runRow' = [runRow EXCEPT ![r] = WithRun(@, run[r], LastEntry(r))]
           /\ UNCHANGED lost
  <2>1. CASE lost[r] = TRUE
    BY <1>1, <1>4, <2>1, LostRecords DEF Early
  <2>2. CASE lost[r] = FALSE
    <3> DEFINE row == WithRun(runRow[r], run[r], LastEntry(r))
               old == stepRows[r]["main"]
    <3>1. runRow[r].exists = TRUE /\ runRow[r] \in RowStates /\ run[r] \in RunStates /\ old \in StepRowStates
      <4>1. runRow[r].exists
        BY <1>1, <2>2 DEF Recorded, Early, Over
      <4> QED
        BY <1>1, <4>1 DEF TypeOK, RowTypes, RowStates
    <3>2. LastEntry(r) = <<MainEntry(r)>> /\ LastEntry(r) \in Seq(StepIds \X Results)
      BY <1>1, LastIs
    <3>3. row.exists = TRUE /\ row.history = runRow[r].history \o LastEntry(r)
      BY <3>1, <3>2, WithRunIs
    <3>4. Recording(old) = <<>> /\ Recording(stepRows[r]["follow"]) = <<>>
      BY <1>1 DEF Rows, Recording, Before, Between, NoStepRow, Results
    <3>5. runRow[r].history = <<>> \o <<>>
      BY <1>1, <3>1, <3>4 DEF Rows
    <3>6. row.history = <<MainEntry(r)>>
      <4> HIDE DEF row
      <4> QED
        BY <3>2, <3>3, <3>5, ConcatEmptySeq, EmptySeq
    <3>7. old # NoStepRow
      BY <1>1, <3>1 DEF Rows, NoStepRow
    <3>8. stepRows'[r]["main"].text = "main"
      BY <1>1, <1>4, <3>1, <3>7 DEF RowTypes, StepRowStates
    <3>9. runRow'[r] = row
      BY <1>1, <1>4 DEF RowTypes
    <3> HIDE DEF row
    <3>10. ids'[r].run /\ ids'[r].step /\ runRow'[r].exists /\ runRow'[r].history = <<MainEntry(r)>>
      BY <1>1, <1>4, <3>3, <3>6, <3>9
    <3>11. MainEntry(r)' = MainEntry(r)
      BY <1>1 DEF MainEntry
    <3> QED
      BY <1>1, <3>8, <3>10, <3>11 DEF Recorded, Early, Over
  <2> QED
    BY <1>1, <2>1, <2>2 DEF TypeOK
<1> QED
  BY <1>2, <1>3, <1>4 DEF PersistStep, Commit

\* The follow-up step is decided and made without the database.
LEMMA FollowRecords ==
    ASSUME TypeOK, NEW r \in Requests, Recorded(r), BeginFollowUp(r) \/ TryAgain(r)
    PROVE  Recorded(r)'
<1>1. /\ pc[r] \in {"followUp", "retrying"} /\ pc'[r] \in {"retrying", "persistFollowUp"}
      /\ UNCHANGED <<ids, runRow, stepRows, lost, main>>
  <2>1. CASE BeginFollowUp(r)
    BY <2>1 DEF TypeOK, BeginFollowUp, Goto, rows
  <2>2. CASE TryAgain(r)
    BY <2>2 DEF TypeOK, TryAgain, Goto, rows
  <2> QED
    BY <2>1, <2>2
<1>2. MainEntry(r)' = MainEntry(r)
  BY <1>1 DEF MainEntry
<1> QED
  BY <1>1, <1>2 DEF Recorded, Early, Over

\* Its end is recorded with the run's status and number of retries.
LEMMA PersistFollowUpRecords ==
    ASSUME MemoryInv, RowsInv, NEW r \in Requests, Recorded(r), PersistFollowUp(r)
    PROVE  Recorded(r)'
<1>1. TypeOK /\ Memory(r) /\ RowTypes /\ pc[r] = "persistFollowUp"
      /\ UNCHANGED <<ids, main, run, attempt, error, output>>
  BY DEF MemoryInv, RowsInv, PersistFollowUp, memory
<1>2. pc'[r] = IF Retried(r) THEN "updateMain" ELSE "complete"
  BY <1>1 DEF TypeOK, PersistFollowUp, Goto
<1>3. pc'[r] \in {"updateMain", "complete"} /\ Retried(r)' = Retried(r)
  BY <1>1, <1>2 DEF Retried
<1>4. CASE RollBack(r)
  BY <1>1, <1>3, <1>4, LostRecords DEF RollBack, TypeOK, Early
<1>5. CASE ~ids[r].run /\ UNCHANGED lost
  <2>1. lost[r] # FALSE
    BY <1>1, <1>5 DEF Recorded, Early, Over
  <2> QED
    BY <1>1, <1>3, <1>5, <2>1, LostRecords DEF TypeOK, Early
<1>6. CASE /\ ids[r].run /\ runRow[r].exists
           /\ stepRows' = [stepRows EXCEPT ![r]["follow"] =
                [key |-> run[r].current, status |-> run[r].history[Len(run[r].history)][2], text |-> "trace"]]
           /\ runRow' = [runRow EXCEPT ![r] = WithRun(@, run[r], LastEntry(r))]
           /\ UNCHANGED lost
  <2>1. CASE lost[r] = TRUE
    BY <1>3, <1>6, <2>1, LostRecords DEF Early
  <2>2. CASE lost[r] = FALSE
    <3> DEFINE row == WithRun(runRow[r], run[r], LastEntry(r))
    <3>1. runRow[r].exists = TRUE /\ runRow[r] \in RowStates /\ run[r] \in RunStates
      BY <1>1, <1>6 DEF TypeOK, RowTypes, RowStates
    <3>2. PICK status \in Results :
            /\ run[r].history = <<MainEntry(r), <<run[r].current, status>>>>
            /\ LastEntry(r) = <<<<run[r].current, status>>>>
            /\ LastEntry(r) \in Seq(StepIds \X Results)
      BY <1>1, LastIs
    <3>3. row.exists = TRUE /\ row.history = runRow[r].history \o LastEntry(r)
          /\ row.status = run[r].status /\ row.retries = run[r].retries
      BY <3>1, <3>2, WithRunIs
    <3>4. runRow[r].history = <<MainEntry(r)>> /\ stepRows[r]["main"].text = "main"
          /\ ids[r].run /\ ids[r].step
      BY <1>1, <2>2 DEF Recorded, Early, Over
    <3>5. runRow'[r] = row /\ stepRows'[r]["main"].text = "main"
      BY <1>1, <1>6, <3>4 DEF RowTypes
    <3> HIDE DEF row
    <3>6. row.history = run[r].history
      <4> DEFINE a == MainEntry(r)
                 b == <<run[r].current, status>>
      <4>1. row.history = <<a>> \o <<b>>
        BY <3>2, <3>3, <3>4
      <4>2. <<a>> \o <<b>> = <<a, b>>
        <5>1. a \in {a, b} /\ b \in {a, b}
          OBVIOUS
        <5>2. <<a>> \in Seq({a, b})
          BY <5>1
        <5> HIDE DEF a, b
        <5>3. Append(<<a>>, b) = <<a>> \o <<b>>
          BY <5>1, <5>2, AppendIsConcat
        <5> QED
          BY <5>3, AppendTwo
      <4> QED
        BY <3>2, <4>1, <4>2
    <3>7. ids'[r].run /\ ids'[r].step /\ runRow'[r].exists /\ runRow'[r].history = run'[r].history
          /\ runRow'[r].status = run'[r].status /\ runRow'[r].retries = run'[r].retries
      BY <1>1, <3>3, <3>4, <3>5, <3>6
    <3> QED
      BY <1>2, <1>3, <3>5, <3>7 DEF Recorded, Early, Over
  <2> QED
    BY <1>1, <2>1, <2>2 DEF TypeOK
<1> QED
  BY <1>4, <1>5, <1>6 DEF PersistFollowUp, Commit

\* The retried text replaces the first.
LEMMA UpdateMainRecords ==
    ASSUME MemoryInv, RowsInv, NEW r \in Requests, Recorded(r), UpdateMain(r)
    PROVE  Recorded(r)'
<1>1. TypeOK /\ Memory(r) /\ RowTypes /\ Rows(r) /\ pc[r] = "updateMain" /\ pc'[r] = "complete"
      /\ UNCHANGED <<ids, main, run, attempt, error, output>>
  BY DEF MemoryInv, RowsInv, UpdateMain, Goto, TypeOK, memory
<1>2. Retried(r) /\ Retried(r)'
  BY <1>1 DEF Memory, Retried
<1>3. CASE RollBack(r)
  BY <1>1, <1>3, LostRecords DEF RollBack, TypeOK, Early
<1>4. CASE ~ids[r].step /\ UNCHANGED lost
  <2>1. lost[r] # FALSE
    BY <1>1, <1>4 DEF Recorded, Early, Over
  <2> QED
    BY <1>1, <1>4, <2>1, LostRecords DEF TypeOK, Early
<1>5. CASE /\ stepRows' = [stepRows EXCEPT ![r]["main"] =
                IF @ # NoStepRow THEN [@ EXCEPT !.text = "retried"] ELSE @]
           /\ UNCHANGED <<lost, runRow>>
  <2>1. CASE lost[r] = TRUE
    BY <1>1, <1>5, <2>1, LostRecords DEF Early
  <2>2. CASE lost[r] = FALSE
    <3>1. runRow[r].exists
      BY <1>1, <2>2 DEF Recorded, Early, Over
    <3>2. stepRows[r]["main"] # NoStepRow
      BY <1>1, <3>1 DEF Rows, NoStepRow
    <3>3. stepRows'[r]["main"].text = "retried"
      BY <1>1, <1>5, <3>2 DEF RowTypes, StepRowStates
    <3> QED
      BY <1>1, <1>2, <1>5, <3>3 DEF Recorded, Early, Over
  <2> QED
    BY <1>1, <2>1, <2>2 DEF TypeOK
<1> QED
  BY <1>3, <1>4, <1>5 DEF UpdateMain, Commit

\* Of a request that has ended nothing more is asked.
LEMMA EndRecords ==
    ASSUME TypeOK, NEW r \in Requests, Complete(r) \/ ReadExpired(r) \/ Uncaught(r) \/ Disconnect(r)
    PROVE  Recorded(r)'
<1>1. pc'[r] \in Over
  BY DEF TypeOK, Complete, ReadExpired, Uncaught, Disconnect, Abort, Goto, Over
<1> QED
  BY <1>1 DEF Recorded, Over, Early

\* Every step keeps the records of every request.
LEMMA RecordSteps == MemoryInv /\ RowsInv /\ RecordedInv /\ [Next]_vars => RecordedInv'
<1> SUFFICES ASSUME MemoryInv, RowsInv, RecordedInv, [Next]_vars PROVE RecordedInv'
  OBVIOUS
<1>1. CASE UNCHANGED vars
  BY <1>1 DEF vars, memory, rows, RecordedInv, Recorded, MainEntry, Retried
<1>2. CASE Next
  <2>1. PICK r \in Requests : Arrive(r) \/ Advance(r) \/ Uncaught(r) \/ Disconnect(r)
    BY <1>2 DEF Next
  <2>2. TypeOK /\ RowTypes /\ Recorded(r)
    BY DEF MemoryInv, RowsInv, RecordedInv
  <2>3. Recorded(r)'
    BY <2>1, <2>2, FirstRecords, PersistStepRecords, FollowRecords, PersistFollowUpRecords,
       UpdateMainRecords, EndRecords DEF Advance
  <2>4. ASSUME NEW q \in Requests \ {r} PROVE Recorded(q)'
    <3>1. Others(r) /\ OtherRows(r)
      BY <2>1, <2>2, Alone
    <3>2. Recorded(q)
      BY DEF RecordedInv
    <3> QED
      BY <3>1, <3>2 DEF Others, OtherRows, Recorded, MainEntry, Retried
  <2> QED
    BY <2>3, <2>4 DEF RecordedInv
<1> QED
  BY <1>1, <1>2

\* A reply that is about to be saved after no write was lost has its run and both steps
\* in the database as they happened, the retry's text in place of the one it replaced.
THEOREM RunRecordsDone == Spec => []DoneIsRecorded
<1>1. Init => RecordedInv
  BY DEF Init, RecordedInv, Recorded, Early, Over
<1>2. MemoryInv /\ RecordedInv => DoneIsRecorded
  <2> SUFFICES ASSUME MemoryInv, RecordedInv, NEW r \in Requests, pc[r] = "complete", ~lost[r]
               PROVE  /\ runRow[r].exists
                      /\ runRow[r].history = run[r].history /\ Len(run[r].history) = 2
                      /\ runRow[r].status = run[r].status /\ runRow[r].retries = run[r].retries
                      /\ stepRows[r]["main"].text = IF Retried(r) THEN "retried" ELSE "main"
    BY DEF DoneIsRecorded
  <2>1. Memory(r) /\ Recorded(r)
    BY DEF MemoryInv, RecordedInv
  <2>2. PICK status \in Results : run[r].history = <<MainEntry(r), <<run[r].current, status>>>>
    BY <2>1 DEF Memory, After
  <2>3. Len(run[r].history) = 2
    BY <2>2
  <2> QED
    BY <2>1, <2>3 DEF Recorded, Early, Over
<1> QED
  BY <1>1, <1>2, MemoryStarts, MemorySteps, RowsStart, RowSteps, RecordSteps, PTL DEF Spec
=============================================================================
