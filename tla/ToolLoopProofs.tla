--------------------------- MODULE ToolLoopProofs ---------------------------
(***************************************************************************)
(* LoopInv for any tasks, faults, retries and rounds.                      *)
(*                                                                         *)
(* Of a file: attempts follow one another, each after the one before has   *)
(* ended, so that at most one can write the row; an attempt that is about  *)
(* to write "ready" has its object; and a card shows a file only when the  *)
(* tool that submitted it has had its last word.  A commit that is done    *)
(* and raises leaves a ready row behind an attempt that goes on.  Of the   *)
(* loop: what was submitted is listed or waited for, and a miss is         *)
(* remembered as a need until the search has been made.                    *)
(***************************************************************************)
EXTENDS ToolLoop, SequenceTheorems, TLAPS

Statuses == {"none", "pending", "generating", "uploading", "ready", "failed"}

Places == {"none", "queued", "render", "announce", "upload", "finish", "raised", "done", "gone"}

Resting == {"none", "done", "gone"}

\* The attempt that wrote the file into the row is over, but for its last word.
FileFrom(t) ==
    \A k \in Attempts : row[t].file = k => work[t][k] \in {"raised", "done", "gone"}

\* Attempts come one after the other.
InTurn(t) ==
    \A k \in Attempts : work[t][k] # "none" => \A j \in Attempts : j < k => work[t][j] = "done"

\* An attempt that has uploaded its object.
HasObject(t) == \A k \in Attempts : work[t][k] = "finish" => k \in stored[t]

\* The tool writes its row, then sends the message.
ToolFirst(t) ==
    /\ tool[t] \in {"idle", "insert"} => row[t].status = "none"
    /\ tool[t] = "publish" => row[t].status = "pending" /\ \A k \in Attempts : work[t][k] = "none"
    /\ row[t].status = "none" => \A k \in Attempts : work[t][k] = "none"
    /\ card[t] # "hidden" => tool[t] = "told"

\* What a row and a card promise of one file: ReadyHasFile and CardKeepsWord for it.
ReadyHas(t) ==
    row[t].status = "ready" =>
        /\ Downloadable(t)
        /\ \A k \in Attempts :
              \/ work[t][k] \in Resting
              \/ Failing(t, "db") /\ k = row[t].file /\ work[t][k] = "raised"
              \/ Failing(t, "db") /\ k > row[t].file /\ work[t][k] \in {"queued", "raised"}

CardKeeps(t) ==
    card[t] = "ready" =>
        /\ row[t].file \in stored[t]
        /\ row[t].status = "ready" \/ MadeAgain(t)

FileInv(t) ==
    /\ InTurn(t)
    /\ HasObject(t)
    /\ ToolFirst(t)
    /\ FileFrom(t)
    /\ ReadyHas(t)
    /\ CardKeeps(t)

ExportInv == ExportTypeOK /\ \A t \in Tasks : FileInv(t)

LoopType ==
    [kind : {"agent", "route"}, tools : SUBSET Names, required : BOOLEAN,
     pc : {"round", "text", "calls", "export", "final", "finish", "enforced", "answered", "failed"},
     round : 0..MaxIterations, calls : Seq(Names), needed : BOOLEAN, used : BOOLEAN,
     forced : BOOLEAN, missed : BOOLEAN,
     content : {"none", "answer", "asks", "error", "sorry"},
     waits : SUBSET Tasks, artifacts : Seq(Tasks)]

\* A call is open only while rounds are left; a miss is remembered as a need until the
\* search is used, and a loop that ends with the need has used up its rounds.
Rounds(l) ==
    /\ l \in LoopType
    /\ Len(l.calls) <= 2
    /\ l.pc \in {"calls", "export"} => l.calls # <<>> /\ l.round < MaxIterations
    /\ l.missed => l.needed \/ l.used
    /\ l.pc \in {"final", "finish"} /\ l.missed /\ "web_search" \in l.tools =>
          l.used \/ l.round = MaxIterations

\* What was submitted is listed or waited for.
NothingForgotten ==
    /\ Submitted = Listed \union loop.waits
    /\ \A t \in Listed : tool[t] = "told"
    /\ \A t, u \in loop.waits : t = u
    /\ loop.pc \notin {"export", "enforced"} => loop.waits = {}

HasRequired == loop.pc = "answered" /\ loop.required /\ loop.content = "answer" => Listed # {}

LoopIInv == ExportInv /\ Rounds(loop) /\ NothingForgotten /\ HasRequired

-----------------------------------------------------------------------------
(* One file.                                                               *)

\* A step that is about one task leaves what is said of the others.
LEMMA OneFile ==
    ASSUME ExportInv, NEW t \in Tasks, ExportTypeOK', FileInv(t)',
           \A u \in Tasks \ {t} :
               /\ tool'[u] = tool[u] /\ row'[u] = row[u] /\ work'[u] = work[u]
               /\ stored'[u] = stored[u] /\ card'[u] = card[u]
    PROVE  ExportInv'
<1>1. ASSUME NEW u \in Tasks, u # t PROVE FileInv(u)'
  <2>1. FileInv(u)
    BY DEF ExportInv
  <2>2. tool'[u] = tool[u] /\ row'[u] = row[u] /\ work'[u] = work[u]
        /\ stored'[u] = stored[u] /\ card'[u] = card[u]
    BY <1>1
  <2> QED
    BY <2>1, <2>2 DEF FileInv, InTurn, HasObject, ToolFirst, FileFrom, ReadyHas, CardKeeps, Downloadable, MadeAgain
<1> QED
  BY <1>1 DEF ExportInv

\* The row of the tool: InsertRow keeps the files in order.
LEMMA InsertRowKeeps == ASSUME ExportInv, NEW t \in Tasks, InsertRow(t) PROVE ExportInv'
<1>1. ExportTypeOK /\ FileInv(t)
  BY DEF ExportInv
<1>2. tool[t] = "insert" /\ row[t].status = "none" /\ \A k \in Attempts : work[t][k] = "none"
  BY <1>1 DEF InsertRow, FileInv, ToolFirst
<1> DEFINE made == [row[t] EXCEPT !.status = "pending"]
<1>4a. made.status = "pending" /\ made \in [status : Statuses, file : Attempts \union {NoFile}]
  BY <1>1 DEF ExportTypeOK, Statuses
<1>5. \/ row' = [row EXCEPT ![t] = made] /\ tool' = [tool EXCEPT ![t] = "publish"]
      \/ row' \in {row, [row EXCEPT ![t] = made]} /\ tool' = [tool EXCEPT ![t] = "mark"]
  BY DEF InsertRow, Written, Unsure
<1>4b. made.file = row[t].file
  BY <1>1 DEF ExportTypeOK
<1> HIDE DEF made
<1>4. \A u \in Tasks \ {t} :
               /\ tool'[u] = tool[u] /\ row'[u] = row[u] /\ work'[u] = work[u]
               /\ stored'[u] = stored[u] /\ card'[u] = card[u]
  BY <1>1, <1>5 DEF InsertRow, ExportTypeOK
<1>5a. /\ row'[t].status \in {"none", "pending"} /\ tool'[t] \in {"publish", "mark"}
       /\ tool'[t] = "publish" => row'[t].status = "pending"
       /\ row'[t].file = row[t].file
  BY <1>1, <1>2, <1>4a, <1>4b, <1>5 DEF ExportTypeOK
<1>5b. ExportTypeOK'
  <2>1. row' \in [Tasks -> [status : Statuses, file : Attempts \union {NoFile}]]
    BY <1>1, <1>4a, <1>5 DEF ExportTypeOK, Statuses
  <2> QED
    BY <1>1, <1>5, <2>1 DEF InsertRow, ExportTypeOK, Statuses
<1>6. FileInv(t)'
  BY <1>1, <1>2, <1>5a
  DEF InsertRow, FileInv, InTurn, HasObject, ToolFirst, FileFrom, ReadyHas, CardKeeps, Downloadable, MadeAgain
<1> QED
  BY <1>4, <1>5b, <1>6, OneFile

\* The message of the tool: the first attempt is queued, or none is.
LEMMA PublishKeeps == ASSUME ExportInv, NEW t \in Tasks, Publish(t) PROVE ExportInv'
<1>1. ExportTypeOK /\ FileInv(t)
  BY DEF ExportInv
<1>2. /\ tool[t] = "publish" /\ row[t].status = "pending" /\ card[t] = "hidden"
      /\ \A k \in Attempts : work[t][k] = "none"
      /\ row' = row /\ stored' = stored /\ card' = card
  BY <1>1 DEF Publish, FileInv, ToolFirst
<1>3. 0 \in Attempts
  BY ExportAssumption DEF Attempts
<1>4. work' \in {work, Queued(t, 0)} /\ tool' \in {[tool EXCEPT ![t] = "told"], [tool EXCEPT ![t] = "mark"]}
  BY DEF Publish
<1>5. Queued(t, 0) = [work EXCEPT ![t] = [work[t] EXCEPT ![0] = "queued"]]
  BY DEF Queued
<1>6. /\ work'[t] \in {work[t], [work[t] EXCEPT ![0] = "queued"]}
      /\ work'[t] \in [Attempts -> Places] /\ tool'[t] \in {"told", "mark"}
      /\ work' = [work EXCEPT ![t] = work'[t]] /\ tool' = [tool EXCEPT ![t] = tool'[t]]
  BY <1>1, <1>3, <1>4, <1>5 DEF ExportTypeOK, Places
<1>6a. ExportTypeOK'
  <2>1. work' \in [Tasks -> [Attempts -> Places]] /\ tool' \in [Tasks -> {"idle", "insert", "publish", "mark", "told"}]
    <3>1. {"told", "mark"} \subseteq {"idle", "insert", "publish", "mark", "told"}
      OBVIOUS
    <3>2. tool' \in [Tasks -> {"idle", "insert", "publish", "mark", "told"}]
      BY <1>1, <1>6, <3>1 DEF ExportTypeOK
    <3>3. work \in [Tasks -> [Attempts -> Places]]
      BY <1>1 DEF ExportTypeOK, Places
    <3> QED
      BY <1>6, <3>2, <3>3
  <2> QED
    BY <1>1, <1>2, <2>1 DEF ExportTypeOK, Places
<1>7. \A u \in Tasks \ {t} :
               /\ tool'[u] = tool[u] /\ row'[u] = row[u] /\ work'[u] = work[u]
               /\ stored'[u] = stored[u] /\ card'[u] = card[u]
  BY <1>1, <1>2, <1>4, <1>5 DEF ExportTypeOK
<1>8. \A k \in Attempts : work'[t][k] = IF k = 0 THEN work'[t][0] ELSE "none"
  BY <1>1, <1>2, <1>3, <1>6 DEF ExportTypeOK
<1>9. work'[t][0] \in {"none", "queued"}
  BY <1>1, <1>2, <1>3, <1>6 DEF ExportTypeOK
<1>10. InTurn(t)' /\ HasObject(t)'
  BY <1>8, <1>9, ExportAssumption DEF InTurn, HasObject, Attempts
<1>11. ToolFirst(t)' /\ ReadyHas(t)' /\ CardKeeps(t)'
  BY <1>2, <1>6 DEF ToolFirst, ReadyHas, CardKeeps
<1>12. FileFrom(t)'
  BY <1>1, <1>2 DEF FileFrom, FileInv
<1> QED
  BY <1>6a, <1>7, <1>10, <1>11, <1>12, OneFile DEF FileInv

\* The mark of the tool changes a row whose card is not there yet.
LEMMA MarkFailedKeeps == ASSUME ExportInv, NEW t \in Tasks, MarkFailed(t) PROVE ExportInv'
<1>1. ExportTypeOK /\ FileInv(t)
  BY DEF ExportInv
<1>2. /\ tool[t] = "mark" /\ card[t] = "hidden" /\ tool' = [tool EXCEPT ![t] = "told"]
      /\ work' = work /\ stored' = stored /\ card' = card
  BY <1>1 DEF MarkFailed, FileInv, ToolFirst
<1> DEFINE marked == [row[t] EXCEPT !.status = IF row[t].status = "none" THEN "none" ELSE "failed"]
<1>3. marked \in [status : Statuses, file : Attempts \union {NoFile}]
  BY <1>1 DEF ExportTypeOK, Statuses
<1>4. /\ marked.status = IF row[t].status = "none" THEN "none" ELSE "failed"
      /\ marked.file = row[t].file
  BY <1>1 DEF ExportTypeOK
<1>5. row' = row \/ row' = [row EXCEPT ![t] = marked]
  BY <1>1 DEF MarkFailed, Written, Unsure, ExportTypeOK
<1> HIDE DEF marked
<1>6. ExportTypeOK' /\ tool'[t] = "told" /\ (row'[t] = row[t] \/ row'[t] = marked)
  <2>1. tool' \in [Tasks -> {"idle", "insert", "publish", "mark", "told"}] /\ tool'[t] = "told"
    BY <1>1, <1>2 DEF ExportTypeOK
  <2>2. row \in [Tasks -> [status : Statuses, file : Attempts \union {NoFile}]]
    BY <1>1 DEF ExportTypeOK, Statuses
  <2>3. /\ row' \in [Tasks -> [status : Statuses, file : Attempts \union {NoFile}]]
        /\ row'[t] = row[t] \/ row'[t] = marked
    BY <1>3, <1>5, <2>2
  <2> QED
    BY <1>1, <1>2, <2>1, <2>3 DEF ExportTypeOK, Statuses
<1>7. \A u \in Tasks \ {t} :
               /\ tool'[u] = tool[u] /\ row'[u] = row[u] /\ work'[u] = work[u]
               /\ stored'[u] = stored[u] /\ card'[u] = card[u]
  BY <1>1, <1>2, <1>5 DEF ExportTypeOK
<1>8. FileInv(t)'
  BY <1>1, <1>2, <1>4, <1>6
  DEF FileInv, InTurn, HasObject, ToolFirst, FileFrom, ReadyHas, CardKeeps, Downloadable, MadeAgain
<1> QED
  BY <1>6, <1>7, <1>8, OneFile

\* An attempt that is under way is the only one, its row is there, and not ready unless
\* it has raised or not begun, the file of the row is of an attempt before it or its
\* own, and the tool has sent its message.
LEMMA UnderWay ==
    ASSUME ExportInv, NEW t \in Tasks, NEW k \in Attempts, work[t][k] \notin Resting
    PROVE  /\ \A j \in Attempts : j < k => work[t][j] = "done"
           /\ \A j \in Attempts : k < j => work[t][j] = "none"
           /\ row[t].status # "none"
           /\ tool[t] \in {"mark", "told"}
           /\ work[t][k] \notin {"queued", "raised"} => row[t].status # "ready"
           /\ row[t].file \in Attempts =>
                 row[t].file < k \/ (row[t].file = k /\ work[t][k] = "raised")
<1>1. ExportTypeOK /\ FileInv(t)
  BY DEF ExportInv
<1>2. work[t][k] # "none" /\ work[t][k] # "done"
  BY DEF Resting
<1>3. \A j \in Attempts : j < k => work[t][j] = "done"
  BY <1>1, <1>2 DEF FileInv, InTurn
<1>4. \A j \in Attempts : k < j => work[t][j] = "none"
  BY <1>1, <1>2 DEF FileInv, InTurn
<1>5. row[t].status # "none"
  BY <1>1, <1>2 DEF FileInv, ToolFirst
<1>6. tool[t] \in {"mark", "told"}
  BY <1>1, <1>2, <1>5 DEF FileInv, ToolFirst, ExportTypeOK
<1>7. work[t][k] \notin {"queued", "raised"} => row[t].status # "ready"
  BY <1>1 DEF FileInv, ReadyHas
<1>8. ASSUME row[t].file \in Attempts
      PROVE  row[t].file < k \/ (row[t].file = k /\ work[t][k] = "raised")
  <2>1. work[t][row[t].file] \in {"raised", "done", "gone"}
    BY <1>1, <1>8 DEF FileInv, FileFrom
  <2>2. ~(k < row[t].file)
    BY <1>4, <1>8, <2>1
  <2>3. row[t].file < k \/ row[t].file = k
    BY <1>8, <2>2, ExportAssumption DEF Attempts
  <2>4. CASE row[t].file < k
    BY <2>4
  <2>5. CASE row[t].file = k
    <3>1. work[t][k] \in {"raised", "done", "gone"}
      BY <2>1, <2>5
    <3>2. work[t][k] = "raised"
      BY <3>1 DEF Resting
    <3> QED
      BY <2>5, <3>2
  <2> QED
    BY <2>3, <2>4, <2>5
<1> QED
  BY <1>3, <1>4, <1>5, <1>6, <1>7, <1>8

\* What a step of an attempt may do to its row: give it a status, the last word being
\* "failed"; leave it, when the attempt raises or ends; or say that the file is ready,
\* at the end of the attempt or where the commit raises.
Speaks(t, k, place, r, objects) ==
    \/ /\ r.status # "ready" /\ r.file = row[t].file
       /\ work[t][k] = "raised" => r.status = "failed" /\ k = MaxRetries
    \/ r = row[t] /\ place \in {"raised", "done", "gone"}
    \/ /\ r.status = "ready" /\ r.file = k /\ k \in objects
       /\ place = "done" \/ (place = "raised" /\ Failing(t, "db"))

\* And to its task: the attempt goes to another place, or its retry is queued, and
\* objects are only added.  "finish" needs the object.
Moves(t, k, place, r, objects) ==
    /\ place \in Places \ {"none", "queued"}
    /\ r \in [status : Statuses \ {"none"}, file : Attempts \union {NoFile}]
    /\ objects \in SUBSET Attempts /\ stored[t] \subseteq objects
    /\ place = "finish" => k \in objects
    /\ work[t][k] = "raised" => place \in {"done", "gone"}
    /\ Speaks(t, k, place, r, objects)
    /\ UNCHANGED <<tool, card>>
    /\ row' = [row EXCEPT ![t] = r]
    /\ stored' = [stored EXCEPT ![t] = objects]
    /\ \/ work' = [work EXCEPT ![t] = [work[t] EXCEPT ![k] = place]]
       \/ /\ place = "done" /\ k < MaxRetries
          /\ work' = [work EXCEPT ![t] = [work[t] EXCEPT ![k] = "done", ![k + 1] = "queued"]]
          /\ work[t][k] = "raised" /\ r = row[t]

\* Such a step keeps the files in order.
LEMMA AttemptKeeps ==
    ASSUME ExportInv, NEW t \in Tasks, NEW k \in Attempts, work[t][k] \notin Resting,
           NEW place, NEW r, NEW objects, Moves(t, k, place, r, objects)
    PROVE  ExportInv'
<1>1. ExportTypeOK /\ FileInv(t)
  BY DEF ExportInv
<1>2. /\ \A j \in Attempts : j < k => work[t][j] = "done"
      /\ \A j \in Attempts : k < j => work[t][j] = "none"
      /\ row[t].status # "none"
      /\ tool[t] \in {"mark", "told"}
      /\ row[t].file \in Attempts =>
            row[t].file < k \/ (row[t].file = k /\ work[t][k] = "raised")
  BY UnderWay
<1>3. k \in Nat /\ \A j \in Attempts : j \in Nat
  BY ExportAssumption DEF Attempts
<1>4. k < MaxRetries => k + 1 \in Attempts
  BY ExportAssumption DEF Attempts
<1>5. tool'[t] = tool[t] /\ card'[t] = card[t] /\ row'[t] = r /\ stored'[t] = objects
  BY <1>1 DEF ExportTypeOK, Moves
<1>6. \/ \A j \in Attempts : work'[t][j] = IF j = k THEN place ELSE work[t][j]
      \/ /\ place = "done" /\ r = row[t] /\ work[t][k] = "raised" /\ k < MaxRetries
         /\ \A j \in Attempts : work'[t][j] = IF j = k THEN "done"
                                              ELSE IF j = k + 1 THEN "queued" ELSE work[t][j]
  <2>1. CASE work' = [work EXCEPT ![t] = [work[t] EXCEPT ![k] = place]]
    BY <1>1, <2>1 DEF ExportTypeOK
  <2>2. CASE /\ place = "done" /\ k < MaxRetries
             /\ work' = [work EXCEPT ![t] = [work[t] EXCEPT ![k] = "done", ![k + 1] = "queued"]]
             /\ work[t][k] = "raised" /\ r = row[t]
    <3>1. k + 1 # k
      BY <1>3
    <3> QED
      BY <1>1, <1>4, <2>2, <3>1 DEF ExportTypeOK
  <2> QED
    BY <2>1, <2>2 DEF Moves
<1>6a. \A j \in Attempts : j < k => work'[t][j] = "done"
  <2>1. \A j \in Attempts : j < k => j # k /\ j # k + 1
    BY <1>3
  <2> QED
    BY <1>2, <1>6, <2>1
<1>6b. work'[t][k] = place
  BY <1>6
<1>6c. \A j \in Attempts : k < j =>
          \/ work'[t][j] = "none"
          \/ j = k + 1 /\ work'[t][j] = "queued" /\ r = row[t] /\ work[t][k] = "raised"
  <2>1. \A j \in Attempts : k < j => j # k
    BY <1>3
  <2> QED
    BY <1>2, <1>6, <2>1
<1>6d. \A j \in Attempts : j < k \/ j = k \/ k < j
  BY <1>3
<1>7. ExportTypeOK'
  <2>1. work'[t] \in [Attempts -> Places]
    <3>1. work[t] \in [Attempts -> Places] /\ work \in [Tasks -> [Attempts -> Places]]
      BY <1>1 DEF ExportTypeOK, Places
    <3>2. place \in Places /\ "done" \in Places /\ "queued" \in Places
      BY DEF Moves, Places
    <3>3. \/ work' = [work EXCEPT ![t] = [work[t] EXCEPT ![k] = place]]
          \/ work' = [work EXCEPT ![t] = [work[t] EXCEPT ![k] = "done", ![k + 1] = "queued"]]
      BY DEF Moves
    <3> QED
      BY <3>1, <3>2, <3>3
  <2>2. work' = [work EXCEPT ![t] = work'[t]]
    BY <1>1 DEF ExportTypeOK, Moves
  <2>3. work' \in [Tasks -> [Attempts -> Places]]
    BY <1>1, <2>1, <2>2 DEF ExportTypeOK, Places
  <2>4. row' \in [Tasks -> [status : Statuses, file : Attempts \union {NoFile}]]
    BY <1>1 DEF ExportTypeOK, Statuses, Moves
  <2> QED
    BY <1>1, <2>3, <2>4 DEF ExportTypeOK, Statuses, Places, Moves
<1>8. \A u \in Tasks \ {t} :
               /\ tool'[u] = tool[u] /\ row'[u] = row[u] /\ work'[u] = work[u]
               /\ stored'[u] = stored[u] /\ card'[u] = card[u]
  BY <1>1 DEF ExportTypeOK, Moves
<1>9. InTurn(t)'
  BY <1>2, <1>3, <1>6 DEF InTurn, Moves
<1>10. HasObject(t)'
  BY <1>1, <1>2, <1>3, <1>5, <1>6 DEF HasObject, FileInv, Moves
<1>11. ToolFirst(t)'
  BY <1>1, <1>2, <1>5 DEF ToolFirst, FileInv, Statuses, Moves
<1>12. FileFrom(t)'
  <2>1. row[t].file = k => place \in {"done", "gone"}
    <3>1. row[t].file = k => work[t][k] = "raised"
      BY <1>2, <1>3
    <3> QED
      BY <3>1 DEF Moves
  <2>2. r.file = row[t].file \/ (r.file = k /\ place \in {"done", "raised"})
    <3>1. Speaks(t, k, place, r, objects)
      BY DEF Moves
    <3>2. r.file = row[t].file \/ (r.file = k /\ (place = "done" \/ place = "raised"))
      BY <3>1, Zenon DEF Speaks
    <3> QED
      BY <3>2
  <2>3. ASSUME NEW j \in Attempts, r.file = j PROVE work'[t][j] \in {"raised", "done", "gone"}
    <3>1. CASE j = k
      BY <1>6b, <2>1, <2>2, <2>3, <3>1
    <3>2. CASE j # k
      <4>1. row[t].file = j
        BY <2>2, <2>3, <3>2
      <4>2. j < k
        BY <1>2, <3>2, <4>1
      <4> QED
        BY <1>6a, <4>2
    <3> QED
      BY <3>1, <3>2
  <2> QED
    BY <1>5, <2>3 DEF FileFrom
<1>13. ReadyHas(t)'
  <2>1. SUFFICES ASSUME r.status = "ready" PROVE ReadyHas(t)'
    BY <1>5 DEF ReadyHas
  <2>2. CASE r = row[t] /\ place \in {"raised", "done", "gone"}
    <3>1a. ReadyHas(t) /\ row[t].status = "ready"
      BY <1>1, <2>1, <2>2 DEF FileInv
    <3>1. /\ Failing(t, "db") /\ row[t].file \in stored[t]
          /\ (k = row[t].file /\ work[t][k] = "raised") \/ k > row[t].file
      BY <3>1a DEF ReadyHas, Downloadable, Resting
    <3>2. k + 1 > row[t].file /\ row[t].file \in Nat
      <4>1. row[t].file \in Attempts
        BY <1>1, <3>1 DEF ExportTypeOK
      <4>2. \A n \in Nat : k = n \/ k > n => k + 1 > n
        BY <1>3
      <4>3. row[t].file \in Nat /\ (k = row[t].file \/ k > row[t].file)
        BY <1>3, <3>1, <4>1
      <4> QED
        BY <4>2, <4>3
    <3>3. ASSUME NEW j \in Attempts \ {k}
          PROVE  work'[t][j] \in Resting \/ (j = k + 1 /\ work'[t][j] = "queued")
      <4>1. CASE j < k
        BY <1>6a, <4>1 DEF Resting
      <4>2. CASE k < j
        BY <1>6c, <4>2 DEF Resting
      <4> QED
        BY <1>6d, <4>1, <4>2
    <3>4. \/ work'[t][k] \in Resting
          \/ k > row[t].file /\ work'[t][k] = "raised"
      BY <1>6b, <2>2, <3>1 DEF Resting, Moves
    <3> QED
      BY <1>5, <2>2, <3>1, <3>2, <3>3, <3>4 DEF ReadyHas, Downloadable, Moves, Failing
  <2>3. CASE r.file = k /\ k \in objects /\ (place = "done" \/ (place = "raised" /\ Failing(t, "db")))
             /\ r # row[t]
    <3>1. \A j \in Attempts \ {k} : work'[t][j] \in Resting
      BY <1>6a, <1>6c, <1>6d, <2>3 DEF Resting
    <3> QED
      BY <1>5, <1>6b, <2>3, <3>1 DEF ReadyHas, Downloadable, Resting, Failing
  <2> QED
    BY <2>1, <2>2, <2>3 DEF Moves, Speaks
<1>14. CardKeeps(t)'
  <2>1. SUFFICES ASSUME card[t] = "ready" PROVE CardKeeps(t)'
    BY <1>5 DEF CardKeeps
  <2>2. row[t].file \in stored[t] /\ (row[t].status = "ready" \/ MadeAgain(t))
    BY <1>1, <2>1 DEF FileInv, CardKeeps
  <2>3. r.file \in objects
    BY <2>2 DEF Moves, Speaks
  <2>4. CASE r = row[t] \/ r.status = "ready"
    <3>1. r.status # "ready" => MadeAgain(t)'
      <4>1. ASSUME row[t].file < MaxRetries, work[t][row[t].file + 1] # "none"
            PROVE  work'[t][row[t].file + 1] # "none"
        <5>1. row[t].file + 1 \in Attempts
          BY <1>1, <2>2, <4>1, ExportAssumption DEF ExportTypeOK, Attempts
        <5> QED
          BY <1>2, <1>6a, <1>6b, <1>6c, <1>6d, <4>1, <5>1 DEF Moves
      <4> QED
        BY <1>5, <2>2, <2>4, <4>1 DEF MadeAgain, Failing
    <3> QED
      BY <1>5, <2>3, <3>1 DEF CardKeeps
  <2>5. CASE /\ r.status # "ready" /\ r.file = row[t].file
             /\ work[t][k] = "raised" => r.status = "failed" /\ k = MaxRetries
    <3>1. row[t].file \in Attempts /\ row[t].file \in Nat /\ MaxRetries \in Nat
      BY <1>1, <1>3, <2>2, ExportAssumption DEF ExportTypeOK
    <3>2. Failing(t, "db")
      BY <1>1, <2>2 DEF MadeAgain, FileInv, ReadyHas, Resting
    <3>3. CASE row[t].file < k
      <4>1. k <= MaxRetries /\ row[t].file < MaxRetries /\ row[t].file + 1 \in Attempts
            /\ (row[t].file + 1 = k \/ row[t].file + 1 < k)
        BY <1>3, <3>1, <3>3 DEF Attempts
      <4>2. work[t][row[t].file + 1] # "none"
        BY <1>2, <4>1 DEF Resting
      <4>3. work'[t][row[t].file + 1] # "none"
        BY <1>6a, <1>6b, <4>1, <4>2 DEF Moves
      <4> QED
        BY <1>5, <2>3, <2>5, <3>2, <4>1, <4>3 DEF CardKeeps, MadeAgain, Failing
    <3>4. CASE row[t].file = k /\ work[t][k] = "raised"
      BY <1>5, <2>3, <2>5, <3>1, <3>2, <3>4 DEF CardKeeps, MadeAgain, Failing
    <3> QED
      BY <1>2, <3>1, <3>3, <3>4
  <2> QED
    BY <2>4, <2>5 DEF Moves, Speaks
<1> QED
  BY <1>7, <1>8, <1>9, <1>10, <1>11, <1>12, <1>13, <1>14, OneFile DEF FileInv

\* Every step of an attempt keeps the files in order.
LEMMA StepsKeep ==
    ASSUME ExportInv, NEW t \in Tasks, NEW k \in Attempts, Attempt(t, k) \/ Die(t, k)
    PROVE  ExportInv'
<1>1. ExportTypeOK /\ FileInv(t)
  BY DEF ExportInv
<1>2. work[t][k] \notin Resting
  BY DEF Attempt, Start, Render, Announce, Upload, Finish, Raised, Report, At, Die, Resting
<1>3. /\ row[t].status # "none" /\ row[t] \in [status : Statuses, file : Attempts \union {NoFile}]
      /\ work[t][k] \notin {"queued", "raised"} => row[t].status # "ready"
  BY <1>1, <1>2, UnderWay DEF ExportTypeOK, Statuses
<1>4. stored[t] \in SUBSET Attempts
  BY <1>1 DEF ExportTypeOK
<1>5. row = [row EXCEPT ![t] = row[t]] /\ stored = [stored EXCEPT ![t] = stored[t]]
  BY <1>1 DEF ExportTypeOK
<1>6. \A status \in Statuses \ {"none"} :
          /\ Said(t, status) \in [status : Statuses \ {"none"}, file : Attempts \union {NoFile}]
          /\ Said(t, status).status = status /\ Said(t, status).file = row[t].file
  BY <1>1, <1>3 DEF Said, ExportTypeOK
<1>7. row[t] \in [status : Statuses \ {"none"}, file : Attempts \union {NoFile}]
  BY <1>3 DEF Statuses
<1>8. \A place : To(t, k, place) => work' = [work EXCEPT ![t] = [work[t] EXCEPT ![k] = place]]
  BY <1>1 DEF To, ExportTypeOK
<1>8a. "none" \notin Statuses \ {"none"} /\ \A status \in {"generating", "uploading", "ready", "failed"} :
           status \in Statuses \ {"none"}
  BY DEF Statuses
<1>8b. row' = row => row' = [row EXCEPT ![t] = row[t]]
  BY <1>1 DEF ExportTypeOK
<1>9. ASSUME NEW place \in {"render", "announce", "upload", "done", "raised", "gone"},
             NEW status \in {"generating", "uploading", "failed"},
             work[t][k] = "raised" =>
                status = "failed" /\ k = MaxRetries /\ place \in {"done", "gone"},
             UNCHANGED <<tool, stored, card>>, Written(t, Said(t, status)), To(t, k, place)
      PROVE  ExportInv'
  <2>1. status \in Statuses \ {"none"} /\ status # "ready"
    BY DEF Statuses
  <2>2. Speaks(t, k, place, Said(t, status), stored[t])
    BY <1>6, <1>9, <2>1 DEF Speaks
  <2>3. Moves(t, k, place, Said(t, status), stored[t])
    BY <1>4, <1>5, <1>6, <1>8, <1>9, <2>1, <2>2 DEF Moves, Places, Written
  <2> QED
    BY <1>2, <2>3, AttemptKeeps
<1>10. ASSUME NEW place \in {"raised", "gone"}, UNCHANGED <<tool, row, stored, card>>, To(t, k, place),
              work[t][k] = "raised" => place = "gone"
       PROVE  ExportInv'
  <2>1. Speaks(t, k, place, row[t], stored[t])
    BY <1>10 DEF Speaks
  <2>2. Moves(t, k, place, row[t], stored[t])
    BY <1>3, <1>4, <1>5, <1>7, <1>8, <1>10, <2>1 DEF Moves, Places
  <2> QED
    BY <1>2, <2>2, AttemptKeeps
<1>11. CASE Start(t, k)
  BY <1>9, <1>10, <1>11 DEF Start, Report, Unsure, At
<1>12. CASE Render(t, k)
  BY <1>9, <1>10, <1>12 DEF Render, At
<1>13. CASE Announce(t, k)
  BY <1>9, <1>10, <1>13 DEF Announce, Report, Unsure, At
<1>14. CASE Upload(t, k)
  <2>1. /\ UNCHANGED <<tool, card>> /\ row' = [row EXCEPT ![t] = row[t]]
        /\ work[t][k] = "upload" /\ row[t].status # "ready"
    BY <1>3, <1>5, <1>14 DEF Upload, At
  <2>2. [stored EXCEPT ![t] = @ \union {k}] = [stored EXCEPT ![t] = stored[t] \union {k}]
    BY <1>1 DEF ExportTypeOK
  <2>3. stored[t] \union {k} \in SUBSET Attempts /\ stored[t] \subseteq stored[t] \union {k}
        /\ k \in stored[t] \union {k}
    BY <1>4
  <2>4. CASE stored' = [stored EXCEPT ![t] = @ \union {k}] /\ To(t, k, "finish")
    <3>1. Moves(t, k, "finish", row[t], stored[t] \union {k})
      BY <1>3, <1>7, <1>8, <2>1, <2>2, <2>3, <2>4 DEF Moves, Speaks, Places
    <3> QED
      BY <1>2, <3>1, AttemptKeeps
  <2>5. CASE stored' \in {stored, [stored EXCEPT ![t] = @ \union {k}]} /\ To(t, k, "raised")
    <3>1. PICK objects \in {stored[t], stored[t] \union {k}} : stored' = [stored EXCEPT ![t] = objects]
      BY <1>5, <2>2, <2>5
    <3>2. Moves(t, k, "raised", row[t], objects)
      BY <1>3, <1>4, <1>7, <1>8, <2>1, <2>3, <2>5, <3>1 DEF Moves, Speaks, Places
    <3> QED
      BY <1>2, <3>2, AttemptKeeps
  <2> QED
    BY <1>14, <2>4, <2>5 DEF Upload
<1>15. CASE Finish(t, k)
  <2>1. k \in stored[t] /\ work[t][k] = "finish"
    BY <1>1, <1>15 DEF Finish, Report, At, FileInv, HasObject
  <2> DEFINE made == [status |-> "ready", file |-> k]
  <2>2. /\ made \in [status : Statuses \ {"none"}, file : Attempts \union {NoFile}]
        /\ made.status = "ready" /\ made.file = k
    BY <1>8a
  <2>3. /\ UNCHANGED <<tool, stored, card>>
        /\ \/ row' = [row EXCEPT ![t] = made] /\ To(t, k, "done")
           \/ /\ Failing(t, "db") /\ To(t, k, "raised")
              /\ row' = [row EXCEPT ![t] = made] \/ UNCHANGED row
    BY <1>15 DEF Finish, Report, Written, Unsure
  <2> HIDE DEF made
  <2>4. ASSUME NEW place \in {"done", "raised"}, row' = [row EXCEPT ![t] = made], To(t, k, place),
               place = "raised" => Failing(t, "db")
        PROVE  ExportInv'
    <3>1. Speaks(t, k, place, made, stored[t])
      <4>1. place = "done" \/ (place = "raised" /\ Failing(t, "db"))
        BY <2>4
      <4> QED
        BY <2>1, <2>2, <4>1, Zenon DEF Speaks
    <3>2. work' = [work EXCEPT ![t] = [work[t] EXCEPT ![k] = place]]
      BY <1>8, <2>4
    <3>3. Moves(t, k, place, made, stored[t])
      BY <1>4, <1>5, <2>1, <2>2, <2>3, <2>4, <3>1, <3>2 DEF Moves, Places
    <3> QED
      BY <1>2, <3>3, AttemptKeeps
  <2> QED
    BY <1>10, <2>1, <2>3, <2>4
<1>16. CASE Raised(t, k)
  <2>1. work[t][k] = "raised" /\ UNCHANGED <<tool, stored, card>>
    BY <1>16 DEF Raised, At
  <2>2. CASE /\ k < MaxRetries
             /\ work' = [work EXCEPT ![t][k] = "done", ![t][k + 1] = "queued"]
             /\ UNCHANGED row
    <3>1. work' = [work EXCEPT ![t] = [work[t] EXCEPT ![k] = "done", ![k + 1] = "queued"]]
      BY <1>1, <2>2 DEF ExportTypeOK
    <3>2. Speaks(t, k, "done", row[t], stored[t])
      BY DEF Speaks
    <3>3. Moves(t, k, "done", row[t], stored[t])
      BY <1>3, <1>4, <1>5, <1>7, <2>1, <2>2, <3>1, <3>2 DEF Moves, Places
    <3> QED
      BY <1>2, <3>3, AttemptKeeps
  <2>3. CASE To(t, k, "gone") /\ UNCHANGED row
    BY <1>10, <2>1, <2>3
  <2>4. CASE k = MaxRetries /\ Written(t, Said(t, "failed")) /\ (To(t, k, "done") \/ To(t, k, "gone"))
    BY <1>9, <2>1, <2>4
  <2> QED
    BY <1>16, <2>2, <2>3, <2>4 DEF Raised, Unsure
<1>17. CASE Die(t, k)
  BY <1>10, <1>17 DEF Die
<1> QED
  BY <1>11, <1>12, <1>13, <1>14, <1>15, <1>16, <1>17 DEF Attempt

\* The page only reads: a card shows "ready" of a row that says so.
LEMMA PageKeeps ==
    ASSUME ExportInv, NEW t \in Tasks, Poll(t) \/ Refocus(t)
    PROVE  ExportInv'
<1>1. ExportTypeOK /\ FileInv(t)
  BY DEF ExportInv
<1>2. /\ tool' = tool /\ row' = row /\ work' = work /\ stored' = stored
      /\ card[t] # "hidden" /\ card' = [card EXCEPT ![t] = Shown(t)]
  BY DEF Poll, Refocus
<1>3. Shown(t) \in {"polling", "ready", "failed", "lost"} /\ (Shown(t) = "ready" => row[t].status = "ready")
  BY DEF Shown
<1>4. ExportTypeOK' /\ card'[t] = Shown(t)
  BY <1>1, <1>2, <1>3 DEF ExportTypeOK
<1>5. \A u \in Tasks \ {t} : card'[u] = card[u]
  BY <1>1, <1>2 DEF ExportTypeOK
<1>6. FileInv(t)'
  BY <1>1, <1>2, <1>3, <1>4
  DEF FileInv, InTurn, HasObject, ToolFirst, FileFrom, ReadyHas, CardKeeps, Downloadable, MadeAgain
<1> QED
  BY <1>2, <1>4, <1>5, <1>6, OneFile

\* Nothing a file goes through while its request waits, or after it, breaks it; what
\* was submitted stays submitted, and a tool that has answered has answered.
LEMMA FileStep ==
    ASSUME ExportInv, ExportStep
    PROVE  /\ ExportInv'
           /\ \A t \in Tasks : /\ tool'[t] = "idle" <=> tool[t] = "idle"
                               /\ tool[t] = "told" => tool'[t] = "told"
<1>1. ExportTypeOK
  BY DEF ExportInv
<1>2. CASE \E t \in Tasks : Tool(t)
  <2>1. PICK t \in Tasks : Tool(t)
    BY <1>2
  <2>2. ExportInv'
    BY <2>1, InsertRowKeeps, PublishKeeps, MarkFailedKeeps DEF Tool
  <2>3. tool[t] \in {"insert", "publish", "mark"}
        /\ \E place \in {"publish", "mark", "told"} : tool' = [tool EXCEPT ![t] = place]
    BY <2>1 DEF Tool, InsertRow, Publish, MarkFailed
  <2> QED
    BY <1>1, <2>2, <2>3 DEF ExportTypeOK
<1>3. CASE \E t \in Tasks : Poll(t) \/ Refocus(t)
  BY <1>3, PageKeeps DEF Poll, Refocus
<1>4. CASE \E t \in Tasks, k \in Attempts : Attempt(t, k) \/ Die(t, k)
  <2>1. PICK t \in Tasks, k \in Attempts : Attempt(t, k) \/ Die(t, k)
    BY <1>4
  <2>2. ExportInv'
    BY <2>1, StepsKeep
  <2>3. tool' = tool
    BY <2>1 DEF Attempt, Start, Render, Announce, Upload, Finish, Raised, Report, Die
  <2> QED
    BY <2>2, <2>3
<1> QED
  BY <1>2, <1>3, <1>4 DEF ExportStep

-----------------------------------------------------------------------------
(* The loop.                                                               *)

\* Called: the round is counted when its last call is done, and a call stays open only
\* with a round to be counted.
LEMMA CalledKeeps ==
    ASSUME NEW l, Rounds(l), l.pc \in {"calls", "export"}
    PROVE  /\ Rounds(Called(l))
           /\ Called(l).pc \in {"round", "calls"}
           /\ Called(l).waits = l.waits /\ Called(l).artifacts = l.artifacts
<1> DEFINE rest  == Tail(l.calls)
           place == IF rest = <<>> THEN "round" ELSE "calls"
           next  == IF rest = <<>> THEN l.round + 1 ELSE l.round
<1>1. l \in LoopType /\ l.calls \in Seq(Names) /\ l.calls # <<>> /\ l.round \in 0..MaxIterations
      /\ l.round < MaxIterations /\ Len(l.calls) <= 2
  BY DEF Rounds, LoopType
<1>2. rest \in Seq(Names) /\ Len(rest) = Len(l.calls) - 1
  BY <1>1
<1>3. next \in 0..MaxIterations /\ (rest # <<>> => next < MaxIterations)
  BY <1>1, LoopAssumption
<1>4. Called(l) = [l EXCEPT !.calls = rest, !.pc = place, !.round = next]
  BY <1>1 DEF Called, LoopType
<1>5. place \in {"round", "calls"} /\ (place = "calls" => rest # <<>>)
  OBVIOUS
<1>6. Len(rest) <= 2
  BY <1>1, <1>2, LenProperties
<1> HIDE DEF rest, next, place
<1> DEFINE m == [l EXCEPT !.calls = rest, !.pc = place, !.round = next]
<1>7. m \in LoopType
  BY <1>1, <1>2, <1>3, <1>5 DEF LoopType
<1>8. /\ m.calls = rest /\ m.pc = place /\ m.round = next /\ m.missed = l.missed
      /\ m.needed = l.needed /\ m.used = l.used /\ m.waits = l.waits /\ m.artifacts = l.artifacts
  BY <1>1 DEF LoopType
<1>9. l.missed => l.needed \/ l.used
  BY DEF Rounds
<1> HIDE DEF m
<1>10. m.pc \in {"round", "calls"} /\ Rounds(m)
  BY <1>3, <1>5, <1>6, <1>7, <1>8, <1>9 DEF Rounds
<1> QED
  BY <1>4, <1>8, <1>10 DEF m

\* A request that has ended keeps its files and the kind of its text.
LEMMA EndedKeeps ==
    ASSUME NEW l, Rounds(l), NEW place \in {"answered", "failed"}
    PROVE  /\ Rounds(Ended(l, place)) /\ Ended(l, place).pc = place
           /\ Ended(l, place).waits = l.waits /\ Ended(l, place).artifacts = l.artifacts
           /\ Ended(l, place).required = l.required /\ Ended(l, place).content = l.content
<1> DEFINE m == [l EXCEPT !.pc = place, !.round = 0, !.needed = FALSE, !.used = FALSE, !.forced = FALSE,
                          !.missed = FALSE, !.tools = {"export"}, !.calls = <<>>]
<1>1. l \in LoopType
  BY DEF Rounds
<1>2. <<>> \in Seq(Names) /\ Len(<<>>) <= 2 /\ 0 \in 0..MaxIterations /\ {"export"} \subseteq Names
  BY EmptySeq, LoopAssumption DEF Names
<1>3. m \in LoopType
  BY <1>1, <1>2 DEF LoopType
<1>4. /\ m.calls = <<>> /\ m.pc = place /\ m.missed = FALSE /\ m.waits = l.waits
      /\ m.artifacts = l.artifacts /\ m.required = l.required /\ m.content = l.content
  BY <1>1 DEF LoopType
<1>5. Ended(l, place) = m
  BY DEF Ended
<1> HIDE DEF m
<1>6. Rounds(m)
  BY <1>2, <1>3, <1>4 DEF Rounds
<1> QED
  BY <1>4, <1>5, <1>6

\* A step that leaves the files and what is listed of them alone.
LEMMA LoopMoves ==
    ASSUME LoopIInv, UNCHANGED exportVars, Rounds(loop'),
           loop'.artifacts = loop.artifacts, loop'.waits = loop.waits,
           loop'.pc \notin {"export", "enforced"} => loop.waits = {},
           HasRequired'
    PROVE  LoopIInv'
<1>1. UNCHANGED <<tool, row, work, stored, card>>
  BY DEF exportVars
<1>2. ExportInv'
  BY <1>1 DEF LoopIInv, ExportInv, ExportTypeOK, FileInv, InTurn, HasObject, ToolFirst, FileFrom,
              ReadyHas, CardKeeps, Downloadable, MadeAgain
<1>3. NothingForgotten'
  BY <1>1 DEF LoopIInv, NothingForgotten, Submitted, Listed
<1> QED
  BY <1>2, <1>3 DEF LoopIInv

\* The forced search is a use, and counts a round.
LEMMA ForceSearchKeeps == ASSUME LoopIInv, ForceSearch PROVE LoopIInv'
<1>1. loop \in LoopType /\ Rounds(loop) /\ loop.pc = "round" /\ loop.round < MaxIterations
  BY DEF LoopIInv, Rounds, ForceSearch
<1> DEFINE m == [loop EXCEPT !.used = TRUE, !.needed = FALSE, !.forced = TRUE, !.round = loop.round + 1]
<1>2. loop.round + 1 \in 0..MaxIterations
  BY <1>1, LoopAssumption DEF LoopType
<1>3. m \in LoopType
  BY <1>1, <1>2 DEF LoopType
<1>4. /\ m.calls = loop.calls /\ m.pc = "round" /\ m.used = TRUE /\ m.waits = loop.waits
      /\ m.artifacts = loop.artifacts
  BY <1>1 DEF LoopType
<1>5. loop' = m /\ UNCHANGED exportVars
  BY DEF ForceSearch
<1> HIDE DEF m
<1>6. Rounds(loop') /\ HasRequired'
  BY <1>1, <1>3, <1>4, <1>5 DEF Rounds, HasRequired
<1>7. loop.waits = {}
  BY <1>1 DEF LoopIInv, NothingForgotten
<1> QED
  BY <1>4, <1>5, <1>6, <1>7, LoopMoves

\* The three answers of the model: a text, calls, or an error.  A text that ends the
\* loop with a miss has had its search.
LEMMA AskModelKeeps == ASSUME LoopIInv, AskModel PROVE LoopIInv'
<1>1. loop \in LoopType /\ Rounds(loop) /\ loop.pc = "round" /\ loop.round < MaxIterations
  BY DEF LoopIInv, Rounds, AskModel
<1>2. loop.waits = {} /\ UNCHANGED exportVars
  BY <1>1 DEF LoopIInv, NothingForgotten, AskModel
<1>3. CASE TextReply
  <2>1. PICK content \in {"answer", "asks", "none"} :
           loop' = IF loop.needed /\ ~loop.used /\ Has("web_search")
                   THEN [loop EXCEPT !.round = @ + 1]
                   ELSE [loop EXCEPT !.content = content,
                                     !.pc = IF content = "none" THEN "final" ELSE "finish"]
    BY <1>3 DEF TextReply
  <2>2. CASE loop.needed /\ ~loop.used /\ Has("web_search")
    <3> DEFINE m == [loop EXCEPT !.round = loop.round + 1]
    <3>1. loop.round + 1 \in 0..MaxIterations
      BY <1>1, LoopAssumption DEF LoopType
    <3>2. m \in LoopType
      BY <1>1, <3>1 DEF LoopType
    <3>3. /\ m.calls = loop.calls /\ m.pc = "round" /\ m.used = loop.used /\ m.waits = loop.waits
          /\ m.artifacts = loop.artifacts /\ m.missed = loop.missed /\ m.needed = loop.needed
      BY <1>1 DEF LoopType
    <3>4. loop' = m
      BY <2>1, <2>2
    <3> HIDE DEF m
    <3>5. Rounds(loop') /\ HasRequired'
      BY <1>1, <3>2, <3>3, <3>4 DEF Rounds, HasRequired
    <3> QED
      BY <1>2, <3>3, <3>4, <3>5, LoopMoves
  <2>3. CASE ~(loop.needed /\ ~loop.used /\ Has("web_search"))
    <3> DEFINE place == IF content = "none" THEN "final" ELSE "finish"
               m == [loop EXCEPT !.content = content, !.pc = place]
    <3>1. place \in {"final", "finish"} /\ loop' = m
      BY <2>1, <2>3
    <3> HIDE DEF place
    <3>2. m \in LoopType
      BY <1>1, <3>1 DEF LoopType
    <3>3. /\ m.calls = loop.calls /\ m.pc = place /\ m.used = loop.used /\ m.waits = loop.waits
          /\ m.artifacts = loop.artifacts /\ m.missed = loop.missed /\ m.needed = loop.needed
          /\ m.tools = loop.tools
      BY <1>1 DEF LoopType
    <3> HIDE DEF m
    <3>4. Rounds(m)
      BY <1>1, <2>3, <3>1, <3>2, <3>3 DEF Rounds, Has
    <3>5. HasRequired'
      BY <3>1, <3>3 DEF HasRequired
    <3> QED
      BY <1>2, <3>1, <3>3, <3>4, <3>5, LoopMoves
  <2> QED
    BY <2>2, <2>3
<1>4. CASE CallsReply
  <2>1. PICK first \in Names, more \in Names \union {"nothing"} :
           loop' = [loop EXCEPT !.pc = "calls",
                       !.calls = IF more = "nothing" THEN <<first>> ELSE <<first, more>>]
    BY <1>4 DEF CallsReply
  <2> DEFINE calls == IF more = "nothing" THEN <<first>> ELSE <<first, more>>
             m == [loop EXCEPT !.pc = "calls", !.calls = calls]
  <2>2. calls \in Seq(Names) /\ calls # <<>> /\ Len(calls) <= 2
    <3>1. CASE more = "nothing"
      BY <3>1
    <3>2. CASE more # "nothing"
      BY <3>2
    <3> QED
      BY <3>1, <3>2
  <2>3. loop' = m
    BY <2>1
  <2> HIDE DEF calls
  <2>4. m \in LoopType
    BY <1>1, <2>2 DEF LoopType
  <2>5. /\ m.calls = calls /\ m.pc = "calls" /\ m.used = loop.used /\ m.waits = loop.waits
        /\ m.artifacts = loop.artifacts /\ m.missed = loop.missed /\ m.needed = loop.needed
        /\ m.round = loop.round
    BY <1>1 DEF LoopType
  <2> HIDE DEF m
  <2>6. Rounds(m)
    BY <1>1, <2>2, <2>4, <2>5 DEF Rounds
  <2>7. HasRequired'
    BY <2>3, <2>5 DEF HasRequired
  <2> QED
    BY <1>2, <2>3, <2>5, <2>6, <2>7, LoopMoves
<1>5. CASE loop' = Ended(loop, "failed")
  <2>1. Rounds(loop') /\ loop'.pc = "failed" /\ loop'.waits = loop.waits /\ loop'.artifacts = loop.artifacts
    BY <1>1, <1>5, EndedKeeps
  <2> QED
    BY <1>2, <2>1, LoopMoves DEF HasRequired
<1> QED
  BY <1>3, <1>4, <1>5 DEF AskModel

\* A call that submits nothing: the record before Called keeps the rounds, the need and
\* what is listed.
LEMMA CallMoves ==
    ASSUME LoopIInv, loop.pc = "calls", UNCHANGED exportVars, NEW m, Rounds(m), m.pc = "calls",
           m.waits = loop.waits, m.artifacts = loop.artifacts, loop' = Called(m)
    PROVE  LoopIInv'
<1>1. /\ Rounds(loop') /\ loop'.pc \in {"round", "calls"}
      /\ loop'.waits = loop.waits /\ loop'.artifacts = loop.artifacts
  BY CalledKeeps
<1>2. loop.waits = {}
  BY DEF LoopIInv, NothingForgotten
<1>3. HasRequired'
  BY <1>1 DEF HasRequired
<1> QED
  BY <1>1, <1>2, <1>3, LoopMoves

\* A miss of the retrieval is a need at once.
LEMMA CallRetrievalKeeps == ASSUME LoopIInv, CallRetrieval PROVE LoopIInv'
<1>1. loop \in LoopType /\ Rounds(loop) /\ loop.pc = "calls" /\ UNCHANGED exportVars
  BY DEF LoopIInv, Rounds, CallRetrieval, Calling
<1>2. PICK miss \in BOOLEAN : loop' = Called([loop EXCEPT !.needed = @ \/ miss, !.missed = @ \/ miss])
  BY DEF CallRetrieval
<1> DEFINE needed == loop.needed \/ miss
           missed == loop.missed \/ miss
           m == [loop EXCEPT !.needed = needed, !.missed = missed]
<1>3. needed \in BOOLEAN /\ missed \in BOOLEAN /\ (missed => needed \/ loop.used)
  BY <1>1 DEF Rounds, LoopType
<1>4. loop' = Called(m)
  BY <1>2
<1> HIDE DEF needed, missed
<1>5. m \in LoopType
  BY <1>1, <1>3 DEF LoopType
<1>6. /\ m.calls = loop.calls /\ m.pc = "calls" /\ m.used = loop.used /\ m.waits = loop.waits
      /\ m.artifacts = loop.artifacts /\ m.missed = missed /\ m.needed = needed
      /\ m.round = loop.round
  BY <1>1 DEF LoopType
<1> HIDE DEF m
<1>7. Rounds(m)
  BY <1>1, <1>3, <1>5, <1>6 DEF Rounds
<1> QED
  BY <1>1, <1>4, <1>6, <1>7, CallMoves

\* A search settles the need.
LEMMA CallSearchKeeps == ASSUME LoopIInv, CallSearch PROVE LoopIInv'
<1>1. loop \in LoopType /\ Rounds(loop) /\ loop.pc = "calls" /\ UNCHANGED exportVars
  BY DEF LoopIInv, Rounds, CallSearch, Calling
<1> DEFINE m == [loop EXCEPT !.used = TRUE, !.needed = FALSE]
<1>2. loop' = Called(m)
  BY DEF CallSearch
<1>3. m \in LoopType
  BY <1>1 DEF LoopType
<1>4. /\ m.calls = loop.calls /\ m.pc = "calls" /\ m.used = TRUE /\ m.waits = loop.waits
      /\ m.artifacts = loop.artifacts /\ m.round = loop.round
  BY <1>1 DEF LoopType
<1> HIDE DEF m
<1>5. Rounds(m)
  BY <1>1, <1>3, <1>4 DEF Rounds
<1> QED
  BY <1>1, <1>2, <1>4, <1>5, CallMoves

\* A new task starts without a row, and the request waits for it.
LEMMA InvokeKeeps ==
    ASSUME LoopIInv, NEW place \in {"export", "enforced"}, Invoke(place), loop.waits = {},
           place = "export" => loop.pc = "calls"
    PROVE  LoopIInv'
<1>1. ExportTypeOK /\ loop \in LoopType /\ Rounds(loop)
  BY DEF LoopIInv, ExportInv, Rounds
<1>2. \E x \in Tasks : tool[x] = "idle"
  BY DEF Invoke, Submitted
<1>3. PICK t \in Tasks : /\ tool[t] = "idle" /\ tool' = [tool EXCEPT ![t] = "insert"]
                         /\ loop' = [loop EXCEPT !.pc = place, !.waits = {t}]
  <2> DEFINE u == CHOOSE x \in Tasks : tool[x] = "idle"
  <2>1. u \in Tasks /\ tool[u] = "idle"
    BY <1>2
  <2>2. tool' = [tool EXCEPT ![u] = "insert"] /\ loop' = [loop EXCEPT !.pc = place, !.waits = {u}]
    BY DEF Invoke
  <2> HIDE DEF u
  <2> QED
    BY <2>1, <2>2
<1> DEFINE m == [loop EXCEPT !.pc = place, !.waits = {t}]
<1>4. tool' = [tool EXCEPT ![t] = "insert"] /\ UNCHANGED <<row, work, stored, card>> /\ loop' = m
  BY <1>3 DEF Invoke
<1>5. m \in LoopType
  BY <1>1, <1>3 DEF LoopType
<1>6. /\ m.calls = loop.calls /\ m.pc = place /\ m.used = loop.used /\ m.waits = {t}
      /\ m.artifacts = loop.artifacts /\ m.missed = loop.missed /\ m.needed = loop.needed
      /\ m.round = loop.round
  BY <1>1 DEF LoopType
<1> HIDE DEF m
<1>7. Rounds(m)
  BY <1>1, <1>5, <1>6 DEF Rounds
<1>8. ExportInv'
  <2>1. ExportTypeOK' /\ tool'[t] = "insert" /\ \A u \in Tasks \ {t} : tool'[u] = tool[u]
    BY <1>1, <1>3, <1>4 DEF ExportTypeOK
  <2>2. FileInv(t)
    BY <1>3 DEF LoopIInv, ExportInv
  <2>3. FileInv(t)'
    BY <1>3, <1>4, <2>1, <2>2
    DEF FileInv, InTurn, HasObject, ToolFirst, FileFrom, ReadyHas, CardKeeps, Downloadable, MadeAgain
  <2> QED
    BY <1>3, <1>4, <2>1, <2>3, OneFile DEF LoopIInv
<1>9. NothingForgotten'
  <2>1. NothingForgotten /\ Submitted = Listed
    BY DEF LoopIInv, NothingForgotten
  <2>2. Listed' = Listed
    BY <1>4, <1>6 DEF Listed
  <2>3. Submitted' = Submitted \union {t}
    BY <1>1, <1>3, <1>4 DEF Submitted, ExportTypeOK
  <2>4. t \notin Listed
    BY <1>3, <2>1 DEF Submitted
  <2>5. \A u \in Listed : u \in Tasks /\ tool'[u] = "told"
    BY <1>1, <1>3, <1>4, <2>1, <2>4 DEF NothingForgotten, Submitted, ExportTypeOK
  <2> QED
    BY <1>4, <1>6, <2>1, <2>2, <2>3, <2>5 DEF NothingForgotten
<1>10. HasRequired'
  BY <1>4, <1>6 DEF HasRequired
<1> QED
  BY <1>4, <1>7, <1>8, <1>9, <1>10 DEF LoopIInv

\* A call of the export submits a task, or is refused for its arguments.
LEMMA CallExportKeeps == ASSUME LoopIInv, CallExport PROVE LoopIInv'
<1>1. Rounds(loop) /\ loop.pc = "calls" /\ loop.waits = {}
  BY DEF LoopIInv, NothingForgotten, CallExport, Calling
<1>2. CASE Invoke("export")
  BY <1>1, <1>2, InvokeKeeps
<1>3. CASE loop' = Called(loop) /\ UNCHANGED exportVars
  BY <1>1, <1>3, CallMoves
<1> QED
  BY <1>2, <1>3 DEF CallExport

\* The answer of the tool moves the task from what is waited for to what is listed.
LEMMA ExportAnswersKeeps == ASSUME LoopIInv, ExportAnswers PROVE LoopIInv'
<1>1. PICK t \in loop.waits :
        /\ loop.pc \in {"export", "enforced"}
        /\ tool[t] = "told"
        /\ LET l == [loop EXCEPT !.waits = {}, !.artifacts = Take(t)]
           IN loop' = IF loop.pc = "export" THEN Called(l) ELSE Ended(l, "answered")
        /\ UNCHANGED exportVars
  BY DEF ExportAnswers
<1>2. loop \in LoopType /\ Rounds(loop) /\ t \in Tasks
  BY <1>1 DEF LoopIInv, Rounds, LoopType
<1> DEFINE taken == Append(loop.artifacts, t)
           l == [loop EXCEPT !.waits = {}, !.artifacts = taken]
<1>3. taken \in Seq(Tasks) /\ {taken[i] : i \in DOMAIN taken} = Listed \union {t}
  <2>1. loop.artifacts \in Seq(Tasks)
    BY <1>2 DEF LoopType
  <2>2. taken \in Seq(Tasks) /\ Len(taken) = Len(loop.artifacts) + 1
        /\ taken[Len(loop.artifacts) + 1] = t
        /\ \A i \in 1..Len(loop.artifacts) : taken[i] = loop.artifacts[i]
    BY <1>2, <2>1
  <2>3. DOMAIN taken = 1..(Len(loop.artifacts) + 1) /\ DOMAIN loop.artifacts = 1..Len(loop.artifacts)
        /\ Len(loop.artifacts) \in Nat
    BY <2>1, <2>2
  <2> HIDE DEF taken
  <2>4. ASSUME NEW x \in {taken[i] : i \in DOMAIN taken} PROVE x \in Listed \union {t}
    BY <2>2, <2>3 DEF Listed
  <2>5. ASSUME NEW x \in Listed \union {t} PROVE x \in {taken[i] : i \in DOMAIN taken}
    BY <2>2, <2>3 DEF Listed
  <2> QED
    BY <2>2, <2>4, <2>5
<1>4. loop' = IF loop.pc = "export" THEN Called(l) ELSE Ended(l, "answered")
  BY <1>1 DEF Take
<1> HIDE DEF taken
<1>5. l \in LoopType
  BY <1>2, <1>3 DEF LoopType
<1>6. /\ l.calls = loop.calls /\ l.pc = loop.pc /\ l.used = loop.used /\ l.waits = {}
      /\ l.artifacts = taken /\ l.missed = loop.missed /\ l.needed = loop.needed
      /\ l.round = loop.round /\ l.tools = loop.tools
  BY <1>2 DEF LoopType
<1> HIDE DEF l
<1>7. Rounds(l)
  BY <1>2, <1>5, <1>6 DEF Rounds
<1>8. Rounds(loop') /\ loop'.waits = {} /\ loop'.artifacts = taken
  <2>1. CASE loop.pc = "export"
    BY <1>4, <1>6, <1>7, <2>1, CalledKeeps
  <2>2. CASE loop.pc # "export"
    BY <1>4, <1>6, <1>7, <2>2, EndedKeeps
  <2> QED
    BY <2>1, <2>2
<1>9. UNCHANGED <<tool, row, work, stored, card>>
  BY <1>1 DEF exportVars
<1>10. ExportInv'
  BY <1>9 DEF LoopIInv, ExportInv, ExportTypeOK, FileInv, InTurn, HasObject, ToolFirst, FileFrom,
              ReadyHas, CardKeeps, Downloadable, MadeAgain
<1>11. Listed' = Listed \union {t}
  BY <1>3, <1>8 DEF Listed
<1>12. NothingForgotten'
  <2>1. Submitted' = Submitted
    BY <1>9 DEF Submitted
  <2>2. Submitted = Listed \union {t} /\ \A u \in Listed : tool[u] = "told"
    <3>1. loop.waits = {t}
      BY <1>1 DEF LoopIInv, NothingForgotten
    <3> QED
      BY <3>1 DEF LoopIInv, NothingForgotten
  <2> QED
    BY <1>1, <1>8, <1>9, <1>11, <2>1, <2>2 DEF NothingForgotten
<1> QED
  BY <1>8, <1>10, <1>11, <1>12 DEF LoopIInv, HasRequired

Placed(l, place, content) == [l EXCEPT !.pc = place, !.content = content]

\* A record that differs in where the request is and in its text keeps the rest.
LEMMA PlaceKeeps ==
    ASSUME NEW l, Rounds(l), NEW place \in {"final", "finish"},
           NEW content \in {"none", "answer", "asks", "error", "sorry"},
           l.missed /\ "web_search" \in l.tools => l.used \/ l.round = MaxIterations
    PROVE  /\ Rounds(Placed(l, place, content)) /\ Placed(l, place, content).pc = place
           /\ Placed(l, place, content).waits = l.waits
           /\ Placed(l, place, content).artifacts = l.artifacts
<1> DEFINE m == [l EXCEPT !.pc = place, !.content = content]
<1>1. l \in LoopType
  BY DEF Rounds
<1>2. m \in LoopType
  BY <1>1 DEF LoopType
<1>3. /\ m.calls = l.calls /\ m.pc = place /\ m.used = l.used /\ m.waits = l.waits
      /\ m.artifacts = l.artifacts /\ m.missed = l.missed /\ m.needed = l.needed
      /\ m.round = l.round /\ m.tools = l.tools
  BY <1>1 DEF LoopType
<1> HIDE DEF m
<1>4. Rounds(m)
  BY <1>2, <1>3 DEF Rounds
<1> QED
  BY <1>3, <1>4 DEF m, Placed

\* The text streamed without tools, when the rounds are used up or the model said nothing.
LEMMA StreamKeeps == ASSUME LoopIInv, Exhausted \/ StreamFinal PROVE LoopIInv'
<1>1. loop \in LoopType /\ Rounds(loop) /\ loop.pc \in {"round", "final"}
  BY DEF LoopIInv, Rounds, Exhausted, StreamFinal
<1>2. loop.waits = {} /\ UNCHANGED exportVars
  BY <1>1 DEF LoopIInv, NothingForgotten, Exhausted, StreamFinal
<1>3. loop.missed /\ "web_search" \in loop.tools => loop.used \/ loop.round = MaxIterations
  BY <1>1 DEF Rounds, Exhausted, StreamFinal
<1>4. \E place \in {"final", "finish"}, content \in {"none", "answer", "asks", "error", "sorry"} :
        loop' = [loop EXCEPT !.pc = place, !.content = content]
  <2>1. CASE Exhausted
    <3>1. loop' = [loop EXCEPT !.pc = "final", !.content = loop.content]
      BY <1>1, <2>1 DEF Exhausted, LoopType
    <3>2. loop.content \in {"none", "answer", "asks", "error", "sorry"}
      BY <1>1 DEF LoopType
    <3> QED
      BY <3>1, <3>2
  <2>2. CASE StreamFinal
    <3>1. PICK content \in {"answer", "asks", "error", "none"} :
            loop' = [loop EXCEPT !.pc = "finish",
                        !.content = IF content = "none" /\ loop.round = MaxIterations
                                    THEN "sorry" ELSE content]
      BY <2>2 DEF StreamFinal
    <3> DEFINE said == IF content = "none" /\ loop.round = MaxIterations THEN "sorry" ELSE content
    <3>2. said \in {"none", "answer", "asks", "error", "sorry"} /\ loop' = [loop EXCEPT !.pc = "finish", !.content = said]
      BY <3>1
    <3> QED
      BY <3>2
  <2> QED
    BY <2>1, <2>2
<1>5. /\ Rounds(loop') /\ loop'.pc \in {"final", "finish"}
      /\ loop'.waits = loop.waits /\ loop'.artifacts = loop.artifacts
  <2>1. PICK place \in {"final", "finish"}, content \in {"none", "answer", "asks", "error", "sorry"} :
          loop' = [loop EXCEPT !.pc = place, !.content = content]
    BY <1>4
  <2>2. loop' = Placed(loop, place, content)
    BY <2>1 DEF Placed
  <2> QED
    BY <1>1, <1>3, <2>2, PlaceKeeps
<1> QED
  BY <1>2, <1>5, LoopMoves DEF HasRequired

\* A request ends without a further file: it lists the one its profile requires, or its
\* text is no answer.
LEMMA EndKeeps ==
    ASSUME LoopIInv, loop.waits = {}, UNCHANGED exportVars, NEW place \in {"answered", "failed"},
           loop' = Ended(loop, place),
           place = "answered" => ~EnforceDue
    PROVE  LoopIInv'
<1>1. /\ Rounds(loop') /\ loop'.pc = place /\ loop'.waits = loop.waits
      /\ loop'.artifacts = loop.artifacts
      /\ loop'.required = loop.required /\ loop'.content = loop.content
  BY EndedKeeps DEF LoopIInv
<1>2. loop.artifacts \in Seq(Tasks)
  BY DEF LoopIInv, Rounds, LoopType
<1>3. loop.artifacts # <<>> => Listed # {}
  <2>1. loop.artifacts # <<>> => 1 \in DOMAIN loop.artifacts
    BY <1>2
  <2> QED
    BY <2>1 DEF Listed
<1>4. HasRequired'
  BY <1>1, <1>3 DEF HasRequired, EnforceDue, Listed
<1> QED
  BY <1>1, <1>4, LoopMoves

\* A card is made of a listed file, whose tool has answered.
LEMMA ShowCardsKeeps == ASSUME LoopIInv, ShowCards PROVE LoopIInv'
<1>1. PICK t \in Listed : card[t] = "hidden" /\ card' = [card EXCEPT ![t] = "polling"]
  BY DEF ShowCards
<1>2. UNCHANGED <<tool, row, work, stored, loop>>
  BY DEF ShowCards
<1>3. ExportTypeOK /\ t \in Tasks /\ tool[t] = "told"
  BY <1>1 DEF LoopIInv, ExportInv, NothingForgotten, Submitted
<1>4. ExportTypeOK' /\ card'[t] = "polling" /\ \A u \in Tasks \ {t} : card'[u] = card[u]
  BY <1>1, <1>2, <1>3 DEF ExportTypeOK
<1>5. FileInv(t)
  BY <1>3 DEF LoopIInv, ExportInv
<1>6. FileInv(t)'
  BY <1>2, <1>3, <1>4, <1>5
  DEF FileInv, InTurn, HasObject, ToolFirst, FileFrom, ReadyHas, CardKeeps, Downloadable, MadeAgain
<1>7. ExportInv'
  BY <1>2, <1>3, <1>4, <1>6, OneFile DEF LoopIInv
<1> QED
  BY <1>2, <1>7 DEF LoopIInv, NothingForgotten, HasRequired, Submitted, Listed

\* The first state: no file, and a loop with all its rounds.
LEMMA LoopStarts == LoopInit => LoopIInv
<1> SUFFICES ASSUME LoopInit PROVE LoopIInv
  OBVIOUS
<1>1. ExportInit /\ NoFile \in Attempts \union {NoFile} /\ NoFile \notin Attempts
  BY ExportAssumption DEF LoopInit, NoFile, Attempts
<1>2. ExportInv
  BY <1>1 DEF ExportInit, ExportInv, ExportTypeOK, FileInv, InTurn, HasObject, ToolFirst, FileFrom,
              ReadyHas, CardKeeps, Downloadable, MadeAgain
<1>3. PICK kind \in {"agent", "route"}, tools \in Registered, required \in BOOLEAN :
          loop = [kind |-> kind, tools |-> tools, required |-> required,
                  pc |-> IF kind = "agent" THEN "round" ELSE "text",
                  round |-> 0, calls |-> <<>>, needed |-> FALSE, used |-> FALSE,
                  forced |-> FALSE, missed |-> FALSE, content |-> "none",
                  waits |-> {}, artifacts |-> <<>>]
  BY DEF LoopInit
<1>4. tools \in SUBSET Names
  BY DEF Registered, Names
<1>5. <<>> \in Seq(Names) /\ <<>> \in Seq(Tasks) /\ Len(<<>>) <= 2 /\ DOMAIN <<>> = {} /\ 0 \in 0..MaxIterations
  BY EmptySeq, LoopAssumption
<1>6. loop \in LoopType
  BY <1>3, <1>4, <1>5 DEF LoopType
<1>7. Rounds(loop)
  BY <1>3, <1>5, <1>6 DEF Rounds
<1>8. Submitted = {} /\ Listed = {} /\ loop.waits = {}
  BY <1>1, <1>3, <1>5 DEF ExportInit, Submitted, Listed
<1> QED
  BY <1>2, <1>3, <1>7, <1>8 DEF LoopIInv, NothingForgotten, HasRequired

\* Every step keeps the inductive invariant.
LEMMA LoopSteps == LoopIInv /\ [LoopNext]_loopVars => LoopIInv'
<1> SUFFICES ASSUME LoopIInv, [LoopNext]_loopVars PROVE LoopIInv'
  OBVIOUS
<1>1. CASE Enforce
  BY <1>1, InvokeKeeps DEF Enforce, LoopIInv, NothingForgotten
<1>2. CASE Answer
  <2>1. loop.waits = {} /\ UNCHANGED exportVars /\ loop' = Ended(loop, "answered") /\ ~EnforceDue
    BY <1>2 DEF Answer, LoopIInv, NothingForgotten
  <2> QED
    BY <2>1, EndKeeps
<1>3. CASE RouteText
  <2>1. loop.waits = {}
    BY <1>3 DEF RouteText, LoopIInv, NothingForgotten
  <2> QED
    BY <1>3, <2>1, InvokeKeeps, EndKeeps DEF RouteText
<1>4. CASE Leave
  <2>1. loop.waits = {} /\ UNCHANGED exportVars /\ loop' = Ended(loop, "failed")
    BY <1>4 DEF Leave, LoopIInv, NothingForgotten
  <2> QED
    BY <2>1, EndKeeps
<1>5. CASE ExportStep /\ UNCHANGED loop
  <2>1. /\ ExportInv'
        /\ \A t \in Tasks : /\ tool'[t] = "idle" <=> tool[t] = "idle"
                            /\ tool[t] = "told" => tool'[t] = "told"
    BY <1>5, FileStep DEF LoopIInv
  <2>2. Submitted' = Submitted /\ Listed' = Listed
    BY <1>5, <2>1 DEF Submitted, Listed
  <2>3. Listed \subseteq Tasks
    BY DEF LoopIInv, NothingForgotten, Submitted
  <2> QED
    BY <1>5, <2>1, <2>2, <2>3 DEF LoopIInv, NothingForgotten, HasRequired
<1>6. CASE UNCHANGED loopVars
  <2>1. UNCHANGED exportVars /\ UNCHANGED loop
    BY <1>6 DEF loopVars, exportVars
  <2> QED
    BY <2>1, LoopMoves DEF LoopIInv, NothingForgotten, HasRequired, Listed
<1> QED
  BY <1>1, <1>2, <1>3, <1>4, <1>5, <1>6, ForceSearchKeeps, AskModelKeeps, CallRetrievalKeeps,
     CallSearchKeeps, CallExportKeeps, ExportAnswersKeeps, StreamKeeps, ShowCardsKeeps
  DEF LoopNext, Advance

\* What the inductive invariant says of a reader of the code.
LEMMA LoopPromise == LoopIInv => LoopInv
<1> SUFFICES ASSUME LoopIInv PROVE LoopInv
  OBVIOUS
<1>1. loop \in LoopType /\ Rounds(loop) /\ NothingForgotten
  BY DEF LoopIInv, Rounds
<1>2. LoopTypeOK
  BY <1>1 DEF LoopIInv, ExportInv, LoopTypeOK, Rounds, NothingForgotten, LoopType
<1>3. ReadyHasFile /\ CardKeepsWord
  BY DEF LoopIInv, ExportInv, FileInv, ReadyHas, CardKeeps, ReadyHasFile, CardKeepsWord, Resting, At
<1>4. SearchAfterMiss
  BY <1>1 DEF Rounds, SearchAfterMiss, Has
<1>5. AnswerListsFiles
  BY <1>1 DEF LoopIInv, NothingForgotten, HasRequired, AnswerListsFiles
<1> QED
  BY <1>2, <1>3, <1>4, <1>5 DEF LoopInv

\* Whatever the model asks for, whatever fails and however often it is retried: a row
\* that says ready names a file that can be downloaded, a card keeps that word, a miss
\* of the knowledge base is followed by a search, and an answer lists its files.
THEOREM LoopSafe == LoopSpec => []LoopInv
<1>1. LoopIInv /\ [LoopNext]_loopVars => LoopIInv'
  BY LoopSteps
<1> QED
  BY <1>1, LoopStarts, LoopPromise, PTL DEF LoopSpec
=============================================================================
