---------------------------- MODULE AnsweredOnce ----------------------------
(***************************************************************************)
(* What a chat platform is promised about a message that has an id: its    *)
(* answer is kept in the history before the platform gets it, the platform *)
(* gets it at most once, and a repeated callback is turned away only when  *)
(* there is an answer to rely on.  PlatformCallback implements this.       *)
(***************************************************************************)
EXTENDS Naturals

CONSTANT Messages    \* messages with an id

VARIABLES
    kept,      \* messages whose answer is settled and kept
    sent,      \* how often the answer of a message reached the platform
    repeated   \* messages of which a repetition was turned away

vars == <<kept, sent, repeated>>

Init ==
    /\ kept = {}
    /\ sent = [m \in Messages |-> 0]
    /\ repeated = {}

\* An answer is settled: it will not be made a second time.
Keep(m) ==
    /\ m \notin kept
    /\ kept' = kept \union {m}
    /\ UNCHANGED <<sent, repeated>>

Send(m) ==
    /\ m \in kept
    /\ sent[m] = 0
    /\ sent' = [sent EXCEPT ![m] = 1]
    /\ UNCHANGED <<kept, repeated>>

TurnAway(m) ==
    /\ m \in kept
    /\ repeated' = repeated \union {m}
    /\ UNCHANGED <<kept, sent>>

Next == \E m \in Messages : Keep(m) \/ Send(m) \/ TurnAway(m)

Spec == Init /\ [][Next]_vars
=============================================================================
