---------------------------- MODULE CallPromise ----------------------------
(***************************************************************************)
(* What a portal promises whoever calls it and the user it asks: a call is *)
(* answered once, with Success only if the user (or the frontend, for      *)
(* calls that show nothing) has agreed, and what the call does to the      *)
(* desktop is done after the user has agreed and not after the answer.     *)
(***************************************************************************)
CONSTANTS Call, Answer, Success

VARIABLES
    agreed, \* calls the user has agreed to
    acted,  \* calls that have changed something on the desktop
    answer  \* answer[c]: what the caller was told, {} if nothing yet

vars == <<agreed, acted, answer>>

Init ==
    /\ agreed = {}
    /\ acted = {}
    /\ answer = [c \in Call |-> {}]

Agree(c) ==
    /\ agreed' = agreed \cup {c}
    /\ UNCHANGED <<acted, answer>>

\* With or without the agreement being given in the same step.
Act(c) ==
    /\ answer[c] = {}
    /\ agreed' = agreed \cup {c}
    /\ acted' = acted \cup {c}
    /\ UNCHANGED answer

Refuse(c, r) ==
    /\ answer[c] = {}
    /\ r # Success
    /\ answer' = [answer EXCEPT ![c] = {r}]
    /\ UNCHANGED <<agreed, acted>>

\* The answer of a call the user has agreed to; it may still go wrong.
Conclude(c, r) ==
    /\ answer[c] = {}
    /\ agreed' = agreed \cup {c}
    /\ acted' \in {acted, acted \cup {c}}
    /\ answer' = [answer EXCEPT ![c] = {r}]

Next ==
    \E c \in Call :
        \/ Agree(c) \/ Act(c)
        \/ \E r \in Answer : Refuse(c, r) \/ Conclude(c, r)

Spec == Init /\ [][Next]_vars

=============================================================================
