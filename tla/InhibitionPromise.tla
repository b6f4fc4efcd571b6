-------------------------- MODULE InhibitionPromise --------------------------
(***************************************************************************)
(* What an InhibitionRequest or a NotificationInhibition promises the rest *)
(* of the portal: while the object lives nobody lifts what it inhibits,    *)
(* and it inhibits once at most.                                           *)
(***************************************************************************)
CONSTANT Inhibitor

VARIABLES
    wish,       \* wish[i]: "none", then "wanted" while the object lives,
                \* "dropped" from then on
    inhibited,  \* those that inhibit something
    lifted      \* those that did

vars == <<wish, inhibited, lifted>>

Init ==
    /\ wish = [i \in Inhibitor |-> "none"]
    /\ inhibited = {}
    /\ lifted = {}

Want(i) ==
    /\ wish[i] = "none"
    /\ wish' = [wish EXCEPT ![i] = "wanted"]
    /\ UNCHANGED <<inhibited, lifted>>

\* It may still take effect when the object is gone.
TakeEffect(i) ==
    /\ wish[i] # "none"
    /\ i \notin inhibited \cup lifted
    /\ inhibited' = inhibited \cup {i}
    /\ UNCHANGED <<wish, lifted>>

Drop(i) ==
    /\ wish[i] = "wanted"
    /\ wish' = [wish EXCEPT ![i] = "dropped"]
    /\ UNCHANGED <<inhibited, lifted>>

Lift(i) ==
    /\ wish[i] = "dropped"
    /\ i \in inhibited
    /\ inhibited' = inhibited \ {i}
    /\ lifted' = lifted \cup {i}
    /\ UNCHANGED wish

Next == \E i \in Inhibitor : Want(i) \/ TakeEffect(i) \/ Drop(i) \/ Lift(i)

Spec == Init /\ [][Next]_vars

=============================================================================
