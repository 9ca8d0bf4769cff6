------------------------------ MODULE LeaveLife ------------------------------
(****************************************************************************)
(* What a leave request promises, seen from outside                         *)
(* (src/src/leaves/leaves.service.ts): one reviewer's decision, taken once; *)
(* an edit that swaps the open request for a new one in one step; a         *)
(* cancellation from any undecided, returned or approved state; nothing     *)
(* ever reopened.  A leave HR is recording is approved or taken back by the *)
(* call that records it.                                                    *)
(****************************************************************************)
CONSTANT Leaves
VARIABLES
    status,    \* of every request, "NONE" before it exists
    recording  \* the leaves HR is recording

Init ==
    /\ status = [l \in Leaves |-> "NONE"]
    /\ recording = {}

Submit(l) ==
    /\ status[l] = "NONE"
    /\ status' = [status EXCEPT ![l] = "PENDING"]
    /\ UNCHANGED recording

Edit(old, new) ==
    /\ status[old] = "PENDING"
    /\ status[new] = "NONE"
    /\ status' = [status EXCEPT ![old] = "CANCELLED", ![new] = "PENDING"]
    /\ UNCHANGED recording

Decide(l) ==
    /\ status[l] = "PENDING"
    /\ \E d \in {"APPROVED", "REJECTED", "RETURNED"} :
          status' = [status EXCEPT ![l] = d]
    /\ UNCHANGED recording

Withdraw(l) ==
    /\ status[l] \in {"PENDING", "RETURNED", "APPROVED"}
    /\ status' = [status EXCEPT ![l] = "CANCELLED"]
    /\ UNCHANGED recording

Record(l) ==
    /\ status[l] = "NONE"
    /\ status' = [status EXCEPT ![l] = "PENDING"]
    /\ recording' = recording \cup {l}

\* The call may fail after it has approved: it is then still recording.
Approve(l) ==
    /\ l \in recording
    /\ status[l] = "PENDING"
    /\ status' = [status EXCEPT ![l] = "APPROVED"]
    /\ recording' \in {recording, recording \ {l}}

\* Taken back, whatever has happened to it meanwhile.
Retract(l) ==
    /\ l \in recording
    /\ status' = [status EXCEPT ![l] = "CANCELLED"]
    /\ recording' = recording \ {l}

Next ==
    \/ \E l \in Leaves : \/ Submit(l) \/ Decide(l) \/ Withdraw(l)
                         \/ Record(l) \/ Approve(l) \/ Retract(l)
    \/ \E old, new \in Leaves : Edit(old, new)

Spec == Init /\ [][Next]_<<status, recording>>
=============================================================================
