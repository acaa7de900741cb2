----------------------------- MODULE Condition -----------------------------
(***************************************************************************)
(* What a condition variable promises its users: waiting threads queue up, *)
(* signal wakes the first of them, broadcast all of them, and a thread     *)
(* that gives up waiting is no longer in the queue.                        *)
(***************************************************************************)
EXTENDS Sequences, SequencesExt

CONSTANT Threads

VARIABLES
    queue,       \* the threads that wait, in the order in which they came
    outcome      \* what the wait of each thread came to

condition == <<queue, outcome>>

Init ==
    /\ queue = <<>>
    /\ outcome = [t \in Threads |-> "none"]

Wait(t) ==
    /\ outcome[t] = "none"
    /\ queue' = Append(queue, t)
    /\ outcome' = [outcome EXCEPT ![t] = "waiting"]

Signal ==
    /\ queue # <<>>
    /\ queue' = Tail(queue)
    /\ outcome' = [outcome EXCEPT ![Head(queue)] = "signalled"]

Broadcast ==
    /\ queue # <<>>
    /\ queue' = <<>>
    /\ outcome' = [t \in Threads |-> IF outcome[t] = "waiting"
                                     THEN "signalled" ELSE outcome[t]]

GiveUp(t) ==
    /\ outcome[t] = "waiting"
    /\ queue' = RemoveFirst(queue, t)
    /\ outcome' = [outcome EXCEPT ![t] = "timeout"]

Return(t) ==
    /\ outcome[t] \in {"signalled", "timeout"}
    /\ outcome' = [outcome EXCEPT ![t] = "none"]
    /\ UNCHANGED queue

Next ==
    \/ Signal
    \/ Broadcast
    \/ \E t \in Threads : Wait(t) \/ GiveUp(t) \/ Return(t)

Spec == Init /\ [][Next]_condition
=============================================================================
