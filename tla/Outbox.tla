------------------------------- MODULE Outbox -------------------------------
(***************************************************************************)
(* What the outbox promises of an event, whoever delivers it and however   *)
(* often: it is appended once, pushed at least once to every device that   *)
(* stays registered before it counts as published, and given up only with  *)
(* MaxRetries failures on its row.  It may be marked again after that, by  *)
(* a worker that claimed it before; reopening it costs a retry, so it      *)
(* cannot happen for ever without the row telling.                         *)
(***************************************************************************)
EXTENDS Integers

CONSTANTS Events, Devices, MaxRetries

VARIABLES
    state,      \* per event "NONE", "PENDING", "PUBLISHED" or "FAILED"
    retries,    \* per event the failures counted
    owed,       \* per event the devices it is owed to
    pushed      \* per event the devices it was pushed to

vars == <<state, retries, owed, pushed>>

Init ==
    /\ state = [e \in Events |-> "NONE"]
    /\ retries = [e \in Events |-> 0]
    /\ owed = [e \in Events |-> {}]
    /\ pushed = [e \in Events |-> {}]

Append(e) ==
    /\ state[e] = "NONE"
    /\ state' = [state EXCEPT ![e] = "PENDING"]
    /\ \E D \in SUBSET Devices : owed' = [owed EXCEPT ![e] = D]
    /\ UNCHANGED <<retries, pushed>>

\* Possibly again, and even of an event that is settled.
Push(e, d) ==
    /\ state[e] # "NONE"
    /\ pushed' = [pushed EXCEPT ![e] = @ \cup {d}]
    /\ UNCHANGED <<state, retries, owed>>

\* A device that goes is owed nothing any more of some events.
Release(d, E) ==
    /\ owed' = [e \in Events |-> IF e \in E THEN owed[e] \ {d} ELSE owed[e]]
    /\ UNCHANGED <<state, retries, pushed>>

Publish(e) ==
    /\ state[e] # "NONE"
    /\ owed[e] \subseteq pushed[e]
    /\ state' = [state EXCEPT ![e] = "PUBLISHED"]
    /\ UNCHANGED <<retries, owed, pushed>>

\* A failure is counted; the last one that counts may be the end.
CountFailure(e, next) ==
    /\ state[e] # "NONE"
    /\ next = "FAILED" => retries[e] + 1 >= MaxRetries
    /\ state' = [state EXCEPT ![e] = next]
    /\ retries' = [retries EXCEPT ![e] = @ + 1]
    /\ UNCHANGED <<owed, pushed>>

Next ==
    \/ \E e \in Events :
          \/ Append(e) \/ Publish(e)
          \/ CountFailure(e, "PENDING") \/ CountFailure(e, "FAILED")
          \/ \E d \in Devices : Push(e, d)
    \/ \E d \in Devices, E \in SUBSET Events : Release(d, E)

Spec == Init /\ [][Next]_vars

=============================================================================
