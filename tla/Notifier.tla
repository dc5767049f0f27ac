------------------------------ MODULE Notifier ------------------------------
(***************************************************************************)
(* The notification worker (services/notification-worker): replicas that   *)
(* poll outbox_events, push each event to the devices it concerns and mark *)
(* it PUBLISHED, PENDING again or FAILED.  Every query of a replica is a   *)
(* step of its own: replicas interleave with each other, with devices that *)
(* come and go, with crashes, and with queries that fail.                  *)
(*                                                                         *)
(* An event is named by its place in the order of createdAt, and the       *)
(* accounts it concerns (the customer of the order, the staff who may act  *)
(* on it) are fixed; an event of a type the worker does not know concerns  *)
(* nobody.  The push service is external: it answers a push as sent, as    *)
(* sent to a dead token, or with any other error.  Not modelled: the texts *)
(* of the notifications, and permissions of staff that change meanwhile.   *)
(***************************************************************************)
EXTENDS Integers, FiniteSets

CONSTANTS
    Replicas,       \* the worker processes
    Events,         \* rows of outbox_events, numbered by createdAt
    Devices,        \* rows of device_tokens
    Accounts,       \* customers and staff
    Nobody,         \* the account of a device that is not active
    NoDevice,
    Concerns,       \* [Events -> SUBSET Accounts]
    BatchSize,      \* OUTBOX_BATCH_SIZE
    MAX_RETRIES,
    MaxDisturbances \* how many times a device changes hands, a query fails or a
                    \* replica dies (a bound)

ASSUME NotifierAssumption ==
    /\ Events \subseteq Nat
    /\ Nobody \notin Accounts
    /\ NoDevice \notin Devices
    /\ Concerns \in [Events -> SUBSET Accounts]
    /\ BatchSize \in Nat \ {0}
    /\ MAX_RETRIES \in Nat \ {0}
    /\ MaxDisturbances \in Nat

VARIABLES
    status,         \* outbox_events.status, "NONE" before the insert
    retryCount,     \* outbox_events.retryCount
    note,           \* notifications.status, one row per event and device
    account,        \* device_tokens: the account of an active device
    pc,             \* where each replica is
    claimed,        \* the events it still holds: their retryCount when claimed
    targets,        \* the devices its current event has still to be pushed to
    current,        \* the one it is working on
    anyRetryable,
    disturbances,   \* how many there have been
    reached,        \* history: per event, the devices it was pushed to
    steady          \* history: per event, the devices that have been its
                    \* targets without a break since it was created

dbVars == <<status, retryCount, note, account>>
replicaVars == <<pc, claimed, targets, current, anyRetryable>>
historyVars == <<reached, steady>>
vars == <<dbVars, replicaVars, disturbances, historyVars>>

NotHeld == -1
Outcomes == {"sent", "dead", "transient"}

Held(r) == {e \in Events : claimed[r][e] # NotHeld}

\* Events are processed in the order the claim returned them.
IsCurrent(r, e) == e \in Held(r) /\ \A f \in Held(r) : e <= f

\* The claim's row locks last until its COMMIT.
Locked == UNION {Held(r) : r \in {x \in Replicas : pc[x] = "claiming"}}

Disturb ==
    /\ disturbances < MaxDisturbances
    /\ disturbances' = disturbances + 1

TargetsOf(e) == {d \in Devices : account[d] \in Concerns[e]}

Init ==
    /\ status = [e \in Events |-> "NONE"]
    /\ retryCount = [e \in Events |-> 0]
    /\ note = [e \in Events |-> [d \in Devices |-> "NONE"]]
    /\ account \in [Devices -> Accounts \cup {Nobody}]
    /\ pc = [r \in Replicas |-> "idle"]
    /\ claimed = [r \in Replicas |-> [e \in Events |-> NotHeld]]
    /\ targets = [r \in Replicas |-> {}]
    /\ current = [r \in Replicas |-> NoDevice]
    /\ anyRetryable = [r \in Replicas |-> FALSE]
    /\ disturbances = 0
    /\ reached = [e \in Events |-> {}]
    /\ steady = [e \in Events |-> {}]

-----------------------------------------------------------------------------
(* The API's side: events are appended, devices register and log out.      *)

AppendEvent(e) ==
    /\ status[e] = "NONE"
    /\ status' = [status EXCEPT ![e] = "PENDING"]
    /\ steady' = [steady EXCEPT ![e] = TargetsOf(e)]
    /\ UNCHANGED <<retryCount, note, account, replicaVars, disturbances, reached>>

\* A device changes hands; the history forgets where it is no longer a target.
SetAccount(d, a) ==
    /\ account' = [account EXCEPT ![d] = a]
    /\ steady' = [e \in Events |->
                    IF a \in Concerns[e] THEN steady[e] ELSE steady[e] \ {d}]

Register(d, a) ==
    /\ account[d] # a
    /\ Disturb
    /\ SetAccount(d, a)
    /\ UNCHANGED <<status, retryCount, note, replicaVars, reached>>

Logout(d) ==
    /\ account[d] # Nobody
    /\ Disturb
    /\ SetAccount(d, Nobody)
    /\ UNCHANGED <<status, retryCount, note, replicaVars, reached>>

-----------------------------------------------------------------------------
(* claimPendingEvents: the oldest pending rows no other claim has locked.  *)

Oldest(S, T) ==
    /\ Cardinality(S) <= BatchSize
    /\ \A f \in T \ S : Cardinality(S) = BatchSize /\ \A e \in S : e < f

Claim(r) ==
    LET pending == {e \in Events \ Locked : status[e] = "PENDING"}
    IN  /\ pc[r] = "idle"
        /\ \E S \in SUBSET pending \ {{}} :
            /\ Oldest(S, pending)
            /\ claimed' = [claimed EXCEPT ![r] = [e \in Events |->
                            IF e \in S THEN retryCount[e] ELSE NotHeld]]
        /\ pc' = [pc EXCEPT ![r] = "claiming"]
        /\ UNCHANGED <<dbVars, targets, current, anyRetryable, disturbances, historyVars>>

\* COMMIT releases the locks; the rows are as they were.
CommitClaim(r) ==
    /\ pc[r] = "claiming"
    /\ pc' = [pc EXCEPT ![r] = "resolving"]
    /\ UNCHANGED <<dbVars, claimed, targets, current, anyRetryable, disturbances, historyVars>>

-----------------------------------------------------------------------------
(* processOne                                                              *)

GoTo(r, place) == pc' = [pc EXCEPT ![r] = place]

\* What a replica keeps in memory of the event it works on is dropped.
Drop(r) ==
    /\ targets' = [targets EXCEPT ![r] = {}]
    /\ current' = [current EXCEPT ![r] = NoDevice]
    /\ anyRetryable' = [anyRetryable EXCEPT ![r] = FALSE]

\* On to the next event of the batch, or to sleep until the next poll.
Advance(r, e) ==
    /\ claimed' = [claimed EXCEPT ![r][e] = NotHeld]
    /\ GoTo(r, IF Held(r) = {e} THEN "idle" ELSE "resolving")
    /\ Drop(r)

Resolve(r, e) ==
    /\ pc[r] = "resolving"
    /\ targets' = [targets EXCEPT ![r] = TargetsOf(e)]
    /\ GoTo(r, IF TargetsOf(e) = {} THEN "settling" ELSE "inserting")
    /\ UNCHANGED <<dbVars, claimed, current, anyRetryable, disturbances, historyVars>>

\* The upsert puts a row an earlier attempt left back to PENDING.
InsertNotification(r, e) ==
    /\ pc[r] = "inserting"
    /\ \E d \in targets[r] :
        /\ note' = [note EXCEPT ![e][d] = "PENDING"]
        /\ current' = [current EXCEPT ![r] = d]
    /\ GoTo(r, "sending")
    /\ UNCHANGED <<status, retryCount, account, claimed, targets, anyRetryable,
                   disturbances, historyVars>>

Send(r, e) ==
    /\ pc[r] = "sending"
    /\ \E outcome \in Outcomes :
        /\ GoTo(r, outcome)
        /\ reached' = IF outcome = "sent"
                      THEN [reached EXCEPT ![e] = @ \cup {current[r]}]
                      ELSE reached
    /\ UNCHANGED <<dbVars, claimed, targets, current, anyRetryable, disturbances, steady>>

NextTarget(r) ==
    /\ targets' = [targets EXCEPT ![r] = @ \ {current[r]}]
    /\ current' = [current EXCEPT ![r] = NoDevice]
    /\ GoTo(r, IF targets[r] = {current[r]} THEN "settling" ELSE "inserting")

\* Mutant: only the last target's answer counts.
RecordLastMutant(r, e) ==
    /\ pc[r] \in Outcomes
    /\ note' = [note EXCEPT ![e][current[r]] =
                    IF pc[r] = "sent" THEN "SENT" ELSE "FAILED"]
    /\ anyRetryable' = [anyRetryable EXCEPT ![r] = pc[r] = "transient"]
    /\ IF pc[r] = "dead"
       THEN GoTo(r, "deactivating") /\ UNCHANGED <<targets, current>>
       ELSE NextTarget(r)
    /\ UNCHANGED <<status, retryCount, account, claimed, disturbances, historyVars>>

\* Mutant: an answer that may be retried is taken for a success.
RecordHopefulMutant(r, e) ==
    /\ pc[r] \in Outcomes
    /\ note' = [note EXCEPT ![e][current[r]] =
                    IF pc[r] = "dead" THEN "FAILED" ELSE "SENT"]
    /\ anyRetryable' = [anyRetryable EXCEPT ![r] = @ \/ pc[r] = "transient"]
    /\ IF pc[r] = "dead"
       THEN GoTo(r, "deactivating") /\ UNCHANGED <<targets, current>>
       ELSE NextTarget(r)
    /\ UNCHANGED <<status, retryCount, account, claimed, disturbances, historyVars>>

\* markNotificationSent, or markNotificationFailed and what the error means.
Record(r, e) ==
    /\ pc[r] \in Outcomes
    /\ note' = [note EXCEPT ![e][current[r]] =
                    IF pc[r] = "sent" THEN "SENT" ELSE "FAILED"]
    /\ anyRetryable' = [anyRetryable EXCEPT ![r] = @ \/ pc[r] = "transient"]
    /\ IF pc[r] = "dead"
       THEN GoTo(r, "deactivating") /\ UNCHANGED <<targets, current>>
       ELSE NextTarget(r)
    /\ UNCHANGED <<status, retryCount, account, claimed, disturbances, historyVars>>

DeactivateDeviceToken(r) ==
    /\ pc[r] = "deactivating"
    /\ SetAccount(current[r], Nobody)
    /\ NextTarget(r)
    /\ UNCHANGED <<status, retryCount, note, claimed, anyRetryable, disturbances, reached>>

MarkPublished(e) ==
    /\ status' = [status EXCEPT ![e] = "PUBLISHED"]
    /\ UNCHANGED retryCount

\* Mutant: the retry is not counted.
MarkFailedUncountedMutant(r, e) ==
    /\ status' = [status EXCEPT ![e] =
                    IF claimed[r][e] + 1 >= MAX_RETRIES THEN "FAILED" ELSE "PENDING"]
    /\ UNCHANGED retryCount

\* Decided by the retryCount of the claim, counted on the row's own.
MarkFailed(r, e) ==
    /\ status' = [status EXCEPT ![e] =
                    IF claimed[r][e] + 1 >= MAX_RETRIES THEN "FAILED" ELSE "PENDING"]
    /\ retryCount' = [retryCount EXCEPT ![e] = @ + 1]

\* A query that fails although the database has done its work throws as well.
Settle(r, e) ==
    /\ pc[r] = "settling"
    /\ e \notin Locked
    /\ IF anyRetryable[r] THEN MarkFailed(r, e) ELSE MarkPublished(e)
    /\ \/ Advance(r, e) /\ UNCHANGED disturbances
       \/ /\ Disturb
          /\ GoTo(r, "catching")
          /\ Drop(r)
          /\ UNCHANGED claimed
    /\ UNCHANGED <<note, account, historyVars>>

\* The catch block.
Catch(r, e) ==
    /\ pc[r] = "catching"
    /\ e \notin Locked
    /\ MarkFailed(r, e)
    /\ Advance(r, e)
    /\ UNCHANGED <<note, account, disturbances, historyVars>>

-----------------------------------------------------------------------------
(* What goes wrong.                                                        *)

\* A query throws.  At "sending" it is the insert's, whose answer was lost.
Fault(r, e) ==
    /\ Disturb
    /\ \/ /\ pc[r] \in {"resolving", "inserting", "sending", "deactivating", "settling"} \cup Outcomes
          /\ GoTo(r, "catching")
          /\ Drop(r)
          /\ UNCHANGED claimed
       \/ /\ pc[r] = "catching"
          /\ Advance(r, e)
       \/ /\ pc[r] = "claiming"
          /\ GoTo(r, "idle")
          /\ claimed' = [claimed EXCEPT ![r] = [f \in Events |-> NotHeld]]
          /\ Drop(r)
    /\ UNCHANGED <<dbVars, historyVars>>

\* A replica dies, or is shut down in the middle, and is started again.
Crash(r) ==
    /\ Disturb
    /\ pc[r] # "idle"
    /\ GoTo(r, "idle")
    /\ claimed' = [claimed EXCEPT ![r] = [e \in Events |-> NotHeld]]
    /\ Drop(r)
    /\ UNCHANGED <<dbVars, historyVars>>

-----------------------------------------------------------------------------
Process(r, e) ==
    \/ Resolve(r, e)
    \/ InsertNotification(r, e)
    \/ Send(r, e)
    \/ Record(r, e)
    \/ DeactivateDeviceToken(r)
    \/ Settle(r, e)
    \/ Catch(r, e)

\* The poll loop of main.ts.
Work(r) ==
    \/ Claim(r)
    \/ CommitClaim(r)
    \/ \E e \in Events : IsCurrent(r, e) /\ Process(r, e)

Next ==
    \/ \E e \in Events : AppendEvent(e)
    \/ \E d \in Devices, a \in Accounts : Register(d, a)
    \/ \E d \in Devices : Logout(d)
    \/ \E r \in Replicas : Work(r)
    \/ \E r \in Replicas, e \in Events : IsCurrent(r, e) /\ Fault(r, e)
    \/ \E r \in Replicas : Crash(r)

Spec == Init /\ [][Next]_vars

\* A replica that can go on does: its loop awaits one query after another and
\* polls again.  Nothing makes an event, a device, a fault or a crash come.
FairSpec == Spec /\ \A r \in Replicas : WF_vars(Work(r))

-----------------------------------------------------------------------------
Places == {"idle", "claiming", "resolving", "inserting", "sending",
           "deactivating", "settling", "catching"} \cup Outcomes

\* Every variable has a value of its type, and the bounds hold.
TypeOK ==
    /\ status \in [Events -> {"NONE", "PENDING", "PUBLISHED", "FAILED"}]
    /\ retryCount \in [Events -> Nat]
    /\ note \in [Events -> [Devices -> {"NONE", "PENDING", "SENT", "FAILED"}]]
    /\ account \in [Devices -> Accounts \cup {Nobody}]
    /\ pc \in [Replicas -> Places]
    /\ claimed \in [Replicas -> [Events -> Nat \cup {NotHeld}]]
    /\ targets \in [Replicas -> SUBSET Devices]
    /\ current \in [Replicas -> Devices \cup {NoDevice}]
    /\ anyRetryable \in [Replicas -> BOOLEAN]
    /\ disturbances \in 0..MaxDisturbances
    /\ reached \in [Events -> SUBSET Devices]
    /\ steady \in [Events -> SUBSET Devices]

\* A missed push is never dropped: an event is PUBLISHED only once every
\* device that has been its target ever since it was created has been sent
\* the push, whatever replicas raced, crashed or lost an answer on the way.
PublishedReachedEveryDevice ==
    \A e \in Events : status[e] = "PUBLISHED" => steady[e] \subseteq reached[e]

\* The worker gives an event up only after MAX_RETRIES recorded failures,
\* although it decides by the retryCount it read when it claimed the event.
FailedOnlyAfterMaxRetries ==
    \A e \in Events : status[e] = "FAILED" => retryCount[e] >= MAX_RETRIES

\* The notification history is honest: a row says SENT only of a push that
\* was sent, and every push that was sent has its row, even after a crash.
HistoryIsHonest ==
    \A e \in Events, d \in Devices :
        /\ note[e][d] = "SENT" => d \in reached[e]
        /\ d \in reached[e] => note[e][d] # "NONE"

\* Every event is settled in the end, whatever keeps failing: the retries of
\* an event, and the races that reopen it, come to an end (main.ts: a restart
\* never loses anything).
EventsSettle == \A e \in Events : <>[](status[e] # "PENDING")

\* The replicas together are one outbox: every step of theirs, of the devices and
\* of the faults is a step of Outbox, or none.
Abstract == INSTANCE Outbox WITH
    state <- status, retries <- retryCount, owed <- steady, pushed <- reached,
    MaxRetries <- MAX_RETRIES

ImplementsOutbox == Abstract!Spec
=============================================================================
