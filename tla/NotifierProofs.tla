--------------------------- MODULE NotifierProofs ---------------------------
(***************************************************************************)
(* Theorems about Notifier, for any number of replicas, events, devices,   *)
(* accounts and disturbances.  The properties rest on what each replica    *)
(* knows of the event it is working on (ReplicaInv) and on the retryCounts *)
(* it claimed being no newer than the table (ClaimInv).                    *)
(***************************************************************************)
EXTENDS Notifier, TLAPS

-----------------------------------------------------------------------------
(* Type correctness.                                                       *)

LEMMA HelperTypes ==
    ASSUME TypeOK, NEW r \in Replicas
    PROVE  /\ Held(r) \in SUBSET Events
           /\ \A e \in Events : TargetsOf(e) \in SUBSET Devices
BY DEF Held, TargetsOf

\* What dropping the current event leaves of a replica's memory.
LEMMA DropTypes ==
    ASSUME TypeOK, NEW r \in Replicas, Drop(r)
    PROVE  /\ targets' \in [Replicas -> SUBSET Devices]
           /\ current' \in [Replicas -> Devices \cup {NoDevice}]
           /\ anyRetryable' \in [Replicas -> BOOLEAN]
BY DEF TypeOK, Drop

LEMMA AdvanceTypes ==
    ASSUME TypeOK, NEW r \in Replicas, NEW e \in Events, Advance(r, e)
    PROVE  /\ claimed' \in [Replicas -> [Events -> Nat \cup {NotHeld}]]
           /\ pc' \in [Replicas -> Places]
           /\ targets' \in [Replicas -> SUBSET Devices]
           /\ current' \in [Replicas -> Devices \cup {NoDevice}]
           /\ anyRetryable' \in [Replicas -> BOOLEAN]
<1>1. claimed' \in [Replicas -> [Events -> Nat \cup {NotHeld}]]
  BY DEF TypeOK, Advance
<1>2. pc' \in [Replicas -> Places]
  BY DEF TypeOK, Advance, GoTo, Places
<1>3. QED
  BY <1>1, <1>2, DropTypes DEF Advance

LEMMA AccountTypes ==
    ASSUME TypeOK, NEW d \in Devices, NEW a \in Accounts \cup {Nobody}, SetAccount(d, a)
    PROVE  /\ account' \in [Devices -> Accounts \cup {Nobody}]
           /\ steady' \in [Events -> SUBSET Devices]
BY DEF TypeOK, SetAccount

LEMMA NextTargetTypes ==
    ASSUME TypeOK, NEW r \in Replicas, NextTarget(r)
    PROVE  /\ targets' \in [Replicas -> SUBSET Devices]
           /\ current' \in [Replicas -> Devices \cup {NoDevice}]
           /\ pc' \in [Replicas -> Places]
BY DEF TypeOK, NextTarget, GoTo, Places

LEMMA MarkTypes ==
    ASSUME TypeOK, NEW r \in Replicas, NEW e \in Events, MarkFailed(r, e) \/ MarkPublished(e)
    PROVE  /\ status' \in [Events -> {"NONE", "PENDING", "PUBLISHED", "FAILED"}]
           /\ retryCount' \in [Events -> Nat]
<1>1. CASE MarkFailed(r, e)
  BY <1>1 DEF TypeOK, MarkFailed
<1>2. CASE MarkPublished(e)
  BY <1>2 DEF TypeOK, MarkPublished
<1>3. QED
  BY <1>1, <1>2

LEMMA DisturbTypes ==
    ASSUME TypeOK, Disturb
    PROVE  disturbances' \in 0..MaxDisturbances
BY NotifierAssumption DEF TypeOK, Disturb

\* A step of the API keeps every variable in its range.
LEMMA ApiTypes ==
    ASSUME TypeOK,
           \/ \E e \in Events : AppendEvent(e)
           \/ \E d \in Devices, a \in Accounts : Register(d, a)
           \/ \E d \in Devices : Logout(d)
    PROVE  TypeOK'
<1>1. ASSUME NEW e \in Events, AppendEvent(e)
      PROVE  TypeOK'
  <2>1. TargetsOf(e) \in SUBSET Devices
    BY DEF TargetsOf
  <2>2. QED
    BY <1>1, <2>1 DEF AppendEvent, TypeOK, replicaVars
<1>2. ASSUME NEW d \in Devices, NEW a \in Accounts, Register(d, a)
      PROVE  TypeOK'
  BY <1>2, AccountTypes, DisturbTypes DEF Register, TypeOK, replicaVars
<1>3. ASSUME NEW d \in Devices, Logout(d)
      PROVE  TypeOK'
  BY <1>3, AccountTypes, DisturbTypes DEF Logout, TypeOK, replicaVars
<1>4. QED
  BY <1>1, <1>2, <1>3

\* A claim keeps every variable in its range.
LEMMA ClaimTypes ==
    ASSUME TypeOK, NEW r \in Replicas, Claim(r) \/ CommitClaim(r)
    PROVE  TypeOK'
<1>1. CASE Claim(r)
  BY <1>1 DEF Claim, TypeOK, dbVars, historyVars, Places
<1>2. CASE CommitClaim(r)
  BY <1>2 DEF CommitClaim, TypeOK, dbVars, historyVars, Places
<1>3. QED
  BY <1>1, <1>2

\* At these places a replica is working on one of its targets.
Targeting == {"sending", "deactivating"} \cup Outcomes

\* A step of processOne keeps every variable in its range.
LEMMA ProcessTypes ==
    ASSUME TypeOK, NEW r \in Replicas, NEW e \in Events, Process(r, e),
           pc[r] \in Targeting => current[r] \in Devices
    PROVE  TypeOK'
<1>1. CASE Resolve(r, e)
  <2>1. TargetsOf(e) \in SUBSET Devices
    BY DEF TargetsOf
  <2>2. QED
    BY <1>1, <2>1 DEF Resolve, GoTo, TypeOK, dbVars, historyVars, Places
<1>2. CASE InsertNotification(r, e)
  <2>1. PICK d \in targets[r] : /\ note' = [note EXCEPT ![e][d] = "PENDING"]
                                /\ current' = [current EXCEPT ![r] = d]
    BY <1>2 DEF InsertNotification
  <2>2. d \in Devices
    BY DEF TypeOK
  <2>3. note' \in [Events -> [Devices -> {"NONE", "PENDING", "SENT", "FAILED"}]]
    BY <2>1, <2>2 DEF TypeOK
  <2>4. QED
    BY <1>2, <2>1, <2>2, <2>3 DEF InsertNotification, GoTo, TypeOK, historyVars, Places
<1>3. CASE Send(r, e)
  <2>1. current[r] \in Devices
    BY <1>3 DEF Send, Targeting
  <2>2. reached' \in [Events -> SUBSET Devices]
    BY <1>3, <2>1 DEF Send, TypeOK
  <2>3. pc' \in [Replicas -> Places]
    BY <1>3 DEF Send, GoTo, TypeOK, Places
  <2>4. QED
    BY <1>3, <2>2, <2>3 DEF Send, TypeOK, dbVars
<1>4. CASE Record(r, e)
  <2>1. current[r] \in Devices
    BY <1>4 DEF Record, Targeting
  <2>2. note' \in [Events -> [Devices -> {"NONE", "PENDING", "SENT", "FAILED"}]]
    BY <1>4, <2>1 DEF Record, TypeOK
  <2>3. anyRetryable' \in [Replicas -> BOOLEAN]
    BY <1>4 DEF Record, TypeOK
  <2>4. CASE pc[r] = "dead"
    BY <1>4, <2>2, <2>3, <2>4 DEF Record, GoTo, TypeOK, historyVars, Places
  <2>5. CASE pc[r] # "dead"
    BY <1>4, <2>2, <2>3, <2>5, NextTargetTypes DEF Record, TypeOK, historyVars
  <2>6. QED
    BY <2>4, <2>5
<1>5. CASE DeactivateDeviceToken(r)
  <2>1. current[r] \in Devices
    BY <1>5 DEF DeactivateDeviceToken, Targeting
  <2>2. QED
    BY <1>5, <2>1, AccountTypes, NextTargetTypes DEF DeactivateDeviceToken, TypeOK
<1>6. CASE Settle(r, e)
  <2>1. MarkFailed(r, e) \/ MarkPublished(e)
    BY <1>6 DEF Settle
  <2>2. CASE Advance(r, e) /\ UNCHANGED disturbances
    BY <1>6, <2>1, <2>2, MarkTypes, AdvanceTypes DEF Settle, TypeOK, historyVars
  <2>3. CASE Disturb /\ GoTo(r, "catching") /\ Drop(r) /\ UNCHANGED claimed
    <3>1. pc' \in [Replicas -> Places]
      BY <2>3 DEF GoTo, TypeOK, Places
    <3>2. QED
      BY <1>6, <2>1, <2>3, <3>1, MarkTypes, DropTypes, DisturbTypes
      DEF Settle, TypeOK, historyVars
  <2>4. QED
    BY <1>6, <2>2, <2>3 DEF Settle
<1>7. CASE Catch(r, e)
  BY <1>7, MarkTypes, AdvanceTypes DEF Catch, TypeOK, historyVars
<1>8. QED
  BY <1>1, <1>2, <1>3, <1>4, <1>5, <1>6, <1>7 DEF Process

\* What goes wrong keeps every variable in its range.
LEMMA MishapTypes ==
    ASSUME TypeOK, NEW r \in Replicas,
           Crash(r) \/ \E e \in Events : Fault(r, e)
    PROVE  TypeOK'
<1>1. CASE Crash(r)
  BY <1>1, DropTypes, DisturbTypes DEF Crash, GoTo, TypeOK, dbVars, historyVars, Places
<1>2. ASSUME NEW e \in Events, Fault(r, e)
      PROVE  TypeOK'
  <2>1. CASE GoTo(r, "catching") /\ Drop(r) /\ UNCHANGED claimed
    BY <1>2, <2>1, DropTypes, DisturbTypes
    DEF Fault, GoTo, TypeOK, dbVars, historyVars, Places
  <2>2. CASE Advance(r, e)
    BY <1>2, <2>2, AdvanceTypes, DisturbTypes DEF Fault, TypeOK, dbVars, historyVars
  <2>3. CASE /\ GoTo(r, "idle") /\ Drop(r)
             /\ claimed' = [claimed EXCEPT ![r] = [f \in Events |-> NotHeld]]
    BY <1>2, <2>3, DropTypes, DisturbTypes
    DEF Fault, GoTo, TypeOK, dbVars, historyVars, Places
  <2>4. QED
    BY <1>2, <2>1, <2>2, <2>3 DEF Fault
<1>3. QED
  BY <1>1, <1>2
-----------------------------------------------------------------------------
(* What a replica knows, and what only ever grows.                         *)

Working == {"inserting", "settling"} \cup Targeting

\* While a replica works on an event: the target it is at has its row, and
\* unless it will retry, every steady device is either still to be pushed to
\* or has been reached.
ReplicaInv(r, e) ==
    IsCurrent(r, e) =>
        /\ pc[r] \in Targeting =>
            /\ current[r] \in Devices
            /\ note[e][current[r]] # "NONE"
        /\ pc[r] = "sent" => current[r] \in reached[e]
        /\ pc[r] = "settling" => targets[r] = {}
        /\ pc[r] \in Working /\ ~ anyRetryable[r] =>
            steady[e] \subseteq targets[r] \cup reached[e]

\* A claimed event exists, and its retryCount may have grown since.
ClaimInv(r, e) ==
    e \in Held(r) => status[e] # "NONE" /\ claimed[r][e] <= retryCount[e]

\* Both for every replica; and a steady device is a target now.
Inv ==
    /\ \A r \in Replicas, e \in Events : ReplicaInv(r, e) /\ ClaimInv(r, e)
    /\ \A e \in Events : steady[e] \subseteq TargetsOf(e)

\* What no step takes back of an event that exists.
Grows(e) ==
    /\ status[e] # "NONE" => status'[e] # "NONE" /\ steady'[e] \subseteq steady[e]
    /\ retryCount[e] <= retryCount'[e]
    /\ reached[e] \subseteq reached'[e]
    /\ \A d \in Devices : note[e][d] # "NONE" => note'[e][d] # "NONE"

LEMMA SetAccountShrinks ==
    ASSUME TypeOK, NEW d \in Devices, NEW a \in Accounts \cup {Nobody}, SetAccount(d, a),
           \A e \in Events : steady[e] \subseteq TargetsOf(e)
    PROVE  \A e \in Events : /\ steady'[e] \subseteq steady[e]
                             /\ steady'[e] \subseteq TargetsOf(e)'
BY DEF SetAccount, TypeOK, TargetsOf

\* Every step of a replica on an event it holds leaves the events growing.
LEMMA ProcessGrows ==
    ASSUME TypeOK, Inv, NEW r \in Replicas, NEW e \in Events, IsCurrent(r, e), Process(r, e)
    PROVE  \A f \in Events : Grows(f) /\ steady'[f] \subseteq TargetsOf(f)'
<1>1. pc[r] \in Targeting => current[r] \in Devices
  BY DEF Inv, ReplicaInv
<1>2. \A f \in Events : retryCount[f] \in Nat /\ steady[f] \subseteq TargetsOf(f)
  BY DEF TypeOK, Inv
<1>3. ASSUME UNCHANGED <<status, retryCount, steady, account>>,
             \A f \in Events : /\ reached[f] \subseteq reached'[f]
                               /\ \A d \in Devices : note[f][d] # "NONE" => note'[f][d] # "NONE"
      PROVE  \A f \in Events : Grows(f) /\ steady'[f] \subseteq TargetsOf(f)'
  BY <1>2, <1>3 DEF Grows, TargetsOf
<1>4. CASE Resolve(r, e)
  BY <1>3, <1>4 DEF Resolve, dbVars, historyVars
<1>5. CASE InsertNotification(r, e)
  <2>1. \A f \in Events, d \in Devices : note[f][d] # "NONE" => note'[f][d] # "NONE"
    BY <1>5 DEF InsertNotification, TypeOK
  <2>2. QED
    BY <1>3, <1>5, <2>1 DEF InsertNotification, historyVars
<1>6. CASE Send(r, e)
  <2>1. \A f \in Events : reached[f] \subseteq reached'[f]
    BY <1>6 DEF Send, TypeOK
  <2>2. QED
    BY <1>3, <1>6, <2>1 DEF Send, dbVars
<1>7. CASE Record(r, e)
  <2>1. \A f \in Events, d \in Devices : note[f][d] # "NONE" => note'[f][d] # "NONE"
    BY <1>7 DEF Record, TypeOK
  <2>2. QED
    BY <1>3, <1>7, <2>1 DEF Record, historyVars
<1>8. CASE DeactivateDeviceToken(r)
  <2>1. current[r] \in Devices /\ SetAccount(current[r], Nobody)
    BY <1>1, <1>8 DEF DeactivateDeviceToken, Targeting
  <2>2. \A f \in Events : steady'[f] \subseteq steady[f] /\ steady'[f] \subseteq TargetsOf(f)'
    BY <1>2, <2>1, SetAccountShrinks
  <2>3. QED
    BY <1>2, <1>8, <2>2 DEF DeactivateDeviceToken, Grows
<1>9. ASSUME MarkFailed(r, e) \/ MarkPublished(e), UNCHANGED <<note, account, historyVars>>
      PROVE  \A f \in Events : Grows(f) /\ steady'[f] \subseteq TargetsOf(f)'
  <2>1. \A f \in Events : status[f] # "NONE" => status'[f] # "NONE"
    BY <1>9 DEF MarkFailed, MarkPublished, TypeOK
  <2>2. \A f \in Events : retryCount[f] <= retryCount'[f]
    <3>1. CASE MarkFailed(r, e)
      BY <1>2, <3>1 DEF MarkFailed, TypeOK
    <3>2. CASE MarkPublished(e)
      BY <1>2, <3>2 DEF MarkPublished
    <3>3. QED
      BY <1>9, <3>1, <3>2
  <2>3. QED
    BY <1>2, <1>9, <2>1, <2>2 DEF Grows, TargetsOf, historyVars
<1>10. CASE Settle(r, e)
  BY <1>9, <1>10 DEF Settle
<1>11. CASE Catch(r, e)
  BY <1>9, <1>11 DEF Catch
<1>12. QED
  BY <1>4, <1>5, <1>6, <1>7, <1>8, <1>10, <1>11 DEF Process

\* So does every other step.
LEMMA OthersGrow ==
    ASSUME TypeOK, Inv,
           \/ \E e \in Events : AppendEvent(e)
           \/ \E d \in Devices, a \in Accounts : Register(d, a)
           \/ \E d \in Devices : Logout(d)
           \/ \E r \in Replicas : Claim(r) \/ CommitClaim(r) \/ Crash(r)
           \/ \E r \in Replicas, e \in Events : Fault(r, e)
           \/ UNCHANGED vars
    PROVE  \A f \in Events : Grows(f) /\ steady'[f] \subseteq TargetsOf(f)'
<1>1. \A f \in Events : retryCount[f] \in Nat /\ steady[f] \subseteq TargetsOf(f)
  BY DEF TypeOK, Inv
<1>2. ASSUME NEW e \in Events, AppendEvent(e)
      PROVE  \A f \in Events : Grows(f) /\ steady'[f] \subseteq TargetsOf(f)'
  BY <1>1, <1>2 DEF AppendEvent, Grows, TargetsOf, TypeOK
<1>3. ASSUME NEW d \in Devices, NEW a \in Accounts \cup {Nobody}, SetAccount(d, a),
             UNCHANGED <<status, retryCount, note, reached>>
      PROVE  \A f \in Events : Grows(f) /\ steady'[f] \subseteq TargetsOf(f)'
  BY <1>1, <1>3, SetAccountShrinks DEF Grows
<1>4. ASSUME UNCHANGED <<dbVars, historyVars>>
      PROVE  \A f \in Events : Grows(f) /\ steady'[f] \subseteq TargetsOf(f)'
  BY <1>1, <1>4 DEF Grows, TargetsOf, dbVars, historyVars
<1>5. ASSUME NEW d \in Devices, NEW a \in Accounts, Register(d, a)
      PROVE  \A f \in Events : Grows(f) /\ steady'[f] \subseteq TargetsOf(f)'
  BY <1>3, <1>5 DEF Register
<1>6. ASSUME NEW d \in Devices, Logout(d)
      PROVE  \A f \in Events : Grows(f) /\ steady'[f] \subseteq TargetsOf(f)'
  BY <1>3, <1>6 DEF Logout
<1>7. ASSUME NEW r \in Replicas,
             Claim(r) \/ CommitClaim(r) \/ Crash(r) \/ \E e \in Events : Fault(r, e)
      PROVE  \A f \in Events : Grows(f) /\ steady'[f] \subseteq TargetsOf(f)'
  BY <1>4, <1>7 DEF Claim, CommitClaim, Crash, Fault
<1>8. CASE UNCHANGED vars
  BY <1>4, <1>8 DEF vars
<1>9. QED
  BY <1>2, <1>5, <1>6, <1>7, <1>8

-----------------------------------------------------------------------------
(* Every step keeps what the replicas know.                                *)

\* A replica holds at most one current event.
LEMMA OneCurrent ==
    ASSUME TypeOK, NEW r \in Replicas, NEW e \in Events, NEW f \in Events,
           IsCurrent(r, e), IsCurrent(r, f)
    PROVE  e = f
<1>1. e \in Nat /\ f \in Nat /\ e <= f /\ f <= e
  BY NotifierAssumption DEF IsCurrent, Held
<1>2. QED
  BY <1>1

\* What replica r has in memory is left alone by a step of another.
SameMemory(r) ==
    /\ pc'[r] = pc[r]
    /\ claimed'[r] = claimed[r]
    /\ targets'[r] = targets[r]
    /\ current'[r] = current[r]
    /\ anyRetryable'[r] = anyRetryable[r]

LEMMA SameKeeps ==
    ASSUME TypeOK, TypeOK', Inv, NEW r \in Replicas, NEW e \in Events,
           SameMemory(r), Grows(e)
    PROVE  ReplicaInv(r, e)' /\ ClaimInv(r, e)'
<1>1. Held(r)' = Held(r) /\ (IsCurrent(r, e)' <=> IsCurrent(r, e))
  BY DEF SameMemory, Held, IsCurrent
<1>2. ReplicaInv(r, e) /\ ClaimInv(r, e)
  BY DEF Inv
<1>3. /\ claimed[r][e] \in Nat \cup {NotHeld}
      /\ retryCount[e] \in Nat
  BY DEF TypeOK
<1>4. ClaimInv(r, e)'
  <2>1. SUFFICES ASSUME e \in Held(r)
                 PROVE  status'[e] # "NONE" /\ claimed'[r][e] <= retryCount'[e]
    BY <1>1 DEF ClaimInv
  <2>2. status[e] # "NONE" /\ claimed[r][e] <= retryCount[e] /\ claimed[r][e] \in Nat
    BY <1>2, <1>3, <2>1 DEF ClaimInv, Held
  <2>3. retryCount[e] <= retryCount'[e] /\ retryCount[e] \in Nat /\ retryCount'[e] \in Nat
    BY DEF Grows, TypeOK
  <2>4. QED
    BY <2>2, <2>3 DEF SameMemory, Grows
<1>5. ReplicaInv(r, e)'
  <2>1. CASE ~ IsCurrent(r, e)
    BY <1>1, <2>1 DEF ReplicaInv
  <2>2. CASE IsCurrent(r, e)
    <3>1. status[e] # "NONE"
      BY <1>2, <2>2 DEF ClaimInv, IsCurrent
    <3>2. steady'[e] \subseteq steady[e] /\ reached[e] \subseteq reached'[e]
      BY <3>1 DEF Grows
    <3>3. QED
      BY <1>2, <2>2, <3>2 DEF ReplicaInv, SameMemory, Grows
  <2>3. QED
    BY <2>1, <2>2
<1>6. QED
  BY <1>4, <1>5

\* A replica that is not working on a target owes nothing to its event.
LEMMA NotWorking ==
    ASSUME NEW r \in Replicas, NEW e \in Events, pc'[r] \notin Working
    PROVE  ReplicaInv(r, e)'
BY DEF ReplicaInv, Working, Targeting, Outcomes

\* Letting go of events keeps the claims of the others.
LEMMA ReleaseKeeps ==
    ASSUME TypeOK, TypeOK', Inv, NEW r \in Replicas, NEW e \in Events, Grows(e),
           claimed'[r][e] \in {claimed[r][e], NotHeld}
    PROVE  ClaimInv(r, e)'
<1>1. SUFFICES ASSUME claimed'[r][e] # NotHeld
               PROVE  status'[e] # "NONE" /\ claimed'[r][e] <= retryCount'[e]
  BY DEF ClaimInv, Held
<1>2. /\ claimed[r][e] \in Nat /\ claimed'[r][e] = claimed[r][e]
      /\ retryCount[e] \in Nat /\ retryCount'[e] \in Nat
  BY <1>1 DEF TypeOK
<1>3. status[e] # "NONE" /\ claimed[r][e] <= retryCount[e]
  BY <1>1 DEF Inv, ClaimInv, Held
<1>4. QED
  BY <1>2, <1>3 DEF Grows

LEMMA AdvanceKeeps ==
    ASSUME TypeOK, TypeOK', Inv, NEW r \in Replicas, NEW e \in Events, Advance(r, e),
           \A f \in Events : Grows(f)
    PROVE  \A f \in Events : ReplicaInv(r, f)' /\ ClaimInv(r, f)'
<1>1. pc'[r] \notin Working
  BY DEF Advance, GoTo, TypeOK, Working, Targeting, Outcomes
<1>2. \A f \in Events : claimed'[r][f] \in {claimed[r][f], NotHeld}
  BY DEF Advance, TypeOK
<1>3. QED
  BY <1>1, <1>2, NotWorking, ReleaseKeeps

\* A step of processOne keeps what its replica knows.
LEMMA ProcessKeeps ==
    ASSUME TypeOK, TypeOK', Inv, NEW r \in Replicas, NEW e \in Events, IsCurrent(r, e),
           Process(r, e), \A f \in Events : Grows(f)
    PROVE  \A f \in Events : ReplicaInv(r, f)' /\ ClaimInv(r, f)'
<1> USE DEF Working, Targeting, Outcomes
<1>1. /\ status[e] # "NONE" /\ ReplicaInv(r, e)
      /\ steady[e] \subseteq TargetsOf(e)
  BY DEF Inv, ClaimInv, IsCurrent
<1>2. steady'[e] \subseteq steady[e] /\ reached[e] \subseteq reached'[e]
  BY <1>1 DEF Grows
<1>3. ASSUME UNCHANGED claimed,
             /\ pc'[r] \in Targeting =>
                 /\ current'[r] \in Devices
                 /\ note'[e][current'[r]] # "NONE"
             /\ pc'[r] = "sent" => current'[r] \in reached'[e]
             /\ pc'[r] = "settling" => targets'[r] = {}
             /\ pc'[r] \in Working /\ ~ anyRetryable'[r] =>
                 steady'[e] \subseteq targets'[r] \cup reached'[e]
      PROVE  \A f \in Events : ReplicaInv(r, f)' /\ ClaimInv(r, f)'
  <2>1. ASSUME NEW f \in Events
        PROVE  ReplicaInv(r, f)' /\ ClaimInv(r, f)'
    <3>1. IsCurrent(r, f)' => f = e
      <4>1. IsCurrent(r, f)' <=> IsCurrent(r, f)
        BY <1>3 DEF IsCurrent, Held
      <4>2. QED
        BY <4>1, OneCurrent
    <3>2. ReplicaInv(r, f)'
      BY <1>3, <3>1 DEF ReplicaInv
    <3>3. ClaimInv(r, f)'
      BY <1>3, ReleaseKeeps
    <3>4. QED
      BY <3>2, <3>3
  <2>2. QED
    BY <2>1
<1>4. CASE Resolve(r, e)
  <2>1. /\ pc'[r] = IF TargetsOf(e) = {} THEN "settling" ELSE "inserting"
        /\ targets'[r] = TargetsOf(e)
        /\ UNCHANGED claimed
    BY <1>4 DEF Resolve, GoTo, TypeOK
  <2>2. QED
    BY <1>1, <1>2, <1>3, <2>1
<1>5. CASE InsertNotification(r, e)
  <2>1. PICK d \in targets[r] : /\ note' = [note EXCEPT ![e][d] = "PENDING"]
                                /\ current' = [current EXCEPT ![r] = d]
    BY <1>5 DEF InsertNotification
  <2>2. /\ d \in Devices /\ current'[r] = d /\ note'[e][d] = "PENDING"
        /\ pc[r] = "inserting" /\ pc'[r] = "sending"
        /\ UNCHANGED <<claimed, targets, anyRetryable>>
    BY <1>5, <2>1 DEF InsertNotification, GoTo, TypeOK
  <2>3. ~ anyRetryable[r] => steady[e] \subseteq targets[r] \cup reached[e]
    BY <1>1, <2>2 DEF ReplicaInv
  <2>4. QED
    BY <1>2, <1>3, <2>2, <2>3
<1>6. CASE Send(r, e)
  <2>1. /\ pc[r] = "sending" /\ pc'[r] \in Outcomes
        /\ pc'[r] = "sent" => current[r] \in reached'[e]
        /\ UNCHANGED <<claimed, targets, current, anyRetryable, note>>
    BY <1>6 DEF Send, GoTo, TypeOK, dbVars
  <2>2. /\ current[r] \in Devices /\ note[e][current[r]] # "NONE"
        /\ ~ anyRetryable[r] => steady[e] \subseteq targets[r] \cup reached[e]
    BY <1>1, <2>1 DEF ReplicaInv
  <2>3. QED
    BY <1>2, <1>3, <2>1, <2>2
<1>7. CASE Record(r, e)
  <2>1. /\ current[r] \in Devices /\ note[e][current[r]] # "NONE"
        /\ pc[r] = "sent" => current[r] \in reached[e]
        /\ ~ anyRetryable[r] => steady[e] \subseteq targets[r] \cup reached[e]
    BY <1>1, <1>7 DEF Record, ReplicaInv
  <2>2. CASE pc[r] = "dead"
    <3>1. /\ pc'[r] = "deactivating" /\ UNCHANGED <<claimed, targets, current>>
          /\ anyRetryable'[r] = anyRetryable[r] /\ note'[e][current[r]] = "FAILED"
      BY <1>7, <2>1, <2>2 DEF Record, GoTo, TypeOK
    <3>2. QED
      BY <1>2, <1>3, <2>1, <3>1
  <2>3. CASE pc[r] \in {"sent", "transient"}
    <3>1. /\ pc'[r] = IF targets[r] = {current[r]} THEN "settling" ELSE "inserting"
          /\ targets'[r] = targets[r] \ {current[r]}
          /\ UNCHANGED claimed
      BY <1>7, <2>3 DEF Record, NextTarget, GoTo, TypeOK
    <3>2. anyRetryable'[r] = (anyRetryable[r] \/ pc[r] = "transient")
      BY <1>7 DEF Record, TypeOK
    <3>3. pc'[r] = "settling" => targets'[r] = {}
      BY <3>1
    <3>4. ~ anyRetryable'[r] => steady'[e] \subseteq targets'[r] \cup reached'[e]
      BY <1>2, <2>1, <2>3, <3>1, <3>2
    <3>5. QED
      BY <1>3, <3>1, <3>3, <3>4
  <2>4. QED
    BY <1>7, <2>2, <2>3 DEF Record
<1>8. CASE DeactivateDeviceToken(r)
  <2>1. /\ current[r] \in Devices
        /\ ~ anyRetryable[r] => steady[e] \subseteq targets[r] \cup reached[e]
    BY <1>1, <1>8 DEF DeactivateDeviceToken, ReplicaInv
  <2>2. /\ pc'[r] = IF targets[r] = {current[r]} THEN "settling" ELSE "inserting"
        /\ targets'[r] = targets[r] \ {current[r]}
        /\ UNCHANGED <<claimed, anyRetryable>>
    BY <1>8 DEF DeactivateDeviceToken, NextTarget, GoTo, TypeOK
  <2>3. steady'[e] = steady[e] \ {current[r]}
    <3>1. Nobody \notin Concerns[e]
      BY NotifierAssumption
    <3>2. QED
      BY <1>8, <3>1 DEF DeactivateDeviceToken, SetAccount
  <2>4. QED
    BY <1>2, <1>3, <2>1, <2>2, <2>3
<1>9. CASE Settle(r, e)
  <2>1. CASE Advance(r, e)
    BY <2>1, AdvanceKeeps
  <2>2. CASE GoTo(r, "catching") /\ UNCHANGED claimed
    <3>1. pc'[r] = "catching"
      BY <2>2 DEF GoTo, TypeOK
    <3>2. QED
      BY <2>2, <3>1, NotWorking, ReleaseKeeps
  <2>3. QED
    BY <1>9, <2>1, <2>2 DEF Settle
<1>10. CASE Catch(r, e)
  BY <1>10, AdvanceKeeps DEF Catch
<1>11. QED
  BY <1>4, <1>5, <1>6, <1>7, <1>8, <1>9, <1>10 DEF Process

\* So do its claims and what goes wrong.
LEMMA OwnKeeps ==
    ASSUME TypeOK, TypeOK', Inv, NEW r \in Replicas,
           Claim(r) \/ CommitClaim(r) \/ Crash(r) \/ \E e \in Events : Fault(r, e),
           \A f \in Events : Grows(f)
    PROVE  \A f \in Events : ReplicaInv(r, f)' /\ ClaimInv(r, f)'
<1> USE DEF Working, Targeting, Outcomes
<1>1. CASE Claim(r)
  <2>1. pc'[r] = "claiming"
    BY <1>1 DEF Claim, TypeOK
  <2>2. ASSUME NEW f \in Events
        PROVE  ClaimInv(r, f)'
    <3>1. PICK S \in SUBSET {e \in Events \ Locked : status[e] = "PENDING"} :
            claimed' = [claimed EXCEPT ![r] = [e \in Events |->
                            IF e \in S THEN retryCount[e] ELSE NotHeld]]
      BY <1>1 DEF Claim
    <3>2. claimed'[r][f] = IF f \in S THEN retryCount[f] ELSE NotHeld
      BY <3>1 DEF TypeOK
    <3>3. retryCount[f] \in Nat /\ retryCount' = retryCount /\ status' = status
      BY <1>1 DEF Claim, dbVars, TypeOK
    <3>4. QED
      BY <3>1, <3>2, <3>3 DEF ClaimInv, Held
  <2>3. QED
    BY <2>1, <2>2, NotWorking
<1>2. ASSUME pc'[r] \notin Working,
             \A f \in Events : claimed'[r][f] \in {claimed[r][f], NotHeld}
      PROVE  \A f \in Events : ReplicaInv(r, f)' /\ ClaimInv(r, f)'
  BY <1>2, NotWorking, ReleaseKeeps
<1>3. CASE CommitClaim(r)
  <2>1. pc'[r] = "resolving" /\ UNCHANGED claimed
    BY <1>3 DEF CommitClaim, TypeOK
  <2>2. QED
    BY <1>2, <2>1
<1>4. CASE Crash(r)
  <2>1. pc'[r] = "idle" /\ \A f \in Events : claimed'[r][f] = NotHeld
    BY <1>4 DEF Crash, GoTo, TypeOK
  <2>2. QED
    BY <1>2, <2>1
<1>5. ASSUME NEW e \in Events, Fault(r, e)
      PROVE  \A f \in Events : ReplicaInv(r, f)' /\ ClaimInv(r, f)'
  <2>1. CASE GoTo(r, "catching") /\ UNCHANGED claimed
    <3>1. pc'[r] = "catching"
      BY <2>1 DEF GoTo, TypeOK
    <3>2. QED
      BY <1>2, <2>1, <3>1
  <2>2. CASE Advance(r, e)
    BY <2>2, AdvanceKeeps
  <2>3. CASE GoTo(r, "idle") /\ claimed' = [claimed EXCEPT ![r] = [f \in Events |-> NotHeld]]
    <3>1. pc'[r] = "idle" /\ \A f \in Events : claimed'[r][f] = NotHeld
      BY <2>3 DEF GoTo, TypeOK
    <3>2. QED
      BY <1>2, <3>1
  <2>4. QED
    BY <1>5, <2>1, <2>2, <2>3 DEF Fault
<1>6. QED
  BY <1>1, <1>3, <1>4, <1>5

\* A replica does not reach into the memory of another.
LEMMA MemoryIsOwn ==
    ASSUME TypeOK, NEW r \in Replicas,
           \/ Claim(r) \/ CommitClaim(r) \/ Crash(r)
           \/ \E e \in Events : Process(r, e) \/ Fault(r, e)
    PROVE  \A x \in Replicas \ {r} : SameMemory(x)
<1>1. CASE Claim(r) \/ CommitClaim(r) \/ Crash(r)
  BY <1>1 DEF Claim, CommitClaim, Crash, GoTo, Drop, SameMemory, TypeOK
<1>2. ASSUME NEW e \in Events, Fault(r, e)
      PROVE  \A x \in Replicas \ {r} : SameMemory(x)
  BY <1>2 DEF Fault, Advance, GoTo, Drop, SameMemory, TypeOK
<1>3. ASSUME NEW e \in Events, Process(r, e)
      PROVE  \A x \in Replicas \ {r} : SameMemory(x)
  <2>1. CASE Resolve(r, e)
    BY <2>1 DEF Resolve, GoTo, SameMemory, TypeOK
  <2>2. CASE InsertNotification(r, e)
    BY <2>2 DEF InsertNotification, GoTo, SameMemory, TypeOK
  <2>3. CASE Send(r, e)
    BY <2>3 DEF Send, GoTo, SameMemory, TypeOK
  <2>4. CASE Record(r, e)
    BY <2>4 DEF Record, NextTarget, GoTo, SameMemory, TypeOK
  <2>5. CASE DeactivateDeviceToken(r)
    BY <2>5 DEF DeactivateDeviceToken, NextTarget, GoTo, SameMemory, TypeOK
  <2>6. CASE Settle(r, e)
    BY <2>6 DEF Settle, Advance, GoTo, Drop, SameMemory, TypeOK
  <2>7. CASE Catch(r, e)
    BY <2>7 DEF Catch, Advance, GoTo, Drop, SameMemory, TypeOK
  <2>8. QED
    BY <1>3, <2>1, <2>2, <2>3, <2>4, <2>5, <2>6, <2>7 DEF Process
<1>4. QED
  BY <1>1, <1>2, <1>3

LEMMA InvStep ==
    ASSUME TypeOK, Inv, [Next]_vars
    PROVE  TypeOK' /\ Inv' /\ \A e \in Events : Grows(e)
<1>1. ASSUME TypeOK', \A e \in Events : Grows(e) /\ steady'[e] \subseteq TargetsOf(e)',
             NEW r \in Replicas, \A x \in Replicas \ {r} : SameMemory(x),
             \A e \in Events : ReplicaInv(r, e)' /\ ClaimInv(r, e)'
      PROVE  Inv'
  <2>1. \A x \in Replicas \ {r}, e \in Events : ReplicaInv(x, e)' /\ ClaimInv(x, e)'
    BY <1>1, SameKeeps
  <2>2. QED
    BY <1>1, <2>1 DEF Inv
<1>2. ASSUME UNCHANGED replicaVars, TypeOK',
             \A e \in Events : Grows(e) /\ steady'[e] \subseteq TargetsOf(e)'
      PROVE  Inv'
  <2>1. \A x \in Replicas : SameMemory(x)
    BY <1>2 DEF replicaVars, SameMemory
  <2>2. \A x \in Replicas, e \in Events : ReplicaInv(x, e)' /\ ClaimInv(x, e)'
    BY <1>2, <2>1, SameKeeps
  <2>3. QED
    BY <1>2, <2>2 DEF Inv
<1>3. CASE \/ \E e \in Events : AppendEvent(e)
           \/ \E d \in Devices, a \in Accounts : Register(d, a)
           \/ \E d \in Devices : Logout(d)
  <2>1. TypeOK' /\ UNCHANGED replicaVars
    BY <1>3, ApiTypes DEF AppendEvent, Register, Logout
  <2>2. QED
    BY <1>2, <1>3, <2>1, OthersGrow
<1>4. ASSUME NEW r \in Replicas,
             Claim(r) \/ CommitClaim(r) \/ Crash(r) \/ \E e \in Events : Fault(r, e)
      PROVE  TypeOK' /\ Inv' /\ \A e \in Events : Grows(e)
  <2>1. TypeOK'
    BY <1>4, ClaimTypes, MishapTypes
  <2>2. \A e \in Events : Grows(e) /\ steady'[e] \subseteq TargetsOf(e)'
    BY <1>4, OthersGrow
  <2>3. QED
    BY <1>1, <1>4, <2>1, <2>2, MemoryIsOwn, OwnKeeps
<1>5. ASSUME NEW r \in Replicas, NEW e \in Events, IsCurrent(r, e), Process(r, e)
      PROVE  TypeOK' /\ Inv' /\ \A f \in Events : Grows(f)
  <2>1. TypeOK'
    <3>1. pc[r] \in Targeting => current[r] \in Devices
      BY <1>5 DEF Inv, ReplicaInv
    <3>2. QED
      BY <1>5, <3>1, ProcessTypes
  <2>2. \A f \in Events : Grows(f) /\ steady'[f] \subseteq TargetsOf(f)'
    BY <1>5, ProcessGrows
  <2>3. QED
    BY <1>1, <1>5, <2>1, <2>2, MemoryIsOwn, ProcessKeeps
<1>6. CASE UNCHANGED vars
  <2>1. TypeOK' /\ UNCHANGED replicaVars
    BY <1>6 DEF vars, dbVars, replicaVars, historyVars, TypeOK
  <2>2. QED
    BY <1>2, <1>6, <2>1, OthersGrow
<1>7. QED
  BY <1>3, <1>4, <1>5, <1>6 DEF Next, Work

LEMMA InitHolds == Init => TypeOK /\ Inv
<1>1. SUFFICES ASSUME Init
               PROVE  TypeOK /\ Inv
  OBVIOUS
<1>2. TypeOK
  BY <1>1, NotifierAssumption DEF Init, TypeOK, Places
<1>3. \A r \in Replicas : Held(r) = {}
  BY <1>1 DEF Init, Held
<1>4. Inv
  BY <1>1, <1>3 DEF Init, Inv, ReplicaInv, ClaimInv, IsCurrent
<1>5. QED
  BY <1>2, <1>4

\* Every variable always has a value of its type.
THEOREM TypeCorrect == Spec => []TypeOK
<1>1. Init => TypeOK /\ Inv
  BY InitHolds
<1>2. TypeOK /\ Inv /\ [Next]_vars => TypeOK' /\ Inv'
  BY InvStep
<1>3. QED
  BY <1>1, <1>2, PTL DEF Spec

\* What each replica knows of the event it works on, and of its claims.
THEOREM ReplicasKnow == Spec => []Inv
<1>1. Init => TypeOK /\ Inv
  BY InitHolds
<1>2. TypeOK /\ Inv /\ [Next]_vars => TypeOK' /\ Inv'
  BY InvStep
<1>3. QED
  BY <1>1, <1>2, PTL DEF Spec

-----------------------------------------------------------------------------
(* The promises of the outbox.                                             *)

\* An event's status changes when it is appended, and where it is marked.
LEMMA WhoMarks ==
    ASSUME TypeOK, [Next]_vars, NEW e \in Events, status'[e] # status[e]
    PROVE  \/ AppendEvent(e)
           \/ \E r \in Replicas :
                /\ IsCurrent(r, e)
                /\ \/ pc[r] = "settling" /\ ~ anyRetryable[r] /\ MarkPublished(e)
                   \/ MarkFailed(r, e)
<1>1. ASSUME NEW r \in Replicas, NEW f \in Events, IsCurrent(r, f), Settle(r, f) \/ Catch(r, f)
      PROVE  /\ f = e
             /\ \/ pc[r] = "settling" /\ ~ anyRetryable[r] /\ MarkPublished(f)
                \/ MarkFailed(r, f)
  <2>1. \/ pc[r] = "settling" /\ ~ anyRetryable[r] /\ MarkPublished(f)
        \/ MarkFailed(r, f)
    BY <1>1 DEF Settle, Catch
  <2>2. status' = [status EXCEPT ![f] = status'[f]]
    BY <2>1 DEF MarkPublished, MarkFailed, TypeOK
  <2>3. f = e
    BY <2>2 DEF TypeOK
  <2>4. QED
    BY <2>1, <2>3
<1>2. ASSUME NEW f \in Events, AppendEvent(f)
      PROVE  f = e
  BY <1>2 DEF AppendEvent, TypeOK
<1>3. ASSUME NEW r \in Replicas, NEW f \in Events, Process(r, f),
             ~ Settle(r, f), ~ Catch(r, f)
      PROVE  FALSE
  BY <1>3 DEF Process, Resolve, InsertNotification, Send, Record, DeactivateDeviceToken, dbVars
<1>4. QED
  BY <1>1, <1>2, <1>3 DEF Next, vars, Work, Register, Logout, Claim, CommitClaim, Fault, Crash, dbVars

\* A row becomes SENT only where a replica records a push that was sent.
LEMMA WhoRecords ==
    ASSUME TypeOK, Inv, [Next]_vars, NEW e \in Events, NEW d \in Devices,
           note'[e][d] = "SENT", note[e][d] # "SENT"
    PROVE  \E r \in Replicas : IsCurrent(r, e) /\ pc[r] = "sent" /\ current[r] = d
<1>1. ASSUME NEW r \in Replicas, NEW f \in Events, IsCurrent(r, f), Record(r, f)
      PROVE  f = e /\ pc[r] = "sent" /\ current[r] = d
  <2>1. current[r] \in Devices
    BY <1>1 DEF Inv, ReplicaInv, Record, Targeting
  <2>2. QED
    BY <1>1, <2>1 DEF Record, TypeOK
<1>2. ASSUME NEW r \in Replicas, NEW f \in Events, InsertNotification(r, f)
      PROVE  FALSE
  BY <1>2 DEF InsertNotification, TypeOK
<1>3. ASSUME NEW r \in Replicas, NEW f \in Events, Process(r, f),
             ~ InsertNotification(r, f), ~ Record(r, f)
      PROVE  FALSE
  BY <1>3 DEF Process, Resolve, Send, DeactivateDeviceToken, Settle, Catch, dbVars
<1>4. QED
  BY <1>1, <1>2, <1>3
  DEF Next, vars, Work, AppendEvent, Register, Logout, Claim, CommitClaim, Fault, Crash, dbVars

\* Only Settle publishes, and what it publishes has reached every steady device.
THEOREM PublishedReaches == Spec => []PublishedReachedEveryDevice
<1>1. Init => PublishedReachedEveryDevice
  BY DEF Init, PublishedReachedEveryDevice
<1>2. TypeOK /\ Inv /\ PublishedReachedEveryDevice /\ [Next]_vars => PublishedReachedEveryDevice'
  <2> SUFFICES ASSUME TypeOK, Inv, PublishedReachedEveryDevice, [Next]_vars
               PROVE  PublishedReachedEveryDevice'
    OBVIOUS
  <2>1. \A e \in Events : Grows(e)
    BY InvStep
  <2>2. ASSUME NEW e \in Events, status'[e] = "PUBLISHED", status[e] = "PUBLISHED"
        PROVE  steady'[e] \subseteq reached'[e]
    BY <2>1, <2>2 DEF Grows, PublishedReachedEveryDevice
  <2>3. ASSUME NEW e \in Events, status'[e] = "PUBLISHED", status[e] # "PUBLISHED"
        PROVE  steady'[e] \subseteq reached'[e]
    <3>1. PICK r \in Replicas : IsCurrent(r, e) /\ pc[r] = "settling" /\ ~ anyRetryable[r]
      BY <2>3, WhoMarks DEF AppendEvent, MarkFailed, TypeOK
    <3>2. steady[e] \subseteq reached[e]
      BY <3>1 DEF Inv, ReplicaInv, Working
    <3>3. status[e] # "NONE"
      BY <3>1 DEF Inv, ClaimInv, IsCurrent
    <3>4. QED
      BY <2>1, <3>2, <3>3 DEF Grows
  <2>4. QED
    BY <2>2, <2>3 DEF PublishedReachedEveryDevice
<1>3. QED
  BY <1>1, <1>2, TypeCorrect, ReplicasKnow, PTL DEF Spec

\* markFailed decides by the claimed retryCount, which the table's has never
\* fallen behind.
THEOREM FailedIsLast == Spec => []FailedOnlyAfterMaxRetries
<1>1. Init => FailedOnlyAfterMaxRetries
  BY DEF Init, FailedOnlyAfterMaxRetries
<1>2. TypeOK /\ Inv /\ FailedOnlyAfterMaxRetries /\ [Next]_vars => FailedOnlyAfterMaxRetries'
  <2> SUFFICES ASSUME TypeOK, Inv, FailedOnlyAfterMaxRetries, [Next]_vars,
                      NEW e \in Events, status'[e] = "FAILED"
               PROVE  retryCount'[e] >= MAX_RETRIES
    BY DEF FailedOnlyAfterMaxRetries
  <2>1. /\ retryCount[e] \in Nat /\ retryCount'[e] \in Nat /\ MAX_RETRIES \in Nat
        /\ retryCount[e] <= retryCount'[e]
    BY InvStep, NotifierAssumption DEF TypeOK, Grows
  <2>2. CASE status[e] = "FAILED"
    BY <2>1, <2>2 DEF FailedOnlyAfterMaxRetries
  <2>3. CASE status[e] # "FAILED"
    <3>1. PICK r \in Replicas : IsCurrent(r, e) /\ MarkFailed(r, e)
      BY <2>3, WhoMarks DEF AppendEvent, MarkPublished, TypeOK
    <3>2. claimed[r][e] <= retryCount[e] /\ claimed[r][e] \in Nat
      BY <3>1 DEF Inv, ClaimInv, IsCurrent, Held, TypeOK
    <3>3. claimed[r][e] + 1 >= MAX_RETRIES /\ retryCount'[e] = retryCount[e] + 1
      BY <3>1, <2>3 DEF MarkFailed, TypeOK
    <3>4. QED
      BY <2>1, <3>2, <3>3
  <2>4. QED
    BY <2>2, <2>3
<1>3. QED
  BY <1>1, <1>2, TypeCorrect, ReplicasKnow, PTL DEF Spec

\* A row is inserted before its push and marked SENT only after it.
THEOREM HistoryStaysHonest == Spec => []HistoryIsHonest
<1>1. Init => HistoryIsHonest
  BY DEF Init, HistoryIsHonest
<1>2. TypeOK /\ Inv /\ HistoryIsHonest /\ [Next]_vars => HistoryIsHonest'
  <2> SUFFICES ASSUME TypeOK, Inv, HistoryIsHonest, [Next]_vars, NEW e \in Events, NEW d \in Devices
               PROVE  /\ note'[e][d] = "SENT" => d \in reached'[e]
                      /\ d \in reached'[e] => note'[e][d] # "NONE"
    BY DEF HistoryIsHonest
  <2>1. Grows(e)
    BY InvStep
  <2>2. ASSUME note'[e][d] = "SENT", note[e][d] # "SENT"
        PROVE  d \in reached'[e]
    <3>1. PICK r \in Replicas : IsCurrent(r, e) /\ pc[r] = "sent" /\ current[r] = d
      BY <2>2, WhoRecords
    <3>2. d \in reached[e]
      BY <3>1 DEF Inv, ReplicaInv
    <3>3. QED
      BY <2>1, <3>2 DEF Grows
  <2>3. ASSUME d \in reached'[e], d \notin reached[e]
        PROVE  note'[e][d] # "NONE"
    <3>1. PICK r \in Replicas, f \in Events : IsCurrent(r, f) /\ Send(r, f)
      BY <2>3 DEF Next, vars, Work, Process, AppendEvent, Register, Logout, Claim, CommitClaim,
                  Resolve, InsertNotification, Record, DeactivateDeviceToken, Settle, Catch,
                  Fault, Crash, historyVars, TypeOK
    <3>2. f = e /\ current[r] = d /\ pc[r] \in Targeting
      BY <2>3, <3>1 DEF Send, Targeting, TypeOK
    <3>3. note[e][d] # "NONE"
      BY <3>1, <3>2 DEF Inv, ReplicaInv
    <3>4. QED
      BY <2>1, <3>3 DEF Grows
  <2>4. QED
    BY <2>1, <2>2, <2>3 DEF Grows, HistoryIsHonest
<1>3. QED
  BY <1>1, <1>2, TypeCorrect, ReplicasKnow, PTL DEF Spec

-----------------------------------------------------------------------------
(* The abstract outbox.                                                    *)

\* What the outbox tells of the replicas.
Told == <<status, retryCount, steady, reached>>

\* A device that is no target any more is released of what it was owed.
LEMMA ReleaseStep ==
    ASSUME TypeOK, NEW d \in Devices, NEW a, SetAccount(d, a), UNCHANGED <<status, retryCount, reached>>
    PROVE  [Abstract!Next]_Told
<1> DEFINE E == {e \in Events : a \notin Concerns[e]}
<1>1. steady' = [e \in Events |-> IF e \in E THEN steady[e] \ {d} ELSE steady[e]]
  BY DEF SetAccount
<1>2. Abstract!Release(d, E)
  BY <1>1 DEF Abstract!Release
<1>3. QED
  BY <1>2 DEF Abstract!Next

\* A replica's mark is the outbox's: published what is owed to nobody any more,
\* failed what has the failures, whatever the replica had claimed.
LEMMA MarkStep ==
    ASSUME TypeOK, Inv, NEW r \in Replicas, NEW e \in Events, IsCurrent(r, e),
           UNCHANGED <<steady, reached>>,
           \/ pc[r] = "settling" /\ ~anyRetryable[r] /\ MarkPublished(e)
           \/ MarkFailed(r, e)
    PROVE  [Abstract!Next]_Told
<1>1. status[e] # "NONE" /\ claimed[r][e] <= retryCount[e]
  BY DEF Inv, ClaimInv, IsCurrent
<1>2. CASE pc[r] = "settling" /\ ~anyRetryable[r] /\ MarkPublished(e)
  <2>1. steady[e] \subseteq reached[e]
    BY <1>2 DEF Inv, ReplicaInv, Working
  <2>2. Abstract!Publish(e)
    BY <1>1, <1>2, <2>1 DEF MarkPublished, Abstract!Publish
  <2>3. QED
    BY <2>2 DEF Abstract!Next
<1>3. CASE MarkFailed(r, e)
  <2>1. PICK next \in {"PENDING", "FAILED"} :
           /\ status' = [status EXCEPT ![e] = next]
           /\ next = "FAILED" => claimed[r][e] + 1 >= MAX_RETRIES
    BY <1>3 DEF MarkFailed
  <2>2. claimed[r][e] \in Nat /\ retryCount[e] \in Nat /\ MAX_RETRIES \in Nat
    BY NotifierAssumption DEF IsCurrent, Held, TypeOK
  <2>3. next = "FAILED" => retryCount[e] + 1 >= MAX_RETRIES
    BY <1>1, <2>1, <2>2
  <2>4. Abstract!CountFailure(e, next)
    BY <1>1, <1>3, <2>1, <2>3 DEF MarkFailed, Abstract!CountFailure
  <2>5. QED
    BY <2>1, <2>4 DEF Abstract!Next
<1>4. QED
  BY <1>2, <1>3

\* Every step of the worker, the devices and the faults is one of the outbox, or
\* leaves it as it was.
LEMMA OutboxStep ==
    ASSUME TypeOK, Inv, [Next]_vars
    PROVE  [Abstract!Next]_Told
<1>1. ASSUME NEW e \in Events, AppendEvent(e)
      PROVE  [Abstract!Next]_Told
  <2>1. TargetsOf(e) \in SUBSET Devices
    BY DEF TargetsOf
  <2>2. Abstract!Append(e)
    BY <1>1, <2>1 DEF AppendEvent, Abstract!Append
  <2>3. QED
    BY <2>2 DEF Abstract!Next
<1>2. ASSUME NEW d \in Devices, NEW a \in Accounts, Register(d, a)
      PROVE  [Abstract!Next]_Told
  BY <1>2, ReleaseStep DEF Register
<1>3. ASSUME NEW d \in Devices, Logout(d)
      PROVE  [Abstract!Next]_Told
  BY <1>3, ReleaseStep DEF Logout
<1>4. ASSUME NEW r \in Replicas, NEW e \in Events, IsCurrent(r, e), Send(r, e)
      PROVE  [Abstract!Next]_Told
  <2>1. UNCHANGED <<status, retryCount, steady>>
    BY <1>4 DEF Send, dbVars
  <2>2. CASE reached' = reached
    BY <2>1, <2>2 DEF Told
  <2>3. CASE reached' = [reached EXCEPT ![e] = @ \cup {current[r]}]
    <3>1. current[r] \in Devices /\ status[e] # "NONE"
      BY <1>4 DEF Send, Inv, ReplicaInv, ClaimInv, IsCurrent, Targeting
    <3>2. Abstract!Push(e, current[r])
      BY <2>1, <2>3, <3>1 DEF Abstract!Push
    <3>3. QED
      BY <3>1, <3>2 DEF Abstract!Next
  <2>4. QED
    BY <1>4, <2>2, <2>3 DEF Send
<1>5. ASSUME NEW r \in Replicas, NEW e \in Events, IsCurrent(r, e), DeactivateDeviceToken(r)
      PROVE  [Abstract!Next]_Told
  <2>1. current[r] \in Devices
    BY <1>5 DEF DeactivateDeviceToken, Inv, ReplicaInv, Targeting
  <2>2. QED
    BY <1>5, <2>1, ReleaseStep DEF DeactivateDeviceToken
<1>6. ASSUME NEW r \in Replicas, NEW e \in Events, IsCurrent(r, e), Settle(r, e) \/ Catch(r, e)
      PROVE  [Abstract!Next]_Told
  <2>1. /\ UNCHANGED <<steady, reached>>
        /\ \/ pc[r] = "settling" /\ ~anyRetryable[r] /\ MarkPublished(e)
           \/ MarkFailed(r, e)
    BY <1>6 DEF Settle, Catch, historyVars
  <2>2. QED
    BY <1>6, <2>1, MarkStep
<1>7. ASSUME NEW r \in Replicas,
             \/ Claim(r) \/ CommitClaim(r) \/ Crash(r)
             \/ \E e \in Events : Fault(r, e) \/ Resolve(r, e) \/ InsertNotification(r, e) \/ Record(r, e)
      PROVE  [Abstract!Next]_Told
  BY <1>7 DEF Claim, CommitClaim, Crash, Fault, Resolve, InsertNotification, Record,
              dbVars, historyVars, Told
<1>8. CASE UNCHANGED vars
  BY <1>8 DEF vars, dbVars, historyVars, Told
<1>9. QED
  BY <1>1, <1>2, <1>3, <1>4, <1>5, <1>6, <1>7, <1>8 DEF Next, Work, Process

\* The worker implements the outbox (outbox-processor.ts): however replicas race,
\* crash or lose answers, nothing is published that is still owed to a device,
\* nothing is given up early, and nothing is reopened without a counted failure.
THEOREM WorkerImplementsOutbox == Spec => ImplementsOutbox
<1>1. Init => Abstract!Init
  BY DEF Init, Abstract!Init
<1>2. TypeOK /\ Inv /\ [Next]_vars => [Abstract!Next]_Told
  BY OutboxStep
<1>3. QED
  BY <1>1, <1>2, TypeCorrect, ReplicasKnow, PTL
     DEF Spec, ImplementsOutbox, Abstract!Spec, Abstract!vars, Told
=============================================================================
