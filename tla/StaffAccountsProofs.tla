------------------------ MODULE StaffAccountsProofs ------------------------
(***************************************************************************)
(* Theorems about StaffAccounts and the lists it replaces, for any number  *)
(* of members, roles, permissions and requests.  A request that works on a *)
(* list is tied to its call (CallInv); a transaction that runs alone has   *)
(* seen the whole list (AloneInv); and every removal that passed its check *)
(* leaves another owner (OwnerInv).                                        *)
(***************************************************************************)
EXTENDS StaffAccounts, TLAPS

\* What a caller works on is what it was asked for, and it is there.
CallInv ==
    \A p \in Callers :
        /\ call[p].step # "working" => work[p] = NoWork
        /\ call[p].step = "working" =>
              /\ work[p].step \in {"opened", "deleted"}
              /\ call[p].kind \in {"roles", "branches", "grants"}
              /\ work[p].list = <<call[p].kind, call[p].target>>
              /\ work[p].list \in Lists
              /\ work[p].set = call[p].set
        /\ Through(p) /\ call[p].kind \notin {"create", "grants"} => call[p].target \in staff
        /\ call[p].step = "counting" =>
              call[p].kind \in {"roles", "deactivate"} /\ call[p].target \in staff
        /\ call[p].step # "idle" /\ call[p].kind \in {"roles", "branches", "create", "deactivate"} =>
              call[p].target \in Staff
        /\ call[p].step # "idle" /\ call[p].kind = "grants" =>
              call[p].target \in Roles /\ (call[p].target = Owner => Manage \in call[p].set)

\* Nobody else is on the list of a transaction that is alone, and it has seen
\* every row.
AloneInv ==
    \A p \in Callers : Working(p) /\ work[p].alone =>
        /\ work[p].seen = rows[work[p].list]
        /\ \A q \in Callers : Working(q) /\ work[q].list = work[p].list => q = p

OwnerInv ==
    crossed \/
        /\ Owners # {}
        /\ \A p \in Callers : Through(p) /\ Removal(p) => Owners \ {call[p].target} # {}
        /\ \A p, q \in Callers : Through(p) /\ Removal(p) /\ Through(q) /\ Removal(q)
                                    => call[p].target = call[q].target

ManageInv == Manage \in Held(<<"grants", Owner>>)

Inv == CallInv /\ AloneInv /\ OwnerInv /\ ManageInv /\ AsAssigned

-----------------------------------------------------------------------------
(* Lists.                                                                    *)

LEMMA ListsAre ==
    /\ \A s \in Staff : <<"roles", s>> \in Lists /\ <<"branches", s>> \in Lists
    /\ \A r \in Roles : <<"grants", r>> \in Lists
    /\ \A s \in Staff, l \in Lists : l = <<"roles", s>> => l # <<"grants", Owner>>
BY StaffAssumption

\* What is written is held; all that is held, when no row stays.
LEMMA HeldAfter ==
    ASSUME NEW l, NEW stay \in SUBSET Rows, NEW S, NEW n,
           rows'[l] = stay \cup (S \X {n})
    PROVE  /\ S \subseteq Held(l)'
           /\ stay = {} => Held(l)' = S
<1>1. \A m \in S : <<m, n>> \in rows'[l] /\ <<m, n>>[1] = m
  OBVIOUS
<1>2. S \subseteq Held(l)'
  BY <1>1 DEF Held
<1>3. ASSUME stay = {}, NEW r \in rows'[l] PROVE r[1] \in S
  BY <1>3
<1>4. QED
  BY <1>2, <1>3 DEF Held

LEMMA HeldSame ==
    ASSUME NEW l, rows'[l] = rows[l]
    PROVE  Held(l)' = Held(l)
BY DEF Held

-----------------------------------------------------------------------------
(* Type correctness.                                                         *)

LEMMA NoneTypes == NoWork \in Works /\ NoCall \in Calls
BY StaffAssumption DEF NoWork, Works, NoCall, Calls, Kinds

LEMMA NoneFields == NoWork.step = "none" /\ NoCall.step = "idle"
BY DEF NoWork, NoCall

LEMMA InitTypes == Init => TypeOK
<1> SUFFICES ASSUME Init PROVE TypeOK
  OBVIOUS
<1>1. last \in [Lists -> SUBSET Members]
  <2>1. \A l \in Lists : last[l] \in SUBSET Members
    BY StaffAssumption DEF Init
  <2>2. QED
    BY <2>1 DEF Init
<1>2. rows \in [Lists -> SUBSET Rows]
  BY <1>1, AssignmentsAssumption DEF Init, Rows
<1>3. writes \in 0 .. MaxWrites /\ blended \in SUBSET Lists
  BY AssignmentsAssumption DEF Init
<1>4. work \in [Callers -> Works] /\ call \in [Callers -> Calls]
  BY NoneTypes DEF Init
<1>5. staff \in SUBSET Staff /\ active \in SUBSET staff
  BY StaffAssumption DEF Init
<1>6. crossed \in BOOLEAN
  BY Zenon DEF Init
<1>7. QED
  BY <1>1, <1>2, <1>3, <1>4, <1>5, <1>6 DEF TypeOK, AssignmentsTypeOK

LEMMA AskTypes ==
    ASSUME TypeOK, NEW p \in Callers, AskAnything(p)
    PROVE  TypeOK'
<1>1. call' \in [Callers -> Calls]
  <2>1. PICK kind \in Kinds, t \in Staff \cup Roles, S \in SUBSET Members : Ask(p, kind, t, S)
    BY StaffAssumption
       DEF AskAnything, AskRoles, AskBranches, AskActive, AskGrants, Kinds
  <2>2. QED
    BY <2>1 DEF Ask, TypeOK, Calls
<1>2. UNCHANGED <<assignmentVars, staff, active, crossed>>
  BY DEF AskAnything, AskRoles, AskBranches, AskActive, AskGrants
<1>3. QED
  BY <1>1, <1>2 DEF TypeOK, AssignmentsTypeOK, assignmentVars

LEMMA CheckTypes ==
    ASSUME TypeOK, NEW p \in Callers, CheckIt(p)
    PROVE  TypeOK'
<1>1. /\ \/ \E step \in {"counting", "allowed"} : GoTo(p, step)
         \/ Done(p)
      /\ crossed' \in BOOLEAN
      /\ UNCHANGED <<assignmentVars, staff, active>>
  BY DEF CheckIt, CheckCreate, CheckDeactivate, CheckRoles, CheckTarget, CountOwners,
         Refuse, Allow, TypeOK
<1>2. call' \in [Callers -> Calls]
  BY <1>1, NoneTypes DEF GoTo, Done, TypeOK, Calls
<1>3. QED
  BY <1>1, <1>2 DEF TypeOK, AssignmentsTypeOK, assignmentVars

LEMMA ChangeTypes ==
    ASSUME TypeOK, CallInv, NEW p \in Callers, Change(p)
    PROVE  TypeOK'
<1>1. CASE Create(p)
  <2>1. call' \in [Callers -> Calls] /\ UNCHANGED crossed
    BY <1>1, NoneTypes DEF Create, Done, TypeOK
  <2>2. CASE call[p].target \in staff
    BY <1>1, <2>1, <2>2 DEF Create, TypeOK, AssignmentsTypeOK, assignmentVars
  <2>3. CASE call[p].target \notin staff
    <3> DEFINE s == call[p].target
    <3>1. s \in Staff /\ call[p].set \in SUBSET Members
      BY <1>1 DEF Create, At, CallInv, TypeOK, Calls
    <3>2. PICK B \in SUBSET Branches \ {{}} :
             last' = [last EXCEPT ![<<"roles", s>>] = call[p].set, ![<<"branches", s>>] = B]
      BY <1>1, <2>3 DEF Create
    <3>3. last' \in [Lists -> SUBSET Members]
      BY <3>1, <3>2, StaffAssumption DEF TypeOK, AssignmentsTypeOK
    <3>4. writes' = writes + 1 /\ writes' \in 0 .. MaxWrites
      BY <1>1, <2>3, AssignmentsAssumption DEF Create, TypeOK, AssignmentsTypeOK
    <3>5. rows' \in [Lists -> SUBSET Rows]
      <4>1. rows' = [l \in Lists |-> IF l \in {<<"roles", s>>, <<"branches", s>>}
                                       THEN last'[l] \X {writes + 1} ELSE rows[l]]
        BY <1>1, <2>3 DEF Create
      <4>2. \A l \in Lists : last'[l] \X {writes + 1} \subseteq Rows /\ rows[l] \subseteq Rows
        BY <3>3, <3>4 DEF Rows, TypeOK, AssignmentsTypeOK
      <4>3. QED
        BY <4>1, <4>2
    <3>6. QED
      BY <1>1, <2>1, <2>3, <3>1, <3>3, <3>4, <3>5 DEF Create, TypeOK, AssignmentsTypeOK
  <2>4. QED
    BY <2>2, <2>3
<1>2. CASE SetActive(p)
  <2>1. call' \in [Callers -> Calls]
    BY <1>2, NoneTypes DEF SetActive, Done, TypeOK
  <2>2. active' \in SUBSET staff
    BY <1>2 DEF SetActive, TypeOK, CallInv, Through
  <2>3. QED
    BY <1>2, <2>1, <2>2 DEF SetActive, TypeOK, AssignmentsTypeOK, assignmentVars
<1>3. CASE Assign(p)
  <2>1. call' \in [Callers -> Calls]
    BY <1>3 DEF Assign, GoTo, TypeOK, Calls
  <2> DEFINE l == <<call[p].kind, call[p].target>>
  <2>2. l \in Lists
    BY <1>3, StaffAssumption DEF Assign, CallInv, Through, TypeOK
  <2>3. work' \in [Callers -> Works]
    <3>1. [step |-> "opened", list |-> l, set |-> call[p].set, seen |-> rows[l],
           alone |-> OnList(l) = {}] \in Works
      BY <2>2 DEF Works, TypeOK, AssignmentsTypeOK, Calls
    <3>2. \A q \in Callers : [work[q] EXCEPT !.alone = FALSE] \in Works
      BY DEF Works, TypeOK, AssignmentsTypeOK
    <3>3. QED
      BY <1>3, <3>1, <3>2 DEF Assign, Open, TypeOK, AssignmentsTypeOK
  <2>4. QED
    BY <1>3, <2>1, <2>3 DEF Assign, Open, TypeOK, AssignmentsTypeOK
<1>4. CASE DeleteRows(p)
  <2>1. work' \in [Callers -> Works]
    <3>1. [work[p] EXCEPT !.step = "deleted", !.seen = @ \cap rows[work[p].list]] \in Works
      BY DEF TypeOK, AssignmentsTypeOK, Works
    <3>2. QED
      BY <1>4, <3>1 DEF DeleteRows, Delete, TypeOK, AssignmentsTypeOK
  <2>2. QED
    BY <1>4, <2>1 DEF DeleteRows, Delete, TypeOK, AssignmentsTypeOK
<1>5. CASE InsertRows(p)
  <2> DEFINE l == work[p].list
             stay == rows[l] \ work[p].seen
  <2>1. call' \in [Callers -> Calls] /\ work' \in [Callers -> Works]
    BY <1>5, NoneTypes DEF InsertRows, Insert, Done, Ended, TypeOK, AssignmentsTypeOK
  <2>2. CASE \E r \in stay : r[1] \in work[p].set
    BY <1>5, <2>1, <2>2 DEF InsertRows, Insert, TypeOK, AssignmentsTypeOK
  <2>3. CASE ~\E r \in stay : r[1] \in work[p].set
    <3>1. l \in Lists /\ work[p].set \in SUBSET Members
      BY <1>5 DEF InsertRows, Insert, CallInv, TypeOK, AssignmentsTypeOK, Works, NoWork
    <3>2. /\ writes < MaxWrites /\ writes' = writes + 1
          /\ rows' = [rows EXCEPT ![l] = stay \cup (work[p].set \X {writes + 1})]
          /\ last' = [last EXCEPT ![l] = work[p].set]
          /\ blended' = IF work[p].alone THEN blended \ {l} ELSE blended \cup {l}
          /\ UNCHANGED <<staff, active, crossed>>
      BY <1>5, <2>3 DEF InsertRows, Insert
    <3>3. writes' \in 0 .. MaxWrites
      BY <3>2, AssignmentsAssumption DEF TypeOK, AssignmentsTypeOK
    <3>4. stay \cup (work[p].set \X {writes + 1}) \in SUBSET Rows
      BY <3>1, <3>2, <3>3 DEF TypeOK, AssignmentsTypeOK, Rows
    <3>5. QED
      BY <2>1, <3>1, <3>2, <3>3, <3>4 DEF TypeOK, AssignmentsTypeOK
  <2>4. QED
    BY <2>2, <2>3
<1>6. CASE Fail(p)
  BY <1>6, NoneTypes DEF Fail, Done, RollBack, Ended, TypeOK, AssignmentsTypeOK
<1>7. QED
  BY <1>1, <1>2, <1>3, <1>4, <1>5, <1>6 DEF Change

-----------------------------------------------------------------------------
(* The invariant.                                                            *)

LEMMA InitInv == Init => Inv
<1> SUFFICES ASSUME Init PROVE Inv
  OBVIOUS
<1>1. CallInv /\ AloneInv
  BY DEF Init, CallInv, AloneInv, NoCall, NoWork, Through, Working
<1>2. AsAssigned
  <2>1. \A l \in Lists : rows[l] = {} \cup (last[l] \X {0})
    BY DEF Init
  <2>2. \A l \in Lists : \A m : m \in last[l] => <<m, 0>> \in rows[l] /\ <<m, 0>>[1] = m
    BY <2>1
  <2>3. \A l \in Lists : \A r \in rows[l] : r[1] \in last[l]
    BY <2>1
  <2>4. QED
    BY <2>2, <2>3 DEF AsAssigned, Held
<1>3. Held(<<"roles", Founder>>) = {Owner}
  <2>1. <<"roles", Founder>> \in Lists \ blended
    BY ListsAre, StaffAssumption DEF Init
  <2>2. QED
    BY <1>2, <2>1 DEF AsAssigned, Init
<1>4. ManageInv
  <2>1. <<"grants", Owner>> \in Lists \ blended
    BY ListsAre, StaffAssumption DEF Init
  <2>2. last[<<"grants", Owner>>] = Permissions
    BY <2>1 DEF Init
  <2>3. QED
    BY <1>2, <2>1, <2>2, StaffAssumption DEF AsAssigned, ManageInv
<1>5. OwnerInv
  <2>1. Founder \in Owners
    BY <1>3 DEF Owners, RolesOf, Init
  <2>2. QED
    BY <2>1 DEF OwnerInv, Init, Through, NoCall
<1>6. QED
  BY <1>1, <1>2, <1>4, <1>5 DEF Inv

\* A step that leaves the lists and their transactions alone.
LEMMA QuietStep ==
    ASSUME Inv, UNCHANGED <<rows, work, last, blended>>
    PROVE  /\ AloneInv' /\ ManageInv' /\ AsAssigned'
           /\ \A s : RolesOf(s)' = RolesOf(s)
BY DEF Inv, AloneInv, ManageInv, AsAssigned, Held, Working, RolesOf

LEMMA AskStep ==
    ASSUME TypeOK, Inv, NEW p \in Callers, AskAnything(p)
    PROVE  Inv'
<1>1. /\ UNCHANGED <<assignmentVars, staff, active, crossed>> /\ call[p].step = "idle"
      /\ \A q \in Callers : q # p => call'[q] = call[q]
      /\ call'[p].step = "asked"
      /\ call'[p].kind \in {"roles", "branches", "create", "deactivate"} => call'[p].target \in Staff
      /\ call'[p].kind = "grants" =>
            call'[p].target \in Roles /\ (call'[p].target = Owner => Manage \in call'[p].set)
  BY DEF AskAnything, AskRoles, AskBranches, AskActive, AskGrants, Ask, Admit, Idle, TypeOK
<1>2. AloneInv' /\ ManageInv' /\ AsAssigned' /\ \A s : RolesOf(s)' = RolesOf(s)
  BY <1>1, QuietStep DEF assignmentVars
<1>3. CallInv'
  BY <1>1 DEF Inv, CallInv, Through, assignmentVars
<1>4. OwnerInv'
  <2>1. Owners' = Owners
    BY <1>1, <1>2 DEF Owners
  <2>2. \A q \in Callers : Through(q)' => q # p
    BY <1>1 DEF Through
  <2>3. QED
    BY <1>1, <2>1, <2>2 DEF Inv, OwnerInv, Through, Removal
<1>5. QED
  BY <1>2, <1>3, <1>4 DEF Inv

\* A request is let through only if another owner is left, or is not a removal.
LEMMA CheckStep ==
    ASSUME TypeOK, Inv, NEW p \in Callers, CheckIt(p)
    PROVE  Inv'
<1>1. /\ UNCHANGED <<assignmentVars, staff, active>>
      /\ call[p].step \in {"asked", "counting"}
      /\ \A q \in Callers : q # p => call'[q] = call[q]
  BY DEF CheckIt, CheckCreate, CheckDeactivate, CheckRoles, CheckTarget, CountOwners,
         Refuse, Done, GoTo, At, TypeOK, Allow
<1>2. AloneInv' /\ ManageInv' /\ AsAssigned' /\ \A s : RolesOf(s)' = RolesOf(s)
  BY <1>1, QuietStep DEF assignmentVars
<1>3. Owners' = Owners
  BY <1>1, <1>2 DEF Owners
<1>4. \/ Done(p) /\ UNCHANGED crossed
      \/ /\ GoTo(p, "counting") /\ UNCHANGED crossed
         /\ call[p].kind \in {"roles", "deactivate"} /\ call[p].target \in staff
      \/ /\ Allow(p)
         /\ call[p].kind \notin {"create", "grants"} => call[p].target \in staff
         /\ Removal(p) => crossed \/ Owners \ {call[p].target} # {}
  <2>1. CASE CheckCreate(p)
    BY <2>1 DEF CheckCreate, Refuse, At, Removal
  <2>2. CASE CheckDeactivate(p)
    BY <2>2 DEF CheckDeactivate, At
  <2>3. CASE CheckRoles(p)
    <3> DEFINE s == call[p].target
    <3>1. CASE s \notin staff
      BY <2>3, <3>1 DEF CheckRoles, Refuse
    <3>2. CASE s \in staff /\ Owner \in RolesOf(s) /\ Owner \notin call[p].set
      BY <2>3, <3>2 DEF CheckRoles, At
    <3>3. CASE s \in staff /\ ~(Owner \in RolesOf(s) /\ Owner \notin call[p].set)
      <4>1. Allow(p) /\ call[p].kind = "roles"
        BY <2>3, <3>3 DEF CheckRoles, At
      <4>2. Removal(p) => Owner \notin RolesOf(s)
        BY <3>3, <4>1 DEF Removal
      <4>3. Removal(p) => s \notin Owners
        BY <4>2 DEF Owners
      <4>4. QED
        BY <3>3, <4>1, <4>3 DEF Inv, OwnerInv
    <3>4. QED
      BY <3>1, <3>2, <3>3
  <2>4. CASE CheckTarget(p)
    BY <2>4 DEF CheckTarget, Refuse, Removal
  <2>5. CASE CountOwners(p)
    BY <2>5 DEF CountOwners, Refuse, Inv, CallInv
  <2>6. QED
    BY <2>1, <2>2, <2>3, <2>4, <2>5 DEF CheckIt
<1>5. CASE Done(p) /\ UNCHANGED crossed
  <2>1. call'[p].step = "idle"
    BY <1>5 DEF Done, TypeOK, NoCall
  <2>2. CallInv'
    BY <1>1, <2>1 DEF Inv, CallInv, Through, assignmentVars
  <2>3. OwnerInv'
    BY <1>1, <1>3, <1>5, <2>1 DEF Inv, OwnerInv, Through, Removal
  <2>4. QED
    BY <1>2, <2>2, <2>3 DEF Inv
<1>6. ASSUME NEW step \in {"counting", "allowed"}, GoTo(p, step),
             step = "counting" => UNCHANGED crossed /\ call[p].kind \in {"roles", "deactivate"},
             step = "allowed" => crossed' = (crossed \/ (/\ Removal(p)
                                   /\ \E q \in Callers : /\ Through(q) /\ Removal(q)
                                                         /\ call[q].target # call[p].target)),
             call[p].kind \notin {"create", "grants"} => call[p].target \in staff,
             step = "allowed" /\ Removal(p) => crossed \/ Owners \ {call[p].target} # {}
      PROVE  Inv'
  <2>1. /\ call'[p].step = step
        /\ call'[p].kind = call[p].kind /\ call'[p].target = call[p].target
        /\ call'[p].set = call[p].set
    BY <1>6 DEF GoTo, TypeOK, Calls
  <2>2. CallInv'
    BY <1>1, <1>6, <2>1 DEF Inv, CallInv, Through, assignmentVars
  <2>3. OwnerInv'
    <3> SUFFICES ASSUME ~crossed'
                 PROVE  /\ Owners # {}
                        /\ \A q \in Callers : Through(q)' /\ Removal(q)'
                              => Owners \ {call'[q].target} # {}
                        /\ \A q, r \in Callers :
                              Through(q)' /\ Removal(q)' /\ Through(r)' /\ Removal(r)'
                                => call'[q].target = call'[r].target
      BY <1>3 DEF OwnerInv
    <3>1. ~crossed
      BY <1>6
    <3>2. \A q \in Callers : q # p => /\ Through(q)' <=> Through(q)
                                      /\ Removal(q)' <=> Removal(q)
                                      /\ call'[q].target = call[q].target
      BY <1>1 DEF Through, Removal
    <3>3. /\ Removal(p)' <=> Removal(p)
          /\ Through(p)' => step = "allowed"
          /\ call'[p].target = call[p].target
      BY <2>1 DEF Through, Removal
    <3>4. step = "allowed" /\ Removal(p) =>
             /\ Owners \ {call[p].target} # {}
             /\ \A q \in Callers : Through(q) /\ Removal(q) => call[q].target = call[p].target
      BY <1>6, <3>1
    <3>5. QED
      BY <3>1, <3>2, <3>3, <3>4 DEF Inv, OwnerInv
  <2>4. QED
    BY <1>2, <2>2, <2>3 DEF Inv
<1>7. QED
  BY <1>4, <1>5, <1>6 DEF Allow

\* The owners are as many or more, but for the target of a removal.
LEMMA OwnersKept ==
    ASSUME Inv, UNCHANGED crossed, NEW p \in Callers,
           \A q \in Callers : q # p => call'[q] = call[q],
           call'[p].step = "idle",
           \/ Owners \subseteq Owners'
           \/ /\ Through(p) /\ Removal(p)
              /\ Owners \ {call[p].target} \subseteq Owners'
    PROVE  OwnerInv'
<1> SUFFICES ASSUME ~crossed PROVE OwnerInv'
  BY DEF OwnerInv
<1>1. \A q \in Callers : Through(q)' /\ Removal(q)' => Through(q) /\ Removal(q) /\ call'[q] = call[q]
  BY DEF Through, Removal
<1>2. Owners' # {}
  BY DEF Inv, OwnerInv
<1>3. \A q \in Callers : Through(q) /\ Removal(q) => Owners' \ {call[q].target} # {}
  BY DEF Inv, OwnerInv
<1>4. QED
  BY <1>1, <1>2, <1>3 DEF Inv, OwnerInv

LEMMA CreateStep ==
    ASSUME TypeOK, Inv, NEW p \in Callers, Create(p)
    PROVE  Inv'
<1> DEFINE s == call[p].target
<1>1. /\ call[p].step = "allowed" /\ call[p].kind = "create" /\ s \in Staff
      /\ call'[p] = NoCall /\ \A q \in Callers : q # p => call'[q] = call[q]
      /\ UNCHANGED <<work, blended, crossed>>
  BY DEF Create, At, Done, TypeOK, Inv, CallInv, assignmentVars
<1>2. CASE s \in staff
  <2>1. UNCHANGED <<rows, work, last, blended, staff, active>>
    BY <1>2 DEF Create, assignmentVars
  <2>2. AloneInv' /\ ManageInv' /\ AsAssigned' /\ \A t : RolesOf(t)' = RolesOf(t)
    BY <2>1, QuietStep
  <2>3. CallInv'
    BY <1>1, <2>1 DEF Inv, CallInv, Through, NoCall
  <2>4. OwnerInv'
    BY <1>1, <2>1, <2>2, OwnersKept DEF Owners, NoCall
  <2>5. QED
    BY <2>2, <2>3, <2>4 DEF Inv
<1>3. CASE s \notin staff
  <2> DEFINE both == {<<"roles", s>>, <<"branches", s>>}
  <2>1. /\ \A l \in Lists : rows'[l] = IF l \in both THEN last'[l] \X {writes + 1} ELSE rows[l]
        /\ staff' = staff \cup {s} /\ active' = active \cup {s}
    BY <1>3 DEF Create
  <2>2. \A l \in Lists : l \notin both => last'[l] = last[l]
    BY <1>3 DEF Create, TypeOK, AssignmentsTypeOK
  <2>3. \A q \in Callers : Working(q) => work[q].list \in Lists /\ work[q].list \notin both
    BY <1>3 DEF Inv, CallInv, Working, NoWork, Through
  <2>4. AloneInv'
    BY <1>1, <2>1, <2>3 DEF Inv, AloneInv, Working
  <2>5. CallInv'
    BY <1>1, <2>1 DEF Inv, CallInv, Through, NoCall
  <2>6. AsAssigned'
    <3> SUFFICES ASSUME NEW l \in Lists \ blended PROVE Held(l)' = last'[l]
      BY <1>1 DEF AsAssigned
    <3>1. CASE l \in both
      <4>1. rows'[l] = {} \cup (last'[l] \X {writes + 1})
        BY <2>1, <3>1
      <4>2. QED
        BY <4>1, HeldAfter
    <3>2. CASE l \notin both
      BY <2>1, <2>2, <3>2, HeldSame DEF Inv, AsAssigned
    <3>3. QED
      BY <3>1, <3>2
  <2>7. ManageInv'
    <3>1. <<"grants", Owner>> \in Lists /\ <<"grants", Owner>> \notin both
      BY ListsAre, StaffAssumption
    <3>2. QED
      BY <2>1, <3>1, HeldSame DEF Inv, ManageInv
  <2>8. OwnerInv'
    <3>1. ASSUME NEW t \in Owners PROVE t \in Owners'
      <4>1. t \in staff /\ t \in Staff /\ t # s /\ t \in active
        BY <1>3 DEF Owners, TypeOK
      <4>2. <<"roles", t>> \in Lists /\ <<"roles", t>> \notin both
        BY <4>1, ListsAre
      <4>3. RolesOf(t)' = RolesOf(t)
        BY <2>1, <4>2, HeldSame DEF RolesOf
      <4>4. QED
        BY <2>1, <4>1, <4>3 DEF Owners
    <3>2. QED
      BY <1>1, <3>1, OwnersKept DEF NoCall
  <2>9. QED
    BY <2>4, <2>5, <2>6, <2>7, <2>8 DEF Inv
<1>4. QED
  BY <1>2, <1>3

LEMMA SetActiveStep ==
    ASSUME TypeOK, Inv, NEW p \in Callers, SetActive(p)
    PROVE  Inv'
<1> DEFINE s == call[p].target
<1>1. /\ call[p].step = "allowed"
      /\ call'[p] = NoCall /\ \A q \in Callers : q # p => call'[q] = call[q]
      /\ UNCHANGED <<rows, work, last, blended, staff, crossed>>
  BY DEF SetActive, Done, TypeOK, assignmentVars
<1>2. AloneInv' /\ ManageInv' /\ AsAssigned' /\ \A t : RolesOf(t)' = RolesOf(t)
  BY <1>1, QuietStep
<1>3. CallInv'
  BY <1>1 DEF Inv, CallInv, Through, NoCall
<1>4. OwnerInv'
  <2>1. CASE active' = active \cup {s}
    <3>1. Owners \subseteq Owners'
      BY <1>2, <2>1 DEF Owners
    <3>2. QED
      BY <1>1, <3>1, OwnersKept DEF NoCall
  <2>2. CASE call[p].kind = "deactivate" /\ active' = active \ {s}
    <3>1. Owners \ {s} \subseteq Owners' /\ Through(p) /\ Removal(p)
      BY <1>1, <1>2, <2>2 DEF Owners, Through, Removal
    <3>2. QED
      BY <1>1, <3>1, OwnersKept DEF NoCall
  <2>3. QED
    BY <2>1, <2>2 DEF SetActive
<1>5. QED
  BY <1>2, <1>3, <1>4 DEF Inv

\* Whoever is on the list already is alone no longer, nor is the newcomer.
LEMMA AssignStep ==
    ASSUME TypeOK, Inv, NEW p \in Callers, Assign(p)
    PROVE  Inv'
<1> DEFINE l == <<call[p].kind, call[p].target>>
<1>1. /\ call[p].step = "allowed" /\ call[p].kind \in {"roles", "branches", "grants"}
      /\ call'[p].step = "working" /\ call'[p].kind = call[p].kind
      /\ call'[p].target = call[p].target /\ call'[p].set = call[p].set
      /\ \A q \in Callers : q # p => call'[q] = call[q]
      /\ UNCHANGED <<rows, writes, last, blended, staff, active, crossed>>
  BY DEF Assign, Open, GoTo, TypeOK, Calls
<1>2. l \in Lists
  BY <1>1, StaffAssumption DEF Inv, CallInv, Through, TypeOK
<1>3. /\ work'[p].step = "opened" /\ work'[p].list = l /\ work'[p].set = call[p].set
      /\ work'[p].seen = rows[l] /\ (work'[p].alone => OnList(l) = {})
      /\ \A q \in Callers : q # p /\ q \in OnList(l) =>
            /\ work'[q].step = work[q].step /\ work'[q].list = work[q].list
            /\ work'[q].set = work[q].set
            /\ ~work'[q].alone
      /\ \A q \in Callers : q # p /\ q \notin OnList(l) => work'[q] = work[q]
  BY DEF Assign, Open, TypeOK, AssignmentsTypeOK, Works
<1>4. CallInv'
  <2>1. \A q \in Callers : q \in OnList(l) => call[q].step = "working"
    BY DEF OnList, Working, Inv, CallInv, NoWork
  <2>2. QED
    BY <1>1, <1>2, <1>3, <2>1 DEF Inv, CallInv, Through
<1>5. AloneInv'
  BY <1>1, <1>3 DEF Inv, AloneInv, Working, OnList
<1>6. ManageInv' /\ AsAssigned' /\ \A t : RolesOf(t)' = RolesOf(t)
  BY <1>1 DEF Inv, ManageInv, AsAssigned, Held, RolesOf
<1>7. OwnerInv'
  <2>1. Owners' = Owners
    BY <1>1, <1>6 DEF Owners
  <2>2. \A q \in Callers : /\ Through(q)' <=> Through(q)
                           /\ Removal(q)' <=> Removal(q)
                           /\ call'[q].target = call[q].target
    BY <1>1 DEF Through, Removal
  <2>3. QED
    BY <1>1, <2>1, <2>2 DEF Inv, OwnerInv
<1>8. QED
  BY <1>4, <1>5, <1>6, <1>7 DEF Inv

LEMMA DeleteStep ==
    ASSUME TypeOK, Inv, NEW p \in Callers, DeleteRows(p)
    PROVE  Inv'
<1>1. /\ work[p].step = "opened"
      /\ work'[p].step = "deleted" /\ work'[p].list = work[p].list
      /\ work'[p].set = work[p].set /\ work'[p].alone = work[p].alone
      /\ work'[p].seen = work[p].seen \cap rows[work[p].list]
      /\ \A q \in Callers : q # p => work'[q] = work[q]
      /\ UNCHANGED <<rows, writes, last, blended, staff, active, call, crossed>>
  BY DEF DeleteRows, Delete, TypeOK, AssignmentsTypeOK, Works
<1>2. CallInv'
  <2>1. call[p].step = "working"
    BY <1>1, NoneFields DEF Inv, CallInv
  <2>2. QED
    BY <1>1, <2>1 DEF Inv, CallInv, Through
<1>3. AloneInv'
  <2>1. work[p].alone => work'[p].seen = rows[work[p].list]
    BY <1>1 DEF Inv, AloneInv, Working
  <2>2. \A q \in Callers : /\ Working(q)' <=> Working(q)
                           /\ work'[q].list = work[q].list /\ work'[q].alone = work[q].alone
                           /\ q # p => work'[q].seen = work[q].seen
    BY <1>1 DEF Working
  <2>3. \A q \in Callers : work'[q].alone /\ Working(q) => work'[q].seen = rows[work[q].list]
    BY <2>1, <2>2 DEF Inv, AloneInv
  <2>4. QED
    BY <1>1, <2>2, <2>3 DEF Inv, AloneInv
<1>4. ManageInv' /\ AsAssigned' /\ OwnerInv'
  BY <1>1 DEF Inv, ManageInv, AsAssigned, OwnerInv, Owners, Held, RolesOf, Through, Removal
<1>5. QED
  BY <1>2, <1>3, <1>4 DEF Inv

\* A transaction that ran alone leaves what it was given; one that did not
\* leaves at least that.
LEMMA InsertStep ==
    ASSUME TypeOK, Inv, NEW p \in Callers, InsertRows(p)
    PROVE  Inv'
<1>0. PICK l, S, stay : l = work[p].list /\ S = work[p].set /\ stay = rows[l] \ work[p].seen
  OBVIOUS
<1>1. /\ work[p].step = "deleted" /\ work'[p] = NoWork
      /\ \A q \in Callers : q # p => work'[q] = work[q] /\ call'[q] = call[q]
      /\ call'[p] = NoCall
      /\ UNCHANGED <<staff, active, crossed>>
  BY DEF InsertRows, Insert, Done, Ended, TypeOK, AssignmentsTypeOK
<1>2. /\ call[p].step = "working" /\ l = <<call[p].kind, call[p].target>> /\ l \in Lists
      /\ call[p].kind \in {"roles", "branches", "grants"}
      /\ S = call[p].set
  BY <1>0, <1>1, NoneFields DEF Inv, CallInv
<1>3. CallInv'
  BY <1>1, NoneFields DEF Inv, CallInv, Through
<1>4. CASE UNCHANGED <<rows, writes, last, blended>>
  <2>1. AloneInv'
    BY <1>1, <1>4 DEF Inv, AloneInv, Working, NoWork
  <2>2. ManageInv' /\ AsAssigned' /\ \A t : RolesOf(t)' = RolesOf(t)
    BY <1>4 DEF Inv, ManageInv, AsAssigned, Held, RolesOf
  <2>3. OwnerInv'
    BY <1>1, <2>2, OwnersKept DEF Owners, NoCall
  <2>4. QED
    BY <1>3, <2>1, <2>2, <2>3 DEF Inv
<1>5. CASE /\ rows' = [rows EXCEPT ![l] = stay \cup (S \X {writes + 1})]
           /\ last' = [last EXCEPT ![l] = S]
           /\ blended' = IF work[p].alone THEN blended \ {l} ELSE blended \cup {l}
  <2>1. /\ rows'[l] = stay \cup (S \X {writes + 1}) /\ last'[l] = S
        /\ \A k \in Lists : k # l => rows'[k] = rows[k] /\ last'[k] = last[k]
        /\ stay \in SUBSET Rows
    BY <1>0, <1>2, <1>5 DEF TypeOK, AssignmentsTypeOK
  <2>2. S \subseteq Held(l)' /\ (stay = {} => Held(l)' = S)
    <3>1. PICK n : n = writes + 1
      OBVIOUS
    <3>2. rows'[l] = stay \cup (S \X {n}) /\ stay \in SUBSET Rows
      BY <2>1, <3>1
    <3>3. QED
      BY <3>2, HeldAfter
  <2>3. \A k \in Lists : k # l => Held(k)' = Held(k)
    BY <2>1, HeldSame
  <2>4. AloneInv'
    <3> SUFFICES ASSUME NEW q \in Callers, Working(q)', work'[q].alone
                 PROVE  /\ work'[q].seen = rows'[work'[q].list]
                        /\ \A r \in Callers : Working(r)' /\ work'[r].list = work'[q].list => r = q
      BY DEF AloneInv
    <3>1. q # p /\ work'[q] = work[q] /\ Working(q) /\ Working(p)
      BY <1>1 DEF Working, NoWork
    <3>2. work[q].list # l /\ work[q].list \in Lists
      BY <1>0, <3>1 DEF Inv, AloneInv, CallInv, Working, NoWork
    <3>3. \A r \in Callers : Working(r)' => Working(r) /\ work'[r] = work[r]
      BY <1>1 DEF Working, NoWork
    <3>4. QED
      BY <2>1, <3>1, <3>2, <3>3 DEF Inv, AloneInv
  <2>5. AsAssigned'
    <3> SUFFICES ASSUME NEW k \in Lists \ blended' PROVE Held(k)' = last'[k]
      BY DEF AsAssigned
    <3>1. CASE k = l
      <4>1. work[p].alone
        BY <1>5, <3>1
      <4>2. stay = {}
        BY <1>0, <1>1, <4>1 DEF Inv, AloneInv, Working
      <4>3. QED
        BY <2>1, <2>2, <3>1, <4>2
    <3>2. CASE k # l
      BY <1>5, <2>1, <2>3, <3>2 DEF Inv, AsAssigned
    <3>3. QED
      BY <3>1, <3>2
  <2>6. ManageInv'
    <3>1. CASE l = <<"grants", Owner>>
      <4>1. Manage \in S
        BY <1>2, <3>1 DEF Inv, CallInv
      <4>2. QED
        BY <2>2, <3>1, <4>1 DEF ManageInv
    <3>2. CASE l # <<"grants", Owner>>
      BY <2>3, <3>2, ListsAre, StaffAssumption DEF Inv, ManageInv
    <3>3. QED
      BY <3>1, <3>2
  <2>7. OwnerInv'
    <3>1. ASSUME NEW t \in Owners, ~(t = call[p].target /\ Removal(p))
          PROVE  t \in Owners'
      <4>1. t \in Staff /\ t \in active /\ Owner \in RolesOf(t) /\ <<"roles", t>> \in Lists
        BY ListsAre DEF Owners, TypeOK
      <4>2. CASE l = <<"roles", t>>
        <5>1. call[p].kind = "roles" /\ t = call[p].target
          BY <1>2, <4>2
        <5>2. Owner \in S
          BY <1>2, <3>1, <5>1 DEF Removal
        <5>3. QED
          BY <1>1, <2>2, <4>1, <4>2, <5>2 DEF Owners, RolesOf
      <4>3. CASE l # <<"roles", t>>
        BY <1>1, <2>3, <4>1, <4>3 DEF Owners, RolesOf
      <4>4. QED
        BY <4>2, <4>3
    <3>2. \/ Owners \subseteq Owners'
          \/ Through(p) /\ Removal(p) /\ Owners \ {call[p].target} \subseteq Owners'
      BY <1>2, <3>1 DEF Through
    <3>3. QED
      BY <1>1, <3>2, OwnersKept DEF NoCall
  <2>8. QED
    BY <1>3, <2>4, <2>5, <2>6, <2>7 DEF Inv
<1>6. QED
  BY <1>0, <1>4, <1>5 DEF InsertRows, Insert

LEMMA FailStep ==
    ASSUME TypeOK, Inv, NEW p \in Callers, Fail(p)
    PROVE  Inv'
<1>1. /\ work'[p] = NoWork /\ call'[p] = NoCall
      /\ \A q \in Callers : q # p => work'[q] = work[q] /\ call'[q] = call[q]
      /\ UNCHANGED <<rows, writes, last, blended, staff, active, crossed>>
  BY DEF Fail, RollBack, Done, Ended, TypeOK, AssignmentsTypeOK
<1>2. CallInv'
  BY <1>1, NoneFields DEF Inv, CallInv, Through
<1>3. AloneInv'
  BY <1>1 DEF Inv, AloneInv, Working, NoWork
<1>4. ManageInv' /\ AsAssigned' /\ \A t : RolesOf(t)' = RolesOf(t)
  BY <1>1 DEF Inv, ManageInv, AsAssigned, Held, RolesOf
<1>5. OwnerInv'
  BY <1>1, <1>4, OwnersKept DEF Owners, NoCall
<1>6. QED
  BY <1>2, <1>3, <1>4, <1>5 DEF Inv

-----------------------------------------------------------------------------
(* Theorems.                                                                 *)

\* Types and the invariant hold together: the types of a change need CallInv.
THEOREM Inductive == Spec => [](TypeOK /\ Inv)
<1>1. TypeOK /\ Inv /\ [Next]_vars => TypeOK' /\ Inv'
  <2> SUFFICES ASSUME TypeOK, Inv, [Next]_vars PROVE TypeOK' /\ Inv'
    OBVIOUS
  <2>1. ASSUME NEW p \in Callers, AskAnything(p) PROVE TypeOK' /\ Inv'
    BY <2>1, AskTypes, AskStep
  <2>2. ASSUME NEW p \in Callers, CheckIt(p) PROVE TypeOK' /\ Inv'
    BY <2>2, CheckTypes, CheckStep
  <2>3. ASSUME NEW p \in Callers, Change(p) PROVE TypeOK' /\ Inv'
    <3>1. TypeOK'
      BY <2>3, ChangeTypes DEF Inv
    <3>2. QED
      BY <2>3, <3>1, CreateStep, SetActiveStep, AssignStep, DeleteStep, InsertStep, FailStep
         DEF Change
  <2>4. CASE UNCHANGED vars
    BY <2>4 DEF vars, assignmentVars, TypeOK, AssignmentsTypeOK, Inv, CallInv, AloneInv, OwnerInv,
                ManageInv, AsAssigned, Held, Working, RolesOf, Owners, Through, Removal
  <2>5. QED
    BY <2>1, <2>2, <2>3, <2>4 DEF Next
<1>2. QED
  BY <1>1, InitTypes, InitInv, PTL DEF Spec

\* Every variable keeps its range.
THEOREM TypeCorrect == Spec => []TypeOK
BY Inductive, PTL

\* An active OWNER is left, with role.manage, unless two removals crossed.
THEOREM OwnerIsLeft == Spec => []SomeoneCanManage
<1>1. TypeOK /\ Inv => SomeoneCanManage
  BY DEF Inv, OwnerInv, ManageInv, SomeoneCanManage
<1>2. QED
  BY <1>1, Inductive, PTL

\* A list is what was assigned last, unless two assignments of it overlapped.
THEOREM ListsAsAssigned == Spec => []AsAssigned
<1>1. TypeOK /\ Inv => AsAssigned
  BY DEF Inv
<1>2. QED
  BY <1>1, Inductive, PTL

=============================================================================
