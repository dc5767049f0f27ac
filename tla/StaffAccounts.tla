--------------------------- MODULE StaffAccounts ---------------------------
(***************************************************************************)
(* Staff accounts, their roles and branches, and the permissions of the    *)
(* roles (services/api/src/staff and /roles).                              *)
(*                                                                         *)
(* The safety net of the module is assertNotLastActiveOwner: no change may *)
(* leave the organization without an active OWNER.  Whether a change would *)
(* is read before its transaction, in one or two queries, so requests of   *)
(* several administrators interleave between the question and the change.  *)
(* A request is admitted if its actor is active; which permissions a token *)
(* carries is not modelled, since it may carry what a role granted when it *)
(* was issued: any active member may ask for anything.                     *)
(***************************************************************************)
EXTENDS Assignments

CONSTANTS
    Staff,
    Founder,    \* the OWNER account the seed creates
    Roles,
    Owner,      \* the role OWNER
    Branches,
    Permissions,
    Manage      \* the permission role.manage

ASSUME StaffAssumption ==
    /\ Founder \in Staff
    /\ Owner \in Roles
    /\ Manage \in Permissions
    /\ Lists = ({"roles", "branches"} \X Staff) \cup ({"grants"} \X Roles)
    /\ Members = Roles \cup Branches \cup Permissions

VARIABLES
    staff,      \* the accounts there are
    active,     \* those with isActive
    call,       \* the request a caller handles
    crossed     \* history: two removals of different owners passed their checks at once

vars == <<assignmentVars, staff, active, call, crossed>>

Kinds == {"create", "deactivate", "reactivate", "roles", "branches", "grants"}

Calls == [step : {"idle", "asked", "counting", "allowed", "working"},
          kind : Kinds, target : Staff \cup Roles, set : SUBSET Members]

NoCall == [step |-> "idle", kind |-> "create", target |-> Founder, set |-> {}]

TypeOK ==
    /\ AssignmentsTypeOK
    /\ staff \in SUBSET Staff
    /\ active \in SUBSET staff
    /\ call \in [Callers -> Calls]
    /\ crossed \in BOOLEAN

RolesOf(s) == Held(<<"roles", s>>)

Owners == {s \in active : Owner \in RolesOf(s)}

\* The seed: every role with its permissions, and one OWNER.
Init ==
    /\ last = [l \in Lists |->
                 CASE l = <<"roles", Founder>> -> {Owner}
                   [] l[1] = "grants" -> IF l[2] = Owner THEN Permissions ELSE {}
                   [] OTHER -> {}]
    /\ rows = [l \in Lists |-> last[l] \X {0}]
    /\ writes = 0
    /\ work = [p \in Callers |-> NoWork]
    /\ blended = {}
    /\ staff = {Founder}
    /\ active = {Founder}
    /\ call = [p \in Callers |-> NoCall]
    /\ crossed = FALSE

-----------------------------------------------------------------------------

Idle(p) == call[p].step = "idle"

At(p, step, kind) == call[p].step = step /\ call[p].kind = kind

GoTo(p, step) == call' = [call EXCEPT ![p].step = step]

\* A request that may take the last owner away, once it is let through.
Removal(p) ==
    \/ call[p].kind = "deactivate"
    \/ call[p].kind = "roles" /\ Owner \notin call[p].set

Through(p) == call[p].step \in {"allowed", "working"}

\* The request passes its checks.
Allow(p) ==
    /\ GoTo(p, "allowed")
    /\ crossed' = (crossed \/ (/\ Removal(p)
                               /\ \E q \in Callers : /\ Through(q) /\ Removal(q)
                                                     /\ call[q].target # call[p].target))

Done(p) == call' = [call EXCEPT ![p] = NoCall]

Refuse(p) == Done(p) /\ UNCHANGED crossed

-----------------------------------------------------------------------------
(* A request: who may ask, and for what.                                     *)

\* JwtStrategy.validate and PermissionsGuard let an active member through.
Admit(p) == Idle(p) /\ active # {}

\* Bound: every assignment that was asked for can still be made.
Room == writes + Cardinality({q \in Callers : ~Idle(q) /\ call[q].set # {}}) < MaxWrites

Ask(p, kind, target, S) ==
    call' = [call EXCEPT ![p] = [step |-> "asked", kind |-> kind, target |-> target, set |-> S]]

AskRoles(p) ==
    /\ Admit(p)
    /\ Room
    /\ \E kind \in {"create", "roles"}, s \in Staff, S \in SUBSET Roles \ {{}} : Ask(p, kind, s, S)
    /\ UNCHANGED <<assignmentVars, staff, active, crossed>>

AskBranches(p) ==
    /\ Admit(p)
    /\ Room
    /\ \E s \in Staff, S \in SUBSET Branches \ {{}} : Ask(p, "branches", s, S)
    /\ UNCHANGED <<assignmentVars, staff, active, crossed>>

\* assertNotActingOnSelf: a member does not deactivate themselves.
AskActive(p) ==
    /\ Admit(p)
    /\ \E s \in Staff : \/ \E a \in active : a # s /\ Ask(p, "deactivate", s, {})
                        \/ Ask(p, "reactivate", s, {})
    /\ UNCHANGED <<assignmentVars, staff, active, crossed>>

\* updateRolePermissions: the OWNER role must always retain role.manage.
AskGrants(p) ==
    /\ Admit(p)
    /\ Room
    /\ \E r \in Roles, S \in SUBSET Permissions :
          /\ r = Owner => Manage \in S
          /\ Ask(p, "grants", r, S)
    /\ UNCHANGED <<assignmentVars, staff, active, crossed>>

-----------------------------------------------------------------------------
(* The checks, before any transaction.                                       *)

\* create: the e-mail address is not taken.
CheckCreate(p) ==
    /\ At(p, "asked", "create")
    /\ IF call[p].target \in staff THEN Refuse(p) ELSE Allow(p)
    /\ UNCHANGED <<assignmentVars, staff, active>>

\* update with isActive false, and deactivate: the owners are counted next.
CheckDeactivate(p) ==
    /\ At(p, "asked", "deactivate")
    /\ IF call[p].target \in staff THEN GoTo(p, "counting") ELSE Done(p)
    /\ UNCHANGED <<assignmentVars, staff, active, crossed>>

\* Mutant: the roles are not looked at.
CheckRolesMutant(p) ==
    /\ At(p, "asked", "roles")
    /\ IF call[p].target \in staff THEN Allow(p) ELSE Refuse(p)
    /\ UNCHANGED <<assignmentVars, staff, active>>

\* assignRoles: whether OWNER is taken away is decided on the roles read here.
CheckRoles(p) ==
    LET s == call[p].target IN
    /\ At(p, "asked", "roles")
    /\ CASE s \notin staff -> Refuse(p)
         [] s \in staff /\ Owner \in RolesOf(s) /\ Owner \notin call[p].set ->
              GoTo(p, "counting") /\ UNCHANGED crossed
         [] OTHER -> Allow(p)
    /\ UNCHANGED <<assignmentVars, staff, active>>

\* The other requests only look whether their target is there.
CheckTarget(p) ==
    /\ call[p].step = "asked"
    /\ call[p].kind \in {"reactivate", "branches", "grants"}
    /\ IF call[p].kind = "grants" \/ call[p].target \in staff THEN Allow(p) ELSE Refuse(p)
    /\ UNCHANGED <<assignmentVars, staff, active>>

\* assertNotLastActiveOwner: active owners other than the target are counted.
CountOwners(p) ==
    /\ call[p].step = "counting"
    /\ IF Owners \ {call[p].target} = {} THEN Refuse(p) ELSE Allow(p)
    /\ UNCHANGED <<assignmentVars, staff, active>>

-----------------------------------------------------------------------------
(* The transactions.                                                         *)

\* The member is created with roles and branches; a taken e-mail address now
\* violates the unique index.
Create(p) ==
    LET s == call[p].target IN
    /\ At(p, "allowed", "create")
    /\ Done(p)
    /\ IF s \in staff
         THEN UNCHANGED <<assignmentVars, staff, active>>
         ELSE /\ writes < MaxWrites
              /\ writes' = writes + 1
              /\ \E B \in SUBSET Branches \ {{}} :
                    last' = [last EXCEPT ![<<"roles", s>>] = call[p].set,
                                         ![<<"branches", s>>] = B]
              /\ rows' = [l \in Lists |-> IF l \in {<<"roles", s>>, <<"branches", s>>}
                                            THEN last'[l] \X {writes + 1} ELSE rows[l]]
              /\ staff' = staff \cup {s}
              /\ active' = active \cup {s}
              /\ UNCHANGED <<work, blended>>
    /\ UNCHANGED crossed

SetActive(p) ==
    LET s == call[p].target IN
    /\ call[p].step = "allowed"
    /\ \/ call[p].kind = "deactivate" /\ active' = active \ {s}
       \/ call[p].kind = "reactivate" /\ active' = active \cup {s}
    /\ Done(p)
    /\ UNCHANGED <<assignmentVars, staff, crossed>>

\* assignRoles, assignBranches, updateRolePermissions: the list is replaced.
Assign(p) ==
    /\ call[p].step = "allowed"
    /\ call[p].kind \in {"roles", "branches", "grants"}
    /\ Open(p, <<call[p].kind, call[p].target>>, call[p].set)
    /\ GoTo(p, "working")
    /\ UNCHANGED <<staff, active, crossed>>

DeleteRows(p) == Delete(p) /\ UNCHANGED <<staff, active, call, crossed>>

InsertRows(p) == Insert(p) /\ Done(p) /\ UNCHANGED <<staff, active, crossed>>

\* A query fails, before the transaction or in it.
Fail(p) ==
    /\ ~Idle(p)
    /\ Done(p)
    /\ RollBack(p)
    /\ UNCHANGED <<staff, active, crossed>>

-----------------------------------------------------------------------------

AskAnything(p) == AskRoles(p) \/ AskBranches(p) \/ AskActive(p) \/ AskGrants(p)

CheckIt(p) ==
    CheckCreate(p) \/ CheckDeactivate(p) \/ CheckRoles(p) \/ CheckTarget(p) \/ CountOwners(p)

Change(p) ==
    Create(p) \/ SetActive(p) \/ Assign(p) \/ DeleteRows(p) \/ InsertRows(p) \/ Fail(p)

Next == \E p \in Callers : AskAnything(p) \/ CheckIt(p) \/ Change(p)

Spec == Init /\ [][Next]_vars

-----------------------------------------------------------------------------
(* Properties.                                                               *)

\* The safety net (staff.service.ts:304, roles.service.ts:45): someone can
\* always repair the accounts: an active OWNER is left, and OWNER grants
\* role.manage, unless removals of two owners passed their checks at once.
SomeoneCanManage ==
    /\ crossed \/ Owners # {}
    /\ Manage \in Held(<<"grants", Owner>>)

=============================================================================
