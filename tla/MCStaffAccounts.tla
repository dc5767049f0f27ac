-------------------------- MODULE MCStaffAccounts --------------------------
(* Two members, of whom one exists, and two requests at a time.              *)
EXTENDS StaffAccounts, TLC

CONSTANTS a, b, p1, p2

MCStaff == {a, b}
MCCallers == {p1, p2}
MCRoles == {"OWNER", "MANAGER"}
MCBranches == {"X"}
MCPermissions == {"role.manage"}
MCLists == ({"roles", "branches"} \X MCStaff) \cup ({"grants"} \X MCRoles)
MCMembers == MCRoles \cup MCBranches \cup MCPermissions

Symmetry == Permutations(MCCallers)

=============================================================================
