SPECIFICATION Spec
CONSTANTS
    a = a
    b = b
    p1 = p1
    p2 = p2
    Staff <- MCStaff
    Founder = a
    Callers <- MCCallers
    Roles <- MCRoles
    Owner = "OWNER"
    Branches <- MCBranches
    Permissions <- MCPermissions
    Manage = "role.manage"
    Lists <- MCLists
    Members <- MCMembers
    MaxWrites = 3
SYMMETRY Symmetry
INVARIANTS SomeoneCanManage AsAssigned
CHECK_DEADLOCK FALSE
