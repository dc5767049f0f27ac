---------------------------- MODULE MCCatalogue ----------------------------
(* A row of each kind, at first some or all of them or none.                 *)
EXTENDS Catalogue, TLC

CONSTANTS p1, p2, sweets, cake, kg, nuts, main, near, diwali, asha

MCCallers == {p1, p2}
MCEntities == {sweets, cake, kg, nuts, main, near, diwali, asha}
MCKindOf == (sweets :> "category" @@ cake :> "product" @@ kg :> "variant" @@ nuts :> "addon"
             @@ main :> "branch" @@ near :> "zone" @@ diwali :> "coupon" @@ asha :> "customer")
MCParent == [e \in MCEntities |-> CASE e = cake -> sweets [] e = kg -> cake
                                    [] e = near -> main [] OTHER -> e]
MCSeeds == {{}, {sweets, cake}, MCEntities}
MCLists == {<<"addons", cake>>, <<"branches", cake>>, <<"variantBranches", kg>>}
MCMembers == {nuts, main}
MCInitially == {[l \in MCLists |-> IF l[1] = "branches" THEN {main} ELSE {}]}

Symmetry == Permutations(MCCallers)

=============================================================================
