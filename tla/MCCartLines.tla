---------------------------- MODULE MCCartLines ----------------------------
(* One product in one size, an add-on and two branches; two devices of the   *)
(* customer.                                                                 *)
EXTENDS CartLines, TLC

CONSTANTS s1, d1, d2, cake, kg, nuts, main, mall

MCCallers == {s1}
MCDevices == {d1, d2}
MCEntities == {cake, kg, nuts, main, mall}
MCKindOf == (cake :> "product" @@ kg :> "variant" @@ nuts :> "addon"
             @@ main :> "branch" @@ mall :> "branch")
MCParent == [e \in MCEntities |-> IF e = kg THEN cake ELSE e]
MCSeeds == {MCEntities}
MCLists == {<<"addons", cake>>, <<"branches", cake>>, <<"variantBranches", kg>>}
MCMembers == {nuts, main, mall}
MCInitially == {[l \in MCLists |-> IF l[1] = "branches" THEN B ELSE {}] :
                  B \in {{main, mall}, {main}, {mall}}}

\* Bounds: the catalogue changes under one addItem at a time, and up to the
\* first line; both devices ask while it rests.
Few == /\ Cardinality({d \in MCDevices : Waits(d)}) <= 1
       /\ \A d \in MCDevices : Waits(d) => call[d].step \in {"asked", "viewed", "found"}
       /\ lines <= 1
       /\ carts <= 1

MCNext == (Few /\ CatalogueStep) \/ (CartStep /\ UNCHANGED catalogueVars)

MCSpec == CartInit /\ [][MCNext]_vars

\* And only what addItem reads is changed, and a column that is given changes.
Matters(s) ==
    /\ edit[s].step # "idle" => edit[s].on \in {cake, kg, nuts}
    /\ edit[s].step = "update" => /\ edit[s].value # edit[s].seen.value
                                  /\ edit[s].details = Keep
                                  /\ edit[s].isActive # edit[s].seen.isActive
    /\ work[s].list # <<"addons", cake>>

Rests == /\ edits + writes = 0
         /\ \A s \in MCCallers : edit[s].step = "idle"
         /\ Held(<<"branches", cake>>) = {main, mall}

Bounds == (Rests \/ Few) /\ \A s \in MCCallers : Matters(s)

Symmetry == Permutations(MCDevices) \cup Permutations({main, mall})

=============================================================================
