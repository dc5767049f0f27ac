---------------------------- MODULE Assignments ----------------------------
(***************************************************************************)
(* Lists that are replaced as a whole, in one transaction: deleteMany of   *)
(* the rows that are there, then createMany of the new ones.  The services *)
(* keep the roles and branches of a staff member this way, the permissions *)
(* of a role, the add-ons of a product, its branches and its variants'.    *)
(*                                                                         *)
(* PostgreSQL runs them at READ COMMITTED.  A DELETE works on the rows     *)
(* that were committed when the statement began, waits for whoever has     *)
(* deleted one of them, and then skips what is gone: rows that were        *)
(* inserted meanwhile stay.  An INSERT of a row that is there under the    *)
(* same key fails, and the transaction rolls back.                         *)
(***************************************************************************)
EXTENDS Integers, FiniteSets

CONSTANTS
    Callers,    \* requests under way
    Lists,
    Members,    \* what a list may hold
    MaxWrites   \* bound on the assignments

ASSUME AssignmentsAssumption == MaxWrites \in Nat

VARIABLES
    rows,       \* per list, its rows: a member and the assignment that wrote it
    writes,     \* assignments so far
    work,       \* per caller, its transaction
    last,       \* history: what was assigned last
    blended     \* lists whose last assignment did not run alone

assignmentVars == <<rows, writes, work, last, blended>>

Rows == Members \X (0 .. MaxWrites)

NoList == <<>>

Works == [step : {"none", "opened", "deleted"}, list : Lists \cup {NoList},
          set : SUBSET Members, seen : SUBSET Rows, alone : BOOLEAN]

NoWork == [step |-> "none", list |-> NoList, set |-> {}, seen |-> {}, alone |-> FALSE]

\* What a reader finds in the list.
Held(l) == {r[1] : r \in rows[l]}

AssignmentsTypeOK ==
    /\ rows \in [Lists -> SUBSET Rows]
    /\ writes \in 0 .. MaxWrites
    /\ work \in [Callers -> Works]
    /\ last \in [Lists -> SUBSET Members]
    /\ blended \in SUBSET Lists

Working(p) == work[p].step # "none"

OnList(l) == {p \in Callers : Working(p) /\ work[p].list = l}

Ended(p) == [work EXCEPT ![p] = NoWork]

-----------------------------------------------------------------------------

\* deleteMany is sent: the statement takes its snapshot.
Open(p, l, S) ==
    /\ ~Working(p)
    /\ work' = [q \in Callers |->
                  IF q = p THEN [step |-> "opened", list |-> l, set |-> S, seen |-> rows[l],
                                 alone |-> OnList(l) = {}]
                  ELSE IF q \in OnList(l) THEN [work[q] EXCEPT !.alone = FALSE]
                  ELSE work[q]]
    /\ UNCHANGED <<rows, writes, last, blended>>

\* Rows that another transaction has deleted are waited for.
Delete(p) ==
    LET l == work[p].list IN
    /\ work[p].step = "opened"
    /\ \A q \in OnList(l) : work[q].step = "deleted"
                              => work[q].seen \cap work[p].seen \cap rows[l] = {}
    /\ work' = [work EXCEPT ![p].step = "deleted", ![p].seen = @ \cap rows[l]]
    /\ UNCHANGED <<rows, writes, last, blended>>

\* Mutant: the old rows are not deleted, and duplicates are skipped.
InsertMutant(p) ==
    LET l == work[p].list IN
    /\ work[p].step = "deleted"
    /\ writes < MaxWrites
    /\ writes' = writes + 1
    /\ rows' = [rows EXCEPT ![l] = @ \cup (work[p].set \X {writes + 1})]
    /\ last' = [last EXCEPT ![l] = work[p].set]
    /\ blended' = IF work[p].alone THEN blended \ {l} ELSE blended \cup {l}
    /\ work' = Ended(p)

\* createMany, and the commit; or a unique violation, and the rollback.
Insert(p) ==
    LET l == work[p].list  stay == rows[l] \ work[p].seen IN
    /\ work[p].step = "deleted"
    /\ writes < MaxWrites
    /\ IF \E r \in stay : r[1] \in work[p].set
         THEN UNCHANGED <<rows, writes, last, blended>>
         ELSE /\ writes' = writes + 1
              /\ rows' = [rows EXCEPT ![l] = stay \cup (work[p].set \X {writes + 1})]
              /\ last' = [last EXCEPT ![l] = work[p].set]
              /\ blended' = IF work[p].alone THEN blended \ {l} ELSE blended \cup {l}
    /\ work' = Ended(p)

\* A statement fails or the connection breaks: everything is rolled back.
RollBack(p) ==
    /\ work' = Ended(p)
    /\ UNCHANGED <<rows, writes, last, blended>>

-----------------------------------------------------------------------------

\* What was assigned is what is there, unless another assignment of the same
\* list ran at the same time; the next one that runs alone repairs the list.
AsAssigned == \A l \in Lists \ blended : Held(l) = last[l]

=============================================================================
