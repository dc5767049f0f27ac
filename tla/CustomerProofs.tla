--------------------------- MODULE CustomerProofs ---------------------------
(***************************************************************************)
(* Theorems about what the customer buys from and keeps: the lists of the  *)
(* catalogue and its audit log (Catalogue), the cart (CartLines), the      *)
(* one-time codes and the addresses (CustomerAccounts), for any number of  *)
(* rows, requests and devices.                                             *)
(*                                                                         *)
(* The services read, decide and write later, so every strengthening says  *)
(* of a request in hand what of its reading still holds.  A transaction    *)
(* on a list that is alone has seen the rows there are (AloneInv), an edit *)
(* holds the row as it is unless the row was raced for (SeenInv), a request*)
(* to the cart knows the cart it found (CartInv), and what of the catalogue*)
(* it has met holds unless it was lost (SaleInv), an attempt at a code the *)
(* number of attempts (CodeInv), a change of addresses the default         *)
(* (AddressInv).                                                           *)
(***************************************************************************)
EXTENDS CartLines, CustomerAccounts, FiniteSetTheorems, TLAPS

-----------------------------------------------------------------------------
(* Lists that are replaced (Assignments).                                    *)

\* A transaction that is alone on its list has seen every row of it.
AloneInv ==
    \A p \in Callers : Working(p) =>
        /\ work[p].list \in Lists
        /\ work[p].alone =>
              /\ work[p].seen = rows[work[p].list]
              /\ \A q \in Callers : Working(q) /\ work[q].list = work[p].list => q = p

ListInv == AssignmentsTypeOK /\ AloneInv /\ AsAssigned

LEMMA NoWorkTypes == NoWork \in Works /\ NoWork.step = "none"
BY DEF NoWork, Works

\* What is written is held; all that is held, when no row stays.
LEMMA HeldAfter ==
    ASSUME NEW l, NEW stay \in SUBSET Rows, NEW S, NEW n,
           rows'[l] = stay \cup (S \X {n})
    PROVE  stay = {} => Held(l)' = S
<1> SUFFICES ASSUME stay = {} PROVE Held(l)' = S
  OBVIOUS
<1>1. \A m \in S : <<m, n>> \in rows'[l] /\ <<m, n>>[1] = m
  OBVIOUS
<1>2. \A r \in rows'[l] : r[1] \in S
  OBVIOUS
<1>3. QED
  BY <1>1, <1>2 DEF Held

\* Nothing of the lists changes.
LEMMA SameLists ==
    ASSUME ListInv, UNCHANGED assignmentVars
    PROVE  ListInv'
BY DEF ListInv, AssignmentsTypeOK, AloneInv, AsAssigned, Held, Working, assignmentVars

\* Whoever is on the list already is alone no longer, nor is the newcomer.
LEMMA OpenLists ==
    ASSUME ListInv, NEW p \in Callers, NEW l \in Lists, NEW S \in SUBSET Members,
           Open(p, l, S)
    PROVE  /\ ListInv'
           /\ work'[p].step = "opened"
           /\ \A q \in Callers : q # p => work'[q].step = work[q].step
           /\ \A q \in Callers : q # p /\ work[q] = NoWork => work'[q] = NoWork
<1>1. /\ work'[p] = [step |-> "opened", list |-> l, set |-> S, seen |-> rows[l],
                     alone |-> OnList(l) = {}]
      /\ \A q \in Callers : q # p =>
            work'[q] = IF q \in OnList(l) THEN [work[q] EXCEPT !.alone = FALSE] ELSE work[q]
      /\ UNCHANGED <<rows, writes, last, blended>>
      /\ work' = [q \in Callers |-> work'[q]]
  BY DEF Open
<1>2. work'[p] \in Works
  BY <1>1 DEF Works, ListInv, AssignmentsTypeOK
<1>3. \A q \in Callers : [work[q] EXCEPT !.alone = FALSE] \in Works
  BY DEF Works, ListInv, AssignmentsTypeOK
<1>4. \A q \in Callers : work'[q] \in Works
  BY <1>1, <1>2, <1>3 DEF ListInv, AssignmentsTypeOK
<1>5. work' \in [Callers -> Works]
  BY <1>1, <1>4
<1>6. AssignmentsTypeOK' /\ AsAssigned'
  BY <1>1, <1>5 DEF ListInv, AssignmentsTypeOK, AsAssigned, Held
<1>7. \A q \in Callers : q # p =>
         /\ work'[q].step = work[q].step /\ work'[q].list = work[q].list
         /\ work'[q].seen = work[q].seen
         /\ work'[q].alone => work[q].alone /\ q \notin OnList(l)
  BY <1>1 DEF ListInv, AssignmentsTypeOK, Works
<1>8. \A q \in Callers : q # p /\ work[q] = NoWork => work'[q] = NoWork
  BY <1>1, NoWorkTypes DEF OnList, Working
<1>9. AloneInv'
  <2>1. \A q \in Callers : q # p => (Working(q)' <=> Working(q))
    BY <1>7 DEF Working
  <2>2. /\ work'[p].list = l /\ work'[p].seen = rows'[l]
        /\ work'[p].alone => \A q \in Callers : Working(q) => work[q].list # l
    <3>1. work'[p].list = l /\ work'[p].seen = rows[l] /\ rows' = rows
      BY <1>1
    <3>2. work'[p].alone => OnList(l) = {}
      BY DEF Open
    <3>3. QED
      BY <3>1, <3>2 DEF OnList
  <2>3. \A q \in Callers : q # p /\ Working(q) /\ work'[q].alone => work[q].list # l
    BY <1>7 DEF OnList
  <2>4. \A q \in Callers : Working(q)' => work'[q].list \in Lists
    BY <1>7, <2>1, <2>2 DEF ListInv, AloneInv
  <2>5. \A q \in Callers : Working(q)' /\ work'[q].alone => work'[q].seen = rows'[work'[q].list]
    BY <1>1, <1>7, <2>1, <2>2 DEF ListInv, AloneInv
  <2>6. \A q, r \in Callers :
           Working(q)' /\ work'[q].alone /\ Working(r)' /\ work'[r].list = work'[q].list => r = q
    BY <1>7, <2>1, <2>2, <2>3 DEF ListInv, AloneInv
  <2>7. QED
    BY <2>4, <2>5, <2>6 DEF AloneInv
<1>10. QED
  BY <1>1, <1>6, <1>7, <1>8, <1>9 DEF ListInv

LEMMA DeleteLists ==
    ASSUME ListInv, NEW p \in Callers, Delete(p)
    PROVE  /\ ListInv'
           /\ work[p].step = "opened" /\ work'[p].step = "deleted"
           /\ \A q \in Callers : q # p => work'[q] = work[q]
           /\ UNCHANGED rows
<1>1. /\ work[p].step = "opened"
      /\ work'[p].step = "deleted" /\ work'[p].list = work[p].list
      /\ work'[p].alone = work[p].alone
      /\ work'[p].seen = work[p].seen \cap rows[work[p].list]
      /\ \A q \in Callers : q # p => work'[q] = work[q]
      /\ UNCHANGED <<rows, writes, last, blended>>
  BY DEF Delete, ListInv, AssignmentsTypeOK, Works
<1>2. work' \in [Callers -> Works]
  <2>1. [work[p] EXCEPT !.step = "deleted", !.seen = @ \cap rows[work[p].list]] \in Works
    BY DEF ListInv, AssignmentsTypeOK, Works
  <2>2. QED
    BY <2>1 DEF Delete, ListInv, AssignmentsTypeOK
<1>3. AssignmentsTypeOK' /\ AsAssigned'
  BY <1>1, <1>2 DEF ListInv, AssignmentsTypeOK, AsAssigned, Held
<1>4. AloneInv'
  <2>1. work[p].alone => work'[p].seen = rows[work[p].list]
    BY <1>1 DEF ListInv, AloneInv, Working
  <2>2. \A q \in Callers : /\ Working(q)' <=> Working(q)
                           /\ work'[q].list = work[q].list /\ work'[q].alone = work[q].alone
                           /\ q # p => work'[q].seen = work[q].seen
    BY <1>1 DEF Working
  <2>3. \A q \in Callers : work'[q].alone /\ Working(q) => work'[q].seen = rows[work[q].list]
    BY <2>1, <2>2 DEF ListInv, AloneInv
  <2>4. QED
    BY <1>1, <2>2, <2>3 DEF ListInv, AloneInv
<1>5. QED
  BY <1>1, <1>3, <1>4 DEF ListInv

\* A transaction that ran alone leaves what it was given.
LEMMA InsertLists ==
    ASSUME ListInv, NEW p \in Callers, Insert(p)
    PROVE  /\ ListInv'
           /\ work'[p] = NoWork
           /\ \A q \in Callers : q # p => work'[q] = work[q]
<1>0. PICK l, S, stay : l = work[p].list /\ S = work[p].set /\ stay = rows[l] \ work[p].seen
  OBVIOUS
<1>1. /\ work[p].step = "deleted" /\ work'[p] = NoWork
      /\ \A q \in Callers : q # p => work'[q] = work[q]
      /\ work' \in [Callers -> Works]
  BY NoWorkTypes DEF Insert, Ended, ListInv, AssignmentsTypeOK
<1>2. l \in Lists /\ S \in SUBSET Members /\ stay \in SUBSET Rows
  <2>1. l \in Lists
    BY <1>0, <1>1 DEF ListInv, AloneInv, Working
  <2>2. QED
    BY <1>0, <2>1 DEF ListInv, AssignmentsTypeOK, Works
<1>3. CASE UNCHANGED <<rows, writes, last, blended>>
  <2>1. AloneInv'
    BY <1>1, <1>3, NoWorkTypes DEF ListInv, AloneInv, Working
  <2>2. QED
    BY <1>1, <1>3, <2>1 DEF ListInv, AssignmentsTypeOK, AsAssigned, Held
<1>4. CASE /\ writes < MaxWrites /\ writes' = writes + 1
           /\ rows' = [rows EXCEPT ![l] = stay \cup (S \X {writes + 1})]
           /\ last' = [last EXCEPT ![l] = S]
           /\ blended' = IF work[p].alone THEN blended \ {l} ELSE blended \cup {l}
  <2>1. writes' \in 0 .. MaxWrites /\ writes + 1 \in 0 .. MaxWrites
    BY <1>4, AssignmentsAssumption DEF ListInv, AssignmentsTypeOK
  <2>2. stay \cup (S \X {writes + 1}) \in SUBSET Rows
    BY <1>2, <2>1 DEF Rows
  <2>3. AssignmentsTypeOK'
    BY <1>1, <1>2, <1>4, <2>1, <2>2 DEF ListInv, AssignmentsTypeOK
  <2>4. /\ rows'[l] = stay \cup (S \X {writes + 1}) /\ last'[l] = S
        /\ \A k \in Lists : k # l => rows'[k] = rows[k] /\ last'[k] = last[k]
    BY <1>2, <1>4 DEF ListInv, AssignmentsTypeOK
  <2>5. stay = {} => Held(l)' = S
    <3>1. PICK n : n = writes + 1
      OBVIOUS
    <3>2. rows'[l] = stay \cup (S \X {n})
      BY <2>4, <3>1
    <3>3. QED
      BY <1>2, <3>2, HeldAfter
  <2>6. \A k \in Lists : k # l => Held(k)' = Held(k)
    BY <2>4 DEF Held
  <2>7. AloneInv'
    <3>1. \A q \in Callers : Working(q)' => q # p /\ Working(q) /\ work'[q] = work[q]
      BY <1>1, NoWorkTypes DEF Working
    <3>2. \A q \in Callers : q # p /\ Working(q) /\ work[q].alone => work[q].list # l
      BY <1>0, <1>1 DEF ListInv, AloneInv, Working
    <3>3. QED
      BY <2>4, <3>1, <3>2 DEF ListInv, AloneInv
  <2>8. AsAssigned'
    <3> SUFFICES ASSUME NEW k \in Lists \ blended' PROVE Held(k)' = last'[k]
      BY DEF AsAssigned
    <3>1. CASE k = l
      <4>1. work[p].alone
        BY <1>4, <3>1
      <4>2. stay = {}
        BY <1>0, <1>1, <4>1 DEF ListInv, AloneInv, Working
      <4>3. QED
        BY <2>4, <2>5, <3>1, <4>2
    <3>2. CASE k # l
      BY <1>4, <2>4, <2>6, <3>2 DEF ListInv, AsAssigned
    <3>3. QED
      BY <3>1, <3>2
  <2>9. QED
    BY <1>1, <2>3, <2>7, <2>8 DEF ListInv
<1>5. QED
  BY <1>0, <1>3, <1>4 DEF Insert

LEMMA RollBackLists ==
    ASSUME ListInv, NEW p \in Callers, RollBack(p)
    PROVE  /\ ListInv'
           /\ work'[p] = NoWork
           /\ \A q \in Callers : q # p => work'[q] = work[q]
           /\ UNCHANGED rows
<1>1. /\ work'[p] = NoWork /\ \A q \in Callers : q # p => work'[q] = work[q]
      /\ work' \in [Callers -> Works] /\ UNCHANGED <<rows, writes, last, blended>>
  BY NoWorkTypes DEF RollBack, Ended, ListInv, AssignmentsTypeOK
<1>2. AloneInv'
  BY <1>1, NoWorkTypes DEF ListInv, AloneInv, Working
<1>3. QED
  BY <1>1, <1>2 DEF ListInv, AssignmentsTypeOK, AsAssigned, Held

-----------------------------------------------------------------------------
(* Rows and the log of their changes.                                        *)

Changes(p) == edit[p].step \in {"update", "deactivate"}

\* What a request is about is there, and its transaction is its own.
EditInv ==
    \A p \in Callers :
        /\ edit[p].step = "list" => work[p].step \in {"opened", "deleted"}
        /\ edit[p].step # "list" => work[p] = NoWork
        /\ edit[p].step # "idle" => edit[p].on \in Entities
        /\ edit[p].step = "create" => edit[p].value \in Columns /\ edit[p].details \in Details
        /\ Changes(p) => Known(edit[p].on) /\ edit[p].seen \in Row
        /\ edit[p].step = "deactivate" =>
              /\ edit[p].seen.isActive = "true"
              /\ edit[p].value = Keep /\ edit[p].details = Keep /\ edit[p].isActive = "false"

\* A request that changes a row has seen it as it is, unless another wrote it
\* meanwhile; that one made the row raced.
SeenInv ==
    \A p \in Callers : Changes(p) /\ edit[p].on \notin raced => edit[p].seen = row[edit[p].on]

LogInv == ListInv /\ EditInv /\ SeenInv /\ LogTellsRows /\ LogHasNoGaps

LEMMA NoEditTypes == NoEdit \in Edits /\ NoEdit.step = "idle"
BY DEF NoEdit, Edits

LEMMA RowFields ==
    /\ Absent \notin Row
    /\ \A v \in Columns, d \in Details, a \in {"true", "false"} :
          [value |-> v, details |-> d, isActive |-> a] \in Row
    /\ \A r \in Row : r.value \in Columns /\ r.details \in Details /\ r.isActive \in {"true", "false"}
BY CatalogueAssumption DEF Row

LEMMA ValuesAre == \A e \in Entities : Values(e) \subseteq Columns
BY DEF Values, Columns

LEMMA AnyDetailsIs == AnyDetails \in Details
BY CatalogueAssumption DEF AnyDetails

LEMMA NothingIsTold == Nothing \in Entry /\ \A r, C : Agree(Nothing, r, C)
BY DEF Nothing, Entry, Agree

\* An entry tells the columns it names, and what was true of the others stays so
\* while they do not change.
LEMMA OverTells ==
    ASSUME NEW t \in Entry, NEW r \in Row, NEW C
    PROVE  /\ Over(t, r, C) \in Entry
           /\ Agree(Over(t, r, C), r, C)
           /\ \A D : Agree(t, r, D) => Agree(Over(t, r, C), r, D)
<1>1. Over(t, r, C) \in Entry
  BY DEF Over, Entry, Row
<1>2. /\ Over(t, r, C).value = IF "value" \in C THEN r.value ELSE t.value
      /\ Over(t, r, C).details = IF "details" \in C THEN r.details ELSE t.details
      /\ Over(t, r, C).isActive = IF "isActive" \in C THEN r.isActive ELSE t.isActive
  BY DEF Over
<1>3. QED
  BY <1>1, <1>2 DEF Agree

LEMMA InitCatalogue == Init => TypeOK /\ LogInv
<1> SUFFICES ASSUME Init PROVE TypeOK /\ LogInv
  OBVIOUS
<1>0. PICK S \in Seeds :
         /\ \E f \in [S -> Columns] :
               /\ row = [e \in Entities |-> IF e \in S THEN New(f[e], AnyDetails) ELSE Absent]
               /\ told = [e \in Entities |->
                            IF e \in S THEN Over(Nothing, New(f[e], AnyDetails), Recorded(e))
                            ELSE Nothing]
         /\ \E g \in Initially : last = [l \in Lists |-> IF l[2] \in S THEN g[l] ELSE {}]
  BY DEF Init
<1>1. PICK f \in [S -> Columns] :
         /\ row = [e \in Entities |-> IF e \in S THEN New(f[e], AnyDetails) ELSE Absent]
         /\ told = [e \in Entities |->
                      IF e \in S THEN Over(Nothing, New(f[e], AnyDetails), Recorded(e))
                      ELSE Nothing]
  BY <1>0
<1>2. \A e \in S : New(f[e], AnyDetails) \in Row
  BY RowFields, AnyDetailsIs DEF New
<1>a. row \in [Entities -> Row \cup {Absent}]
  BY <1>1, <1>2
<1>b. told \in [Entities -> Entry]
  BY <1>1, <1>2, NothingIsTold, OverTells
<1>c. LogTellsRows
  <2> SUFFICES ASSUME NEW e \in Entities, Known(e) PROVE Agree(told[e], row[e], Recorded(e))
    BY DEF LogTellsRows
  <2>1. e \in S
    BY <1>1 DEF Known
  <2>2. told[e] = Over(Nothing, row[e], Recorded(e)) /\ row[e] \in Row
    BY <1>1, <1>2, <2>1
  <2>3. QED
    BY <2>2, NothingIsTold, OverTells
<1>3. last \in [Lists -> SUBSET Members]
  BY <1>0, CatalogueAssumption
<1>4. rows \in [Lists -> SUBSET Rows]
  BY <1>3, AssignmentsAssumption DEF Init, Rows
<1>5. AssignmentsTypeOK
  BY <1>3, <1>4, NoWorkTypes, AssignmentsAssumption DEF Init, AssignmentsTypeOK
<1>6. TypeOK
  BY <1>a, <1>b, <1>5, NoEditTypes, CatalogueAssumption DEF Init, TypeOK
<1>7. AsAssigned
  <2>1. \A l \in Lists : \A m \in last[l] : <<m, 0>> \in rows[l] /\ <<m, 0>>[1] = m
    BY DEF Init
  <2>2. \A l \in Lists : \A r \in rows[l] : r[1] \in last[l]
    BY DEF Init
  <2>3. ASSUME NEW l \in Lists PROVE Held(l) = last[l]
    <3>1. last[l] \subseteq Held(l)
      BY <2>1 DEF Held
    <3>2. Held(l) \subseteq last[l]
      BY <2>2 DEF Held
    <3>3. QED
      BY <3>1, <3>2
  <2>4. QED
    BY <2>3 DEF AsAssigned
<1>8. ListInv
  BY <1>5, <1>7, NoWorkTypes DEF Init, ListInv, AloneInv, Working
<1>9. EditInv /\ SeenInv
  BY NoEditTypes DEF Init, EditInv, SeenInv, Changes
<1>10. QED
  BY <1>6, <1>8, <1>9, <1>c DEF Init, LogInv, LogHasNoGaps

\* A row is read, or the code of a new one looked up.
LEMMA BeginStep ==
    ASSUME TypeOK, LogInv, NEW p \in Callers, Idle(p),
           NEW step \in {"create", "update", "deactivate"}, NEW e \in Entities,
           NEW v \in Columns \cup {Keep}, NEW d \in Details \cup {Keep},
           NEW a \in {"true", "false", Keep}, Begin(p, step, e, v, d, a),
           step = "create" => v \in Columns /\ d \in Details,
           step # "create" => Known(e),
           step = "deactivate" => IsActive(e) /\ v = Keep /\ d = Keep /\ a = "false",
           UNCHANGED <<assignmentVars, row, told, edits, raced, gap>>
    PROVE  TypeOK' /\ LogInv'
<1>1. /\ edit'[p] = [step |-> step, on |-> e, seen |-> row[e],
                      value |-> v, details |-> d, isActive |-> a]
      /\ \A q \in Callers : q # p => edit'[q] = edit[q]
  BY DEF Begin, TypeOK
<1>2. edit'[p] \in Edits
  BY <1>1 DEF Edits, TypeOK
<1>3. edit' \in [Callers -> Edits]
  BY <1>2 DEF Begin, TypeOK
<1>4. ListInv'
  BY SameLists DEF LogInv
<1>5. TypeOK'
  BY <1>3, <1>4 DEF TypeOK, ListInv
<1>6. EditInv'
  BY <1>1 DEF LogInv, EditInv, Changes, Known, IsActive, Idle, assignmentVars, TypeOK
<1>7. SeenInv'
  BY <1>1 DEF LogInv, SeenInv, Changes
<1>8. QED
  BY <1>4, <1>5, <1>6, <1>7 DEF LogInv, LogTellsRows, LogHasNoGaps, Known

LEMMA ReadStep ==
    ASSUME TypeOK, LogInv, NEW p \in Callers,
           ReadToUpdate(p) \/ ReadToDeactivate(p) \/ AskToCreate(p)
    PROVE  TypeOK' /\ LogInv'
<1>1. CASE ReadToUpdate(p)
  <2>1. PICK e \in Entities, a \in {"true", "false", Keep}, v \in Columns \cup {Keep},
             d \in Details \cup {Keep} :
           Idle(p) /\ Read(p, "update", e, v, d, a)
    BY <1>1, ValuesAre DEF ReadToUpdate, Free
  <2>2. QED
    BY <2>1, BeginStep DEF Read
<1>2. CASE ReadToDeactivate(p)
  <2>1. PICK e \in Entities :
           Idle(p) /\ IsActive(e) /\ Read(p, "deactivate", e, Keep, Keep, "false")
    BY <1>2 DEF ReadToDeactivate, Free
  <2>2. QED
    BY <2>1, BeginStep DEF Read
<1>3. CASE AskToCreate(p)
  <2>1. PICK e \in Entities, v \in Columns :
           /\ Idle(p) /\ Begin(p, "create", e, v, AnyDetails, "true")
           /\ UNCHANGED <<assignmentVars, row, told, edits, raced, gap>>
    BY <1>3, ValuesAre DEF AskToCreate, Free
  <2>2. QED
    BY <2>1, BeginStep, AnyDetailsIs
<1>4. QED
  BY <1>1, <1>2, <1>3

\* A list is about to be replaced.
LEMMA AssignStep ==
    ASSUME TypeOK, LogInv, NEW p \in Callers, NEW list, NEW e \in Entities,
           NEW S \in SUBSET Members, <<list, e>> \in Lists, Idle(p), Assign(p, list, e, S)
    PROVE  TypeOK' /\ LogInv'
<1>1. /\ edit'[p] = [step |-> "list", on |-> e, seen |-> row[e],
                      value |-> Keep, details |-> Keep, isActive |-> Keep]
      /\ \A q \in Callers : q # p => edit'[q] = edit[q]
      /\ edit[p].step = "idle" /\ Known(e)
      /\ UNCHANGED <<row, told, edits, raced, gap>>
  BY DEF Assign, Begin, TypeOK, Idle
<1>2. edit'[p] \in Edits
  BY <1>1 DEF Edits, TypeOK
<1>3. edit' \in [Callers -> Edits]
  BY <1>2 DEF Assign, Begin, TypeOK
<1>4. /\ ListInv'
      /\ work'[p].step = "opened"
      /\ \A q \in Callers : q # p => work'[q].step = work[q].step
      /\ \A q \in Callers : q # p /\ work[q] = NoWork => work'[q] = NoWork
  BY OpenLists DEF Assign, LogInv
<1>5. TypeOK'
  BY <1>1, <1>3, <1>4 DEF TypeOK, ListInv
<1>6. EditInv'
  BY <1>1, <1>4 DEF LogInv, EditInv, Changes, Known
<1>7. SeenInv'
  BY <1>1 DEF LogInv, SeenInv, Changes
<1>8. QED
  BY <1>1, <1>4, <1>5, <1>6, <1>7 DEF LogInv, LogTellsRows, LogHasNoGaps, Known

\* What every transaction on a row leaves to show: its own request ends.
LEMMA DoneEdits ==
    ASSUME TypeOK, LogInv, NEW p \in Callers, Done(p), edit[p].step # "list" \/ work'[p] = NoWork,
           \A q \in Callers : q # p => work'[q] = work[q],
           edit[p].step # "list" => work'[p] = work[p],
           \A e \in Entities : Known(e) => Known(e)'
    PROVE  edit' \in [Callers -> Edits] /\ EditInv'
<1>1. edit'[p] = NoEdit /\ \A q \in Callers : q # p => edit'[q] = edit[q]
  BY DEF Done, TypeOK
<1>2. edit' \in [Callers -> Edits]
  BY NoEditTypes DEF Done, TypeOK
<1>3. EditInv'
  BY <1>1, NoEditTypes DEF LogInv, EditInv, Changes
<1>4. QED
  BY <1>2, <1>3

LEMMA CreateStep ==
    ASSUME TypeOK, LogInv, NEW p \in Callers, edit[p].step = "create", Create(p)
    PROVE  TypeOK' /\ LogInv'
<1> DEFINE e == edit[p].on
           new == New(edit[p].value, edit[p].details)
           entry == Over(Nothing, new, RecordedFirst(e))
<1>1. e \in Entities /\ new \in Row /\ new # Absent
  <2>1. edit[p].step # "idle" => e \in Entities
    BY DEF LogInv, EditInv
  <2>2. edit[p].value \in Columns /\ edit[p].details \in Details
    BY DEF LogInv, EditInv
  <2>3. QED
    BY <2>1, <2>2, RowFields DEF New
<1>a. entry \in Entry /\ Agree(entry, new, Recorded(e))
  BY <1>1, NothingIsTold, OverTells
<1>2. UNCHANGED assignmentVars /\ UNCHANGED <<raced, gap>> /\ Done(p)
  BY DEF Create
<1>3. ListInv'
  BY <1>2, SameLists DEF LogInv
<1>4. \/ UNCHANGED <<row, told, edits>>
      \/ /\ ~Known(e) /\ edits < MaxEdits /\ edits' = edits + 1
         /\ row' = [row EXCEPT ![e] = new] /\ told' = [told EXCEPT ![e] = entry]
  BY DEF Create
<1>5. /\ row' \in [Entities -> Row \cup {Absent}] /\ told' \in [Entities -> Entry]
      /\ edits' \in 0 .. MaxEdits
  BY <1>1, <1>a, <1>4, CatalogueAssumption DEF TypeOK
<1>6. /\ \A f \in Entities : Known(f) => Known(f)' /\ row'[f] = row[f]
      /\ \A f \in Entities : \/ row'[f] = row[f] /\ told'[f] = told[f]
                             \/ f = e /\ row'[f] = new /\ told'[f] = entry
  BY <1>1, <1>4 DEF TypeOK, Known
<1>7. edit' \in [Callers -> Edits] /\ EditInv'
  BY <1>2, <1>6, DoneEdits DEF assignmentVars
<1>8. TypeOK'
  BY <1>2, <1>3, <1>5, <1>7 DEF TypeOK, ListInv
<1>9. SeenInv'
  <2>1. \A q \in Callers : Changes(q)' => q # p /\ Changes(q) /\ edit'[q] = edit[q]
    BY <1>2, NoEditTypes DEF Done, TypeOK, Changes
  <2>2. \A q \in Callers : Changes(q) => row'[edit[q].on] = row[edit[q].on]
    BY <1>6 DEF LogInv, EditInv, Changes
  <2>3. QED
    BY <1>2, <2>1, <2>2 DEF LogInv, SeenInv
<1>10. LogTellsRows' /\ LogHasNoGaps'
  <2>1. LogHasNoGaps'
    BY <1>2 DEF LogInv, LogHasNoGaps
  <2>2. SUFFICES ASSUME NEW f \in Entities, Known(f)', KindOf[f] = "variant" => f \notin raced
        PROVE  Agree(told'[f], row'[f], Recorded(f))
    BY <1>2, <2>1 DEF LogTellsRows
  <2>3. QED
    BY <1>a, <1>6, <2>2 DEF LogInv, LogTellsRows, Known
<1>11. QED
  BY <1>3, <1>7, <1>8, <1>9, <1>10 DEF LogInv

\* What an update returns is a row.
LEMMA UpdatedIsRow ==
    ASSUME TypeOK, LogInv, NEW p \in Callers, Changes(p)
    PROVE  /\ edit[p].on \in Entities /\ Known(edit[p].on)
           /\ row[edit[p].on] \in Row /\ told[edit[p].on] \in Entry /\ edit[p].seen \in Row
           /\ Updated(p) \in Row
<1> DEFINE e == edit[p].on
<1>1. e \in Entities /\ Known(e) /\ edit[p].seen \in Row
  <2>1. edit[p].step # "idle"
    BY DEF Changes
  <2>2. QED
    BY <2>1 DEF LogInv, EditInv
<1>2. row[e] \in Row /\ told[e] \in Entry
  BY <1>1 DEF Known, TypeOK
<1>3. /\ edit[p].value \in Columns \cup {Keep} /\ edit[p].details \in Details \cup {Keep}
      /\ edit[p].isActive \in {"true", "false", Keep}
  BY DEF TypeOK, Edits
<1>4. Updated(p) \in Row
  BY <1>2, <1>3, RowFields DEF Updated, Changed
<1>5. QED
  BY <1>1, <1>2, <1>4

\* A row that nobody else was changing is written as it was seen.
LEMMA WriteStep ==
    ASSUME TypeOK, LogInv, NEW p \in Callers, Changes(p), Write(p),
           NEW t \in Entry, told' = [told EXCEPT ![edit[p].on] = t],
           (KindOf[edit[p].on] = "variant" => edit[p].on \notin raced')
             => Agree(t, Updated(p), Recorded(edit[p].on)),
           gap' \in {gap, gap \cup {edit[p].on}},
           edit[p].on \notin raced' => gap' = gap
    PROVE  TypeOK' /\ LogInv'
<1> DEFINE e == edit[p].on
<1>1. /\ e \in Entities /\ Known(e) /\ Updated(p) \in Row
      /\ edit[p].step \in {"update", "deactivate"}
  BY UpdatedIsRow DEF Changes
<1>2. /\ edits < MaxEdits /\ edits' = edits + 1
      /\ row' = [row EXCEPT ![e] = Updated(p)]
      /\ raced' = IF Changing(e) = {p} THEN raced ELSE raced \cup {e}
      /\ Done(p) /\ UNCHANGED assignmentVars
  BY DEF Write
<1>3. ListInv'
  BY <1>2, SameLists DEF LogInv
<1>4. /\ row' \in [Entities -> Row \cup {Absent}] /\ told' \in [Entities -> Entry]
      /\ edits' \in 0 .. MaxEdits /\ raced' \in SUBSET Entities /\ gap' \in SUBSET Entities
  BY <1>1, <1>2, CatalogueAssumption DEF TypeOK
<1>5. /\ row'[e] = Updated(p) /\ told'[e] = t
      /\ \A f \in Entities : f # e => row'[f] = row[f] /\ told'[f] = told[f]
  BY <1>1, <1>2 DEF TypeOK
<1>6. edit' \in [Callers -> Edits] /\ EditInv'
  <2>1. \A f \in Entities : Known(f) => Known(f)'
    BY <1>1, <1>5, RowFields DEF Known
  <2>2. QED
    BY <1>1, <1>2, <2>1, DoneEdits DEF assignmentVars
<1>7. TypeOK'
  BY <1>3, <1>4, <1>6 DEF TypeOK, ListInv
<1>a. raced \subseteq raced'
  BY <1>2
<1>8. SeenInv'
  <2>1. \A q \in Callers : Changes(q)' => q # p /\ Changes(q) /\ edit'[q] = edit[q]
    BY <1>2, NoEditTypes DEF Done, TypeOK, Changes
  <2>2. ASSUME NEW q \in Callers, q # p, Changes(q), edit[q].on = e PROVE e \in raced'
    BY <1>2, <2>2 DEF Changing, Changes
  <2>3. \A q \in Callers : Changes(q) => edit[q].on \in Entities
    BY UpdatedIsRow
  <2>4. QED
    BY <1>5, <1>a, <2>1, <2>2, <2>3 DEF LogInv, SeenInv
<1>9. LogTellsRows'
  <2> SUFFICES ASSUME NEW f \in Entities, Known(f)', KindOf[f] = "variant" => f \notin raced'
      PROVE  Agree(told'[f], row'[f], Recorded(f))
    BY DEF LogTellsRows
  <2>1. CASE f = e
    BY <1>5, <2>1
  <2>2. CASE f # e
    <3>1. row'[f] = row[f] /\ told'[f] = told[f] /\ Known(f)
      BY <1>5, <2>2 DEF Known
    <3>2. QED
      BY <1>a, <3>1 DEF LogInv, LogTellsRows
  <2>3. QED
    BY <2>1, <2>2
<1>10. LogHasNoGaps'
  BY <1>a DEF LogInv, LogHasNoGaps
<1>11. QED
  BY <1>3, <1>6, <1>7, <1>8, <1>9, <1>10 DEF LogInv

\* Unless requests raced, the entry's old values are the ones told before.
LEMMA TellStep ==
    ASSUME TypeOK, LogInv, NEW p \in Callers, Changes(p), Write(p), NEW C,
           Tell(p, C, Updated(p))
    PROVE  /\ Over(told[edit[p].on], Updated(p), C) \in Entry
           /\ Agree(Over(told[edit[p].on], Updated(p), C), Updated(p), C)
           /\ told' = [told EXCEPT ![edit[p].on] = Over(told[edit[p].on], Updated(p), C)]
           /\ gap' \in {gap, gap \cup {edit[p].on}}
           /\ edit[p].on \notin raced' => gap' = gap
<1> DEFINE e == edit[p].on
<1>1. e \in Entities /\ Known(e) /\ told[e] \in Entry /\ Updated(p) \in Row
  BY UpdatedIsRow
<1>2. /\ told' = [told EXCEPT ![e] = Over(told[e], Updated(p), C)]
      /\ gap' = IF Agree(told[e], edit[p].seen, C \cap Recorded(e)) THEN gap ELSE gap \cup {e}
  BY DEF Tell
<1>3. ASSUME e \notin raced' PROVE gap' = gap
  <2>1. e \notin raced
    BY <1>3 DEF Write
  <2>2. edit[p].seen = row[e] /\ Agree(told[e], row[e], Recorded(e))
    BY <1>1, <2>1 DEF LogInv, SeenInv, LogTellsRows
  <2>3. Agree(told[e], edit[p].seen, C \cap Recorded(e))
    BY <2>2 DEF Agree
  <2>4. QED
    BY <1>2, <2>3
<1>4. QED
  BY <1>1, <1>2, <1>3, OverTells

\* What the entry of an update records is what tx.update returned, raced or not.
LEMMA UpdateStep ==
    ASSUME TypeOK, LogInv, NEW p \in Callers, edit[p].step = "update", Update(p)
    PROVE  TypeOK' /\ LogInv'
<1>1. Changes(p) /\ Write(p) /\ Tell(p, Recorded(edit[p].on), Updated(p))
  BY DEF Changes, Update
<1>2. QED
  BY <1>1, TellStep, WriteStep

\* The entry of a deactivation tells only that the row was active and is not; the
\* other columns do not change.
LEMMA DeactivateStep ==
    ASSUME TypeOK, LogInv, NEW p \in Callers, edit[p].step = "deactivate", Deactivate(p)
    PROVE  TypeOK' /\ LogInv'
<1> DEFINE e == edit[p].on
           t == Over(told[e], Updated(p), {"isActive"})
<1>1. Changes(p) /\ Write(p) /\ Tell(p, {"isActive"}, Updated(p))
  BY DEF Changes, Deactivate
<1>2. e \in Entities /\ Known(e)
  BY <1>1, UpdatedIsRow
<1>3. Updated(p).value = row[e].value /\ Updated(p).details = row[e].details
  BY DEF Updated, Changed, LogInv, EditInv
<1>4. /\ t.value = told[e].value /\ t.details = told[e].details
      /\ t.isActive = Updated(p).isActive
  BY DEF Over
<1>5. (KindOf[e] = "variant" => e \notin raced') => Agree(t, Updated(p), Recorded(e))
  <2> SUFFICES ASSUME KindOf[e] = "variant" => e \notin raced' PROVE Agree(t, Updated(p), Recorded(e))
    OBVIOUS
  <2>1. KindOf[e] = "variant" => e \notin raced
    BY <1>1 DEF Write
  <2>2. Agree(told[e], row[e], Recorded(e))
    BY <1>2, <2>1 DEF LogInv, LogTellsRows
  <2>3. QED
    BY <1>3, <1>4, <2>2 DEF Agree
<1>6. QED
  BY <1>1, <1>5, TellStep, WriteStep

\* Whether the price changes was decided on the row that was seen; if that is
\* the row there is, the entry tells the new price and the one before.
LEMMA UpdateVariantStep ==
    ASSUME TypeOK, LogInv, NEW p \in Callers, UpdateVariant(p)
    PROVE  TypeOK' /\ LogInv'
<1> DEFINE e == edit[p].on
           c == edit[p]
<1>1. Changes(p) /\ KindOf[e] = "variant" /\ Write(p)
  BY DEF UpdateVariant, At, Changes, OfKind
<1>2. e \in Entities /\ told[e] \in Entry /\ Known(e)
  BY <1>1, UpdatedIsRow
<1>3. Recorded(e) = {"value"}
  BY <1>1 DEF Recorded
<1>4. CASE PriceChanged(p)
  <2>1. Tell(p, {"value"}, Updated(p))
    BY <1>4 DEF UpdateVariant
  <2>2. QED
    BY <1>1, <1>3, <2>1, TellStep, WriteStep
<1>5. CASE ~PriceChanged(p)
  <2>1. told' = [told EXCEPT ![e] = told[e]] /\ gap' = gap
    BY <1>2, <1>5 DEF UpdateVariant, TypeOK
  <2>2. ASSUME e \notin raced' PROVE Agree(told[e], Updated(p), Recorded(e))
    <3>1. e \notin raced
      BY <1>1, <2>2 DEF Write
    <3>2. c.seen = row[e] /\ Agree(told[e], row[e], Recorded(e))
      BY <1>1, <1>2, <3>1 DEF LogInv, SeenInv, LogTellsRows
    <3>3. c.value = Keep \/ c.value = c.seen.value
      BY <1>5 DEF PriceChanged
    <3>4. Updated(p).value = row[e].value
      BY <3>2, <3>3 DEF Updated, Changed
    <3>5. QED
      BY <1>3, <3>2, <3>4 DEF Agree
  <2>3. QED
    BY <1>1, <1>2, <2>1, <2>2, WriteStep
<1>6. QED
  BY <1>4, <1>5

\* The statements of a list's transaction.
LEMMA ListStep ==
    ASSUME TypeOK, LogInv, NEW p \in Callers, ListWork(p)
    PROVE  TypeOK' /\ LogInv'
<1>1. CASE DeleteRows(p)
  <2>1. Delete(p) /\ UNCHANGED <<row, told, edit, edits, raced, gap>>
    BY <1>1 DEF DeleteRows
  <2>2. /\ ListInv'
        /\ work[p].step = "opened" /\ work'[p].step = "deleted"
        /\ \A q \in Callers : q # p => work'[q] = work[q]
    BY <2>1, DeleteLists DEF LogInv
  <2>3. TypeOK'
    BY <2>1, <2>2 DEF TypeOK, ListInv
  <2>4. edit[p].step = "list"
    BY <2>2, NoWorkTypes DEF LogInv, EditInv
  <2>5. EditInv'
    BY <2>1, <2>2, <2>4 DEF LogInv, EditInv, Changes, Known
  <2>6. QED
    BY <2>1, <2>2, <2>3, <2>5
       DEF LogInv, SeenInv, Changes, LogTellsRows, LogHasNoGaps, Known
<1>2. CASE InsertRows(p)
  <2>1. Insert(p) /\ Done(p) /\ UNCHANGED <<row, told, edits, raced, gap>>
    BY <1>2 DEF InsertRows
  <2>2. /\ ListInv' /\ work'[p] = NoWork
        /\ \A q \in Callers : q # p => work'[q] = work[q]
    BY <2>1, InsertLists DEF LogInv
  <2>3. edit[p].step = "list"
    <3>1. work[p] # NoWork
      BY <2>1, NoWorkTypes DEF Insert
    <3>2. QED
      BY <3>1 DEF LogInv, EditInv
  <2>4. edit' \in [Callers -> Edits] /\ EditInv'
    BY <2>1, <2>2, <2>3, DoneEdits DEF Known
  <2>5. TypeOK'
    BY <2>1, <2>2, <2>4 DEF TypeOK, ListInv
  <2>6. SeenInv'
    BY <2>1, NoEditTypes DEF LogInv, SeenInv, Changes, Done, TypeOK
  <2>7. QED
    BY <2>1, <2>2, <2>4, <2>5, <2>6 DEF LogInv, LogTellsRows, LogHasNoGaps, Known
<1>3. QED
  BY <1>1, <1>2 DEF ListWork

LEMMA FailStep ==
    ASSUME TypeOK, LogInv, NEW p \in Callers, Fail(p)
    PROVE  TypeOK' /\ LogInv'
<1>1. RollBack(p) /\ Done(p) /\ UNCHANGED <<row, told, edits, raced, gap>>
  BY DEF Fail
<1>2. /\ ListInv' /\ work'[p] = NoWork
      /\ \A q \in Callers : q # p => work'[q] = work[q]
  BY <1>1, RollBackLists DEF LogInv
<1>3. edit[p].step # "list" => work'[p] = work[p]
  BY <1>2 DEF LogInv, EditInv
<1>4. edit' \in [Callers -> Edits] /\ EditInv'
  BY <1>1, <1>2, <1>3, DoneEdits DEF Known
<1>5. TypeOK'
  BY <1>1, <1>2, <1>4 DEF TypeOK, ListInv
<1>6. SeenInv'
  BY <1>1, NoEditTypes DEF LogInv, SeenInv, Changes, Done, TypeOK
<1>7. QED
  BY <1>1, <1>2, <1>4, <1>5, <1>6 DEF LogInv, LogTellsRows, LogHasNoGaps, Known

\* Every step of the catalogue.
LEMMA CatalogueKeeps ==
    ASSUME TypeOK, LogInv, Next
    PROVE  TypeOK' /\ LogInv'
<1>0. PICK p \in Callers : ReadIt(p) \/ Menu(p) \/ Business(p) \/ ListWork(p) \/ Fail(p)
  BY DEF Next
<1>1. ASSUME NEW k \in Kinds, At(p, "create", k), Create(p) PROVE TypeOK' /\ LogInv'
  BY <1>1, CreateStep DEF At
<1>2. ASSUME NEW k \in Kinds, At(p, "update", k), Update(p) PROVE TypeOK' /\ LogInv'
  BY <1>2, UpdateStep DEF At
<1>3. ASSUME NEW k \in Kinds, At(p, "deactivate", k), Deactivate(p) PROVE TypeOK' /\ LogInv'
  BY <1>3, DeactivateStep DEF At
<1>4. CASE ReadIt(p)
  <2>1. CASE AssignAddons(p) \/ AssignBranches(p) \/ AssignVariantBranches(p)
    <3>1. PICK list \in {"addons", "branches", "variantBranches"}, e \in Entities,
               S \in SUBSET (OfKind("addon") \cup OfKind("branch")) :
             Idle(p) /\ Assign(p, list, e, S) /\ <<list, e>> \in Lists
      <4>1. CASE AssignAddons(p)
        BY <4>1, CatalogueAssumption DEF AssignAddons, OfKind
      <4>2. CASE AssignBranches(p)
        BY <4>2, CatalogueAssumption DEF AssignBranches, OfKind
      <4>3. CASE AssignVariantBranches(p)
        BY <4>3, CatalogueAssumption DEF AssignVariantBranches, OfKind
      <4>4. QED
        BY <2>1, <4>1, <4>2, <4>3
    <3>2. S \in SUBSET Members
      BY CatalogueAssumption
    <3>3. QED
      BY <3>1, <3>2, AssignStep
  <2>2. QED
    BY <1>4, <2>1, ReadStep DEF ReadIt
<1>5. CASE Menu(p)
  BY <1>1, <1>2, <1>3, <1>5, UpdateVariantStep
     DEF Menu, RemoveVariant, Kinds, CreateCategory, UpdateCategory, DeactivateCategory, CreateAddon, UpdateAddon,
         DeactivateAddon, CreateProduct, UpdateProduct, DeactivateProduct, AddVariant
<1>6. CASE Business(p)
  BY <1>1, <1>2, <1>3, <1>6
     DEF Business, Kinds, CreateBranch, UpdateBranch, DeactivateBranch, CreateZone, UpdateZone,
         DeactivateZone, CreateCoupon, UpdateCoupon, DeactivateCoupon, UpdateCustomer
<1>7. QED
  BY <1>0, <1>4, <1>5, <1>6, ListStep, FailStep

LEMMA CatalogueStays ==
    ASSUME TypeOK, LogInv, UNCHANGED catalogueVars
    PROVE  TypeOK' /\ LogInv'
<1>1. ListInv'
  BY SameLists DEF LogInv, catalogueVars
<1>2. QED
  BY <1>1 DEF catalogueVars, assignmentVars, TypeOK, LogInv, ListInv, EditInv, SeenInv,
              LogTellsRows, LogHasNoGaps, Changes, Known

\* Types and the invariant of the log hold together.
THEOREM LogInductive == Spec => [](TypeOK /\ LogInv)
<1>1. TypeOK /\ LogInv /\ [Next]_catalogueVars => TypeOK' /\ LogInv'
  BY CatalogueKeeps, CatalogueStays
<1>2. QED
  BY <1>1, InitCatalogue, PTL DEF Spec

\* Every variable of the catalogue keeps its range.
THEOREM CatalogueTypes == Spec => []TypeOK
BY LogInductive, PTL

\* The newest audit entries tell the rows, of variants the price.
THEOREM LogTells == Spec => []LogTellsRows
<1>1. TypeOK /\ LogInv => LogTellsRows
  BY DEF LogInv
<1>2. QED
  BY <1>1, LogInductive, PTL

\* An entry's old value is the newest of the one before, unless requests raced.
THEOREM LogIsGapless == Spec => []LogHasNoGaps
<1>1. TypeOK /\ LogInv => LogHasNoGaps
  BY DEF LogInv
<1>2. QED
  BY <1>1, LogInductive, PTL

\* A list is what was assigned last, unless two assignments of it overlapped.
THEOREM CatalogueLists == Spec => []AsAssigned
<1>1. TypeOK /\ LogInv => AsAssigned
  BY DEF LogInv, ListInv
<1>2. QED
  BY <1>1, LogInductive, PTL

-----------------------------------------------------------------------------
(* The cart.                                                                 *)

\* A request that has read the cart, or made one.
HasCart(d) == Waits(d) /\ call[d].step \in {"viewed", "found"}

\* What a request has read is as it was when nothing has changed since; a
\* cart's id is used once, so its branch is still the one that was compared.
Fits(d) ==
    Waits(d) =>
        /\ call[d].step \in {"quantity", "addons", "remove"} => call[d].line # 0
        /\ call[d].step \in {"asked", "viewed"} => call[d].line = 0
        /\ call[d].step = "found" => call[d].cart # 0
        /\ call[d].made => call[d].step = "found" /\ call[d].line = 0 /\ cart = 0
        /\ HasCart(d) =>
              /\ call[d].cart <= carts
              /\ cart # 0 /\ call[d].cart = cart => call[d].branch = branchOf
        /\ call[d].step = "found" /\ call[d].alone /\ call[d].line # 0 /\ There(call[d].line) =>
              call[d].base = line[call[d].line].quantity

\* Nobody else knows a cart that is being made, nor makes one.
Alone(d, e) ==
    HasCart(d) /\ call[d].made /\ HasCart(e) /\ e # d =>
        call[e].cart # call[d].cart /\ ~call[e].made

CartInv ==
    /\ cart <= carts
    /\ \A d \in Devices : Fits(d)
    /\ \A d, e \in Devices : Alone(d, e)
    /\ QuantityAsAsked
    /\ LinesOfOneBranch

CallsOK == call \in [Devices -> Calls \cup {Absent}]

\* A request that is not d's keeps what it knew, and is alone no more often than
\* before.
Kept(e) ==
    Waits(e)' =>
        /\ Waits(e)
        /\ call'[e].step = call[e].step /\ call'[e].variant = call[e].variant
        /\ call'[e].addons = call[e].addons /\ call'[e].branch = call[e].branch
        /\ call'[e].met = call[e].met
        /\ call'[e].cart = call[e].cart /\ call'[e].made = call[e].made
        /\ call'[e].line = call[e].line /\ call'[e].base = call[e].base
        /\ call'[e].alone => call[e].alone

LEMMA AnsweredKeeps ==
    ASSUME CallsOK, NEW d \in Devices, Answered(d)
    PROVE  /\ CallsOK' /\ ~Waits(d)'
           /\ \A e \in Devices \ {d} : call'[e] = call[e] /\ Kept(e)
BY DEF CallsOK, Answered, Waits, Kept

LEMMA AnswerKeeps ==
    ASSUME CallsOK, NEW d \in Devices, Answer(d)
    PROVE  /\ CallsOK' /\ ~Waits(d)'
           /\ \A e \in Devices \ {d} : Kept(e)
           /\ \A e \in Devices : Waits(e)' /\ call'[e].step = "found" => ~call'[e].alone
<1>1. /\ call'[d] = Absent
      /\ \A e \in Devices \ {d} :
            \/ Is(e, "found") /\ call'[e] = [call[e] EXCEPT !.alone = FALSE]
            \/ ~Is(e, "found") /\ call'[e] = call[e]
      /\ call' = [e \in Devices |-> call'[e]]
  BY DEF Answer
<1>2. \A e \in Devices : call[e] \in Calls => [call[e] EXCEPT !.alone = FALSE] \in Calls
  BY DEF Calls
<1>3. \A e \in Devices : call'[e] \in Calls \cup {Absent}
  BY <1>1, <1>2 DEF CallsOK, Is, Waits
<1>4. CallsOK' /\ ~Waits(d)'
  BY <1>1, <1>3 DEF CallsOK, Waits
<1>5. ASSUME NEW e \in Devices \ {d}
      PROVE  /\ Kept(e)
             /\ Waits(e)' /\ call'[e].step = "found" => ~call'[e].alone
  <2>1. CASE Is(e, "found") /\ call'[e] = [call[e] EXCEPT !.alone = FALSE]
    <3>1. call[e] \in Calls
      BY <2>1 DEF CallsOK, Is, Waits
    <3>2. QED
      BY <2>1, <3>1 DEF Kept, Calls, Is
  <2>2. CASE ~Is(e, "found") /\ call'[e] = call[e]
    BY <2>2 DEF Kept, Is, Waits
  <2>3. QED
    BY <1>1, <2>1, <2>2
<1>6. QED
  BY <1>4, <1>5 DEF Waits

\* A device asks or reads: the cart and its lines stay as they are.
LEMMA ReadsKeep ==
    ASSUME CartTypeOK, CartInv, NEW d \in Devices, CallsOK',
           \A e \in Devices \ {d} : call'[e] = call[e],
           carts' \in 0 .. MaxCarts, carts <= carts',
           UNCHANGED <<catalogueVars, cart, branchOf, line, lines, tangled, unsold>>,
           sale' \in [Devices -> Sales],
           Fits(d)',
           \A e \in Devices \ {d} : Alone(d, e)' /\ Alone(e, d)'
    PROVE  CartTypeOK' /\ CartInv'
<1>2. CartTypeOK'
  <2>1. TypeOK'
    BY DEF CartTypeOK, TypeOK, AssignmentsTypeOK, catalogueVars, assignmentVars
  <2>2. QED
    BY <2>1 DEF CartTypeOK, CallsOK
<1>3. ASSUME NEW e \in Devices \ {d} PROVE Fits(e)'
  <2>1. Fits(e)
    BY DEF CartInv
  <2>3. carts \in Nat /\ carts' \in Nat /\ (Waits(e) => call[e].cart \in Nat)
    BY DEF CartTypeOK, Calls, Waits
  <2>4. QED
    BY <2>1, <2>3 DEF Fits, Waits, HasCart, There
<1>4. \A e, f \in Devices : Alone(e, f)'
  BY DEF CartInv, Alone, HasCart, Waits
<1>5. QuantityAsAsked' /\ LinesOfOneBranch'
  BY DEF CartInv, QuantityAsAsked, LinesOfOneBranch, Live, There
<1>6. cart' <= carts'
  BY DEF CartInv, CartTypeOK
<1>7. QED
  BY <1>2, <1>3, <1>4, <1>5, <1>6 DEF CartInv

LEMMA InitCart == CartInit => CartTypeOK /\ CartInv
<1> SUFFICES ASSUME CartInit PROVE CartTypeOK /\ CartInv
  OBVIOUS
<1>1. TypeOK
  BY InitCatalogue DEF CartInit
<1>2. CartTypeOK
  BY <1>1, CartAssumption DEF CartInit, CartTypeOK, Sales
<1>3. \A d \in Devices : ~Waits(d)
  BY DEF CartInit, Waits
<1>4. \A l \in LineIds : ~There(l)
  BY DEF CartInit, There
<1>5. QED
  BY <1>2, <1>3, <1>4 DEF CartInit, CartInv, Fits, Alone, HasCart, QuantityAsAsked, LinesOfOneBranch,
                          Live

LEMMA OnSaleBoolean == \A c : OnSale(c) \in BOOLEAN
BY DEF OnSale

LEMMA AskItemStep ==
    ASSUME CartTypeOK, CartInv, NEW d \in Devices, AskItem(d), UNCHANGED catalogueVars
    PROVE  CartTypeOK' /\ CartInv'
<1>1. PICK v \in Variants, A \in SUBSET Addons, b \in Branches, n \in Amounts :
         /\ call' = [call EXCEPT ![d] = Asked(v, A, b, n)]
         /\ sale' = [sale EXCEPT ![d] = [whole |-> OnSale(Asked(v, A, b, n)),
                                        lost |-> FALSE, gained |-> FALSE]]
  BY DEF AskItem
<1> DEFINE c == Asked(v, A, b, n)
<1>2. c \in Calls
  BY CartAssumption DEF Calls, Asked
<1>3. CallsOK' /\ call'[d] = c /\ \A e \in Devices \ {d} : call'[e] = call[e]
  BY <1>1, <1>2 DEF CartTypeOK, CallsOK
<1>4. call'[d].step = "asked" /\ ~call'[d].made /\ call'[d].line = 0
  BY <1>3 DEF Asked
<1>5. Fits(d)' /\ \A e \in Devices \ {d} : Alone(d, e)' /\ Alone(e, d)'
  BY <1>3, <1>4 DEF Fits, Alone, HasCart
<1>6. UNCHANGED <<cart, branchOf, carts, line, lines, tangled, unsold>>
  BY DEF AskItem
<1>7. sale' \in [Devices -> Sales]
  <2>1. [whole |-> OnSale(c), lost |-> FALSE, gained |-> FALSE] \in Sales
    BY OnSaleBoolean DEF Sales
  <2>2. QED
    BY <1>1, <2>1 DEF CartTypeOK
<1>8. QED
  BY <1>3, <1>5, <1>6, <1>7, ReadsKeep DEF CartTypeOK

\* A request that ends without a change.
LEMMA EndStep ==
    ASSUME CartTypeOK, CartInv, NEW d \in Devices, Answered(d),
           UNCHANGED <<catalogueVars, cart, branchOf, carts, line, lines, tangled, sale, unsold>>
    PROVE  CartTypeOK' /\ CartInv'
<1>1. CallsOK' /\ ~Waits(d)' /\ \A e \in Devices \ {d} : call'[e] = call[e]
  BY AnsweredKeeps DEF CartTypeOK, CallsOK
<1>2. Fits(d)' /\ \A e \in Devices \ {d} : Alone(d, e)' /\ Alone(e, d)'
  BY <1>1 DEF Fits, Alone, HasCart
<1>3. QED
  BY <1>1, <1>2, ReadsKeep DEF CartTypeOK

\* The fields of a request.
LEMMA CallFields ==
    ASSUME CartTypeOK, NEW d \in Devices, Waits(d)
    PROVE  /\ call[d] \in Calls
           /\ call[d].variant \in Variants /\ call[d].addons \in SUBSET Addons
           /\ call[d].branch \in Branches /\ call[d].quantity \in 1 .. MaxQuantity
           /\ call[d].cart \in 0 .. MaxCarts /\ call[d].made \in BOOLEAN
           /\ call[d].line \in 0 .. MaxLines /\ call[d].base \in 0 .. MaxQuantity
           /\ call[d].alone \in BOOLEAN /\ call[d].met \in SUBSET Conditions
<1>1. call[d] \in Calls
  BY DEF CartTypeOK, Waits
<1>2. QED
  BY <1>1 DEF Calls

LEMMA ReadCartStep ==
    ASSUME CartTypeOK, CartInv, NEW d \in Devices, ReadCart(d), UNCHANGED catalogueVars
    PROVE  CartTypeOK' /\ CartInv'
<1>0. /\ Waits(d) /\ call[d].step = "asked"
      /\ UNCHANGED <<cart, branchOf, carts, line, lines, tangled, sale, unsold>>
  BY DEF ReadCart, Is
<1>1. CASE Answered(d)
  BY <1>0, <1>1, EndStep
<1>2. CASE /\ ~(cart # 0 /\ branchOf # call[d].branch)
           /\ call' = [call EXCEPT ![d].step = "viewed", ![d].cart = cart]
  <2>1. call[d] \in Calls /\ call[d].made \in BOOLEAN
    BY <1>0, CallFields
  <2>2. [call[d] EXCEPT !.step = "viewed", !.cart = cart] \in Calls
    BY <2>1 DEF Calls, CartTypeOK
  <2>3. /\ CallsOK' /\ \A e \in Devices \ {d} : call'[e] = call[e]
        /\ call'[d] = [call[d] EXCEPT !.step = "viewed", !.cart = cart]
    BY <1>2, <2>2 DEF CartTypeOK, CallsOK
  <2>4. /\ call'[d].step = "viewed" /\ call'[d].cart = cart
        /\ call'[d].made = call[d].made /\ call'[d].branch = call[d].branch
        /\ call'[d].line = call[d].line
    BY <2>1, <2>3 DEF Calls
  <2>5. ~call[d].made
    BY <1>0 DEF CartInv, Fits
  <2>6. Fits(d)'
    BY <1>0, <1>2, <2>4, <2>5 DEF Fits, HasCart, CartInv
  <2>7. ASSUME NEW e \in Devices \ {d} PROVE Alone(d, e)' /\ Alone(e, d)'
    <3>1. HasCart(e) /\ call[e].made => cart = 0 /\ call[e].cart # 0
      BY DEF CartInv, Fits, HasCart
    <3>2. QED
      BY <2>3, <2>4, <2>5, <3>1 DEF Alone, HasCart, Waits
  <2>8. QED
    BY <1>0, <2>3, <2>6, <2>7, ReadsKeep DEF CartTypeOK
<1>3. QED
  BY <1>1, <1>2 DEF ReadCart

\* A condition is looked at, before the transaction.
LEMMA CheckStep ==
    ASSUME CartTypeOK, CartInv, NEW d \in Devices, NEW k \in Conditions, Waits(d),
           call[d].step \in {"asked", "viewed"}, Check(d, k), UNCHANGED catalogueVars
    PROVE  CartTypeOK' /\ CartInv'
<1>0. UNCHANGED <<cart, branchOf, carts, line, lines, tangled, sale, unsold>>
  BY DEF Check
<1>1. CASE Answered(d)
  BY <1>0, <1>1, EndStep
<1>2. CASE call' = [call EXCEPT ![d].met = @ \cup {k}]
  <2> DEFINE c == [call[d] EXCEPT !.met = @ \cup {k}]
  <2>1. call[d] \in Calls /\ call[d].made \in BOOLEAN
    BY CallFields
  <2>2. c \in Calls
    BY <2>1 DEF Calls
  <2>3. CallsOK' /\ call'[d] = c /\ \A e \in Devices \ {d} : call'[e] = call[e]
    BY <1>2, <2>2 DEF CartTypeOK, CallsOK
  <2>4. /\ call'[d].step = call[d].step /\ call'[d].cart = call[d].cart
        /\ call'[d].made = call[d].made /\ call'[d].branch = call[d].branch
        /\ call'[d].line = call[d].line
    BY <2>1, <2>3 DEF Calls
  <2>5. ~call[d].made
    BY DEF CartInv, Fits
  <2>6. Fits(d)'
    BY <1>0, <2>4, <2>5 DEF Fits, HasCart, CartInv
  <2>7. \A e \in Devices \ {d} : Alone(d, e)' /\ Alone(e, d)'
    BY <2>3, <2>4, <2>5 DEF CartInv, Alone, HasCart, Waits
  <2>8. QED
    BY <1>0, <2>3, <2>6, <2>7, ReadsKeep DEF CartTypeOK
<1>3. QED
  BY <1>1, <1>2 DEF Check

\* The cart that is made has an id nobody has seen.
LEMMA MakeCartStep ==
    ASSUME CartTypeOK, CartInv, NEW d \in Devices, MakeCart(d), UNCHANGED catalogueVars
    PROVE  CartTypeOK' /\ CartInv'
<1>0. /\ Waits(d) /\ call[d].step = "viewed"
      /\ \A e \in Devices : Waits(e) => ~call[e].made
      /\ UNCHANGED <<cart, branchOf, line, lines, tangled, sale, unsold>>
  BY DEF MakeCart, Checked, Is
<1>1. CASE Answered(d) /\ UNCHANGED carts
  BY <1>0, <1>1, EndStep
<1>2. CASE /\ cart = 0 /\ carts < MaxCarts /\ carts' = carts + 1
           /\ call' = [call EXCEPT ![d].step = "found", ![d].cart = carts + 1, ![d].made = TRUE]
  <2> DEFINE c == [call[d] EXCEPT !.step = "found", !.cart = carts + 1, !.made = TRUE]
  <2>1. call[d] \in Calls /\ call[d].line \in 0 .. MaxLines
    BY <1>0, CallFields
  <2>2. carts \in Nat /\ carts' \in 0 .. MaxCarts
    BY <1>2, CartAssumption DEF CartTypeOK
  <2>3. c \in Calls
    BY <1>2, <2>1, <2>2 DEF Calls
  <2>4. CallsOK' /\ call'[d] = c /\ \A e \in Devices \ {d} : call'[e] = call[e]
    BY <1>2, <2>3 DEF CartTypeOK, CallsOK
  <2>5. /\ call'[d].step = "found" /\ call'[d].cart = carts + 1 /\ call'[d].made
        /\ call'[d].branch = call[d].branch /\ call'[d].line = call[d].line
    BY <2>1, <2>4 DEF Calls
  <2>6. \A e \in Devices : HasCart(e) => call[e].cart <= carts /\ call[e].cart \in Nat
    BY CallFields DEF CartInv, Fits, HasCart
  <2>8. call[d].line = 0
    BY <1>0 DEF CartInv, Fits
  <2>10. Fits(d)'
    BY <1>0, <1>2, <2>2, <2>5, <2>8 DEF Fits, HasCart
  <2>11. ASSUME NEW e \in Devices \ {d} PROVE Alone(d, e)' /\ Alone(e, d)'
    BY <1>0, <2>2, <2>4, <2>5, <2>6 DEF Alone, HasCart, Waits
  <2>12. QED
    <3>1. carts <= carts'
      BY <1>2, <2>2
    <3>2. QED
      BY <1>0, <2>2, <2>4, <2>10, <2>11, <3>1, ReadsKeep DEF CartTypeOK
<1>3. QED
  BY <1>1, <1>2 DEF MakeCart

LEMMA FindLineStep ==
    ASSUME CartTypeOK, CartInv, NEW d \in Devices, FindLine(d), UNCHANGED catalogueVars
    PROVE  CartTypeOK' /\ CartInv'
<1>0. /\ Waits(d) /\ call[d].step = "viewed" /\ call[d].cart # 0
      /\ UNCHANGED <<cart, branchOf, carts, line, lines, tangled, sale, unsold>>
  BY DEF FindLine, Checked, Is
<1>1. PICK l \in 0 .. MaxLines, b \in 0 .. MaxQuantity :
         /\ call' = [call EXCEPT ![d].step = "found", ![d].line = l, ![d].base = b]
         /\ l # 0 /\ There(l) => b = line[l].quantity
  <2>1. CASE \E l \in Live : call' = [call EXCEPT ![d].step = "found", ![d].line = l,
                                                  ![d].base = line[l].quantity]
    <3>1. PICK l \in Live : call' = [call EXCEPT ![d].step = "found", ![d].line = l,
                                                 ![d].base = line[l].quantity]
      BY <2>1
    <3>2. l \in 0 .. MaxLines /\ line[l].quantity \in 0 .. MaxQuantity
      BY CartAssumption DEF Live, LineIds, There, CartTypeOK, Lines
    <3>3. QED
      BY <3>1, <3>2
  <2>2. CASE call' = [call EXCEPT ![d].step = "found"]
    <3>1. call[d] \in Calls /\ call[d].base \in 0 .. MaxQuantity /\ call[d].line = 0
      BY <1>0, CallFields DEF CartInv, Fits
    <3>2. [call[d] EXCEPT !.step = "found", !.line = 0, !.base = call[d].base]
             = [call[d] EXCEPT !.step = "found"]
      BY <3>1 DEF Calls
    <3>3. call' = [call EXCEPT ![d].step = "found", ![d].line = 0, ![d].base = call[d].base]
      BY <2>2, <3>2 DEF CartTypeOK
    <3>4. 0 \in 0 .. MaxLines
      BY CartAssumption
    <3>5. QED
      BY <3>1, <3>3, <3>4
  <2>3. QED
    BY <2>1, <2>2 DEF FindLine, Matching
<1> DEFINE c == [call[d] EXCEPT !.step = "found", !.line = l, !.base = b]
<1>2. call[d] \in Calls
  BY <1>0, CallFields
<1>3. c \in Calls
  BY <1>2 DEF Calls
<1>4. CallsOK' /\ call'[d] = c /\ \A e \in Devices \ {d} : call'[e] = call[e]
  BY <1>1, <1>3 DEF CartTypeOK, CallsOK
<1>5. /\ call'[d].step = "found" /\ call'[d].line = l /\ call'[d].base = b
      /\ call'[d].cart = call[d].cart /\ call'[d].made = call[d].made
      /\ call'[d].branch = call[d].branch
  BY <1>2, <1>4 DEF Calls
<1>6. ~call[d].made /\ HasCart(d)
  BY <1>0 DEF CartInv, Fits, HasCart
<1>9. There(l)' <=> There(l)
  BY <1>0 DEF There
<1>10. Fits(d)'
  BY <1>0, <1>1, <1>5, <1>6, <1>9 DEF Fits, HasCart, CartInv
<1>11. \A e \in Devices \ {d} : Alone(d, e)' /\ Alone(e, d)'
  BY <1>4, <1>5, <1>6 DEF CartInv, Alone, HasCart, Waits
<1>12. QED
  BY <1>0, <1>4, <1>10, <1>11, ReadsKeep DEF CartTypeOK

LEMMA AskChangeStep ==
    ASSUME CartTypeOK, CartInv, NEW d \in Devices, AskQuantity(d) \/ AskAddons(d) \/ AskRemoval(d),
           UNCHANGED catalogueVars
    PROVE  CartTypeOK' /\ CartInv'
<1>1. PICK step \in {"quantity", "addons", "remove"}, l \in Live, A \in SUBSET Addons,
           n \in 1 .. MaxQuantity : AskChange(d, step, l, A, n)
  <2>1. \A l \in Live : 1 \in 1 .. MaxQuantity
    <3>1. \A l \in Live : line[l].quantity \in 1 .. MaxQuantity
      BY DEF Live, There, CartTypeOK, Lines
    <3>2. QED
      BY <3>1, CartAssumption
  <2>2. CASE AskQuantity(d)
    BY <2>2, CartAssumption DEF AskQuantity
  <2>3. CASE AskAddons(d)
    BY <2>1, <2>3 DEF AskAddons
  <2>4. CASE AskRemoval(d)
    BY <2>1, <2>4 DEF AskRemoval
  <2>5. QED
    BY <2>2, <2>3, <2>4
<1> DEFINE c == [step |-> step, variant |-> line[l].variant, addons |-> A,
                 branch |-> line[l].branch, quantity |-> n, met |-> {}, cart |-> line[l].cart,
                 made |-> FALSE, line |-> l, base |-> 0, alone |-> TRUE]
<1>2. line[l] \in Lines /\ l \in 1 .. MaxLines
  BY DEF Live, There, CartTypeOK, LineIds
<1>3. c \in Calls
  BY <1>2, CartAssumption DEF Calls, Lines, CartIds
<1>4. CallsOK' /\ call'[d] = c /\ \A e \in Devices \ {d} : call'[e] = call[e]
  BY <1>1, <1>3 DEF CartTypeOK, CallsOK, AskChange
<1>5. call'[d].step = step /\ ~call'[d].made /\ call'[d].line = l
  BY <1>4
<1>6. Fits(d)' /\ \A e \in Devices \ {d} : Alone(d, e)' /\ Alone(e, d)'
  BY <1>2, <1>5 DEF Fits, Alone, HasCart
<1>7. UNCHANGED <<cart, branchOf, carts, line, lines, tangled, sale, unsold>>
  BY <1>1 DEF AskChange
<1>8. QED
  BY <1>4, <1>6, <1>7, ReadsKeep DEF CartTypeOK

\* The cart changes: whoever has looked for a line is not alone, and the
\* others have read no line yet.
LEMMA WritesKeep ==
    ASSUME CartTypeOK, CartInv, CallsOK', UNCHANGED carts,
           \A e \in Devices : Kept(e),
           \A e \in Devices : Waits(e)' /\ call'[e].step = "found" => ~call'[e].alone,
           \A e \in Devices : Waits(e)' /\ call[e].made => cart' = 0,
           \A e \in Devices : HasCart(e) /\ Waits(e)' /\ cart' # 0 /\ call[e].cart = cart' =>
                                 call[e].branch = branchOf'
    PROVE  /\ \A e \in Devices : Fits(e)'
           /\ \A e, f \in Devices : Alone(e, f)'
<1>1. ASSUME NEW e \in Devices PROVE Fits(e)'
  <2>1. Fits(e)
    BY DEF CartInv
  <2>2. QED
    BY <2>1 DEF Fits, Kept, HasCart
<1>2. \A e, f \in Devices : Alone(e, f)'
  BY DEF CartInv, Alone, HasCart, Kept
<1>3. QED
  BY <1>1, <1>2

\* The line that was found gets the sum: of what is there, if nothing changed.
LEMMA RaiseStep ==
    ASSUME CartTypeOK, CartInv, NEW d \in Devices, Raise(d), UNCHANGED catalogueVars
    PROVE  CartTypeOK' /\ CartInv'
<1> DEFINE c == call[d]
           l == call[d].line
           sum == call[d].base + call[d].quantity
<1>0. /\ Waits(d) /\ c.step = "found" /\ l # 0
      /\ UNCHANGED <<cart, branchOf, carts, lines, sale>>
  BY DEF Raise, Is
<1>1. CASE Answered(d) /\ UNCHANGED <<line, tangled, unsold>>
  BY <1>0, <1>1, EndStep
<1>2. CASE /\ ~(sum > MaxQuantity) /\ There(l)
           /\ line' = [line EXCEPT ![l].quantity = sum, ![l].asked = @ + c.quantity]
           /\ Note(d, l) /\ Answer(d)
  <2>1. /\ l \in LineIds /\ c.base \in 0 .. MaxQuantity /\ c.quantity \in 1 .. MaxQuantity
        /\ c.alone \in BOOLEAN
    BY <1>0, CallFields, CartAssumption DEF LineIds
  <2>2. line[l] \in Lines
    BY <1>2, <2>1 DEF There, CartTypeOK
  <2>3. sum \in 1 .. MaxQuantity
    BY <1>2, <2>1, CartAssumption
  <2>4. /\ line'[l] = [line[l] EXCEPT !.quantity = sum, !.asked = @ + c.quantity]
        /\ \A k \in LineIds : k # l => line'[k] = line[k]
    BY <1>2, <2>1 DEF CartTypeOK
  <2>5. line'[l] \in Lines
    <3>1. line[l].asked + c.quantity \in Nat
      BY <2>1, <2>2, CartAssumption DEF Lines
    <3>2. QED
      BY <2>2, <2>3, <2>4, <3>1 DEF Lines
  <2>6. /\ line'[l].quantity = sum /\ line'[l].asked = line[l].asked + c.quantity
        /\ line'[l].cart = line[l].cart /\ line'[l].branch = line[l].branch
    BY <2>2, <2>4 DEF Lines
  <2>7. line' \in [LineIds -> Lines \cup {Absent}]
    BY <1>2, <2>5, <2>4 DEF CartTypeOK
  <2>8. /\ tangled' = IF c.alone THEN tangled ELSE tangled \cup {l}
        /\ unsold' \in {unsold, unsold \cup {l}}
    BY <1>2 DEF Note
  <2>10. CartTypeOK' /\ CallsOK'
    <3>1. TypeOK'
      BY DEF CartTypeOK, TypeOK, AssignmentsTypeOK, catalogueVars, assignmentVars
    <3>2. CallsOK'
      BY <1>2, AnswerKeeps DEF CartTypeOK, CallsOK
    <3>3. QED
      BY <1>0, <2>1, <2>7, <2>8, <3>1, <3>2 DEF CartTypeOK, CallsOK
  <2>11. \A e \in Devices : Fits(e)' /\ \A f \in Devices : Alone(e, f)'
    <3>1. /\ \A e \in Devices : Kept(e)
          /\ \A e \in Devices : Waits(e)' /\ call'[e].step = "found" => ~call'[e].alone
      BY <1>2, AnswerKeeps DEF CartTypeOK, CallsOK, Kept
    <3>2. /\ \A e \in Devices : Waits(e)' /\ call[e].made => cart' = 0
          /\ \A e \in Devices : HasCart(e) /\ Waits(e)' /\ cart' # 0 /\ call[e].cart = cart' =>
                                   call[e].branch = branchOf'
      BY <1>0, <3>1 DEF CartInv, Fits, Kept, HasCart
    <3>3. QED
      BY <1>0, <2>10, <3>1, <3>2, WritesKeep
  <2>12. QuantityAsAsked'
    <3> SUFFICES ASSUME NEW k \in LineIds, There(k)', k \notin tangled'
                 PROVE  line'[k].quantity = line'[k].asked
      BY DEF QuantityAsAsked, Live
    <3>1. CASE k = l
      <4>1. c.alone /\ l \notin tangled
        BY <2>8, <3>1
      <4>2. c.base = line[l].quantity
        BY <1>0, <1>2, <4>1 DEF CartInv, Fits
      <4>3. line[l].quantity = line[l].asked
        BY <1>2, <2>1, <4>1 DEF CartInv, QuantityAsAsked, Live
      <4>4. QED
        BY <2>6, <3>1, <4>2, <4>3
    <3>2. CASE k # l
      BY <2>4, <2>8, <3>2 DEF CartInv, QuantityAsAsked, Live, There
    <3>3. QED
      BY <3>1, <3>2
  <2>13. LinesOfOneBranch'
    BY <1>0, <1>2, <2>1, <2>4, <2>6 DEF CartInv, LinesOfOneBranch, Live, There
  <2>14. QED
    BY <1>0, <2>10, <2>11, <2>12, <2>13 DEF CartInv
<1>3. QED
  BY <1>0, <1>1, <1>2 DEF Raise

\* A new line is in the cart there is, or in the one that was made for it, which
\* is then the only one.
LEMMA AddLineStep ==
    ASSUME CartTypeOK, CartInv, NEW d \in Devices, AddLine(d), UNCHANGED catalogueVars
    PROVE  CartTypeOK' /\ CartInv'
<1> DEFINE c == call[d]
           l == lines + 1
           new == [cart |-> c.cart, variant |-> c.variant, addons |-> c.addons,
                   quantity |-> c.quantity, asked |-> c.quantity, branch |-> c.branch]
<1>0. /\ Waits(d) /\ c.step = "found" /\ c.line = 0 /\ UNCHANGED <<carts, sale>>
  BY DEF AddLine, Is
<1>1. CASE Answered(d) /\ UNCHANGED <<cart, branchOf, line, lines, tangled, unsold>>
  BY <1>0, <1>1, EndStep
<1>2. CASE /\ c.made \/ cart = c.cart
           /\ lines < MaxLines /\ lines' = l /\ line' = [line EXCEPT ![l] = new]
           /\ cart' = c.cart /\ branchOf' = IF c.made THEN c.branch ELSE branchOf
           /\ Note(d, l) /\ Answer(d)
  <2>1. /\ c.variant \in Variants /\ c.addons \in SUBSET Addons /\ c.branch \in Branches
        /\ c.quantity \in 1 .. MaxQuantity /\ c.cart \in 0 .. MaxCarts /\ c.made \in BOOLEAN
    BY <1>0, CallFields
  <2>2. c.cart \in CartIds /\ HasCart(d) /\ c.cart <= carts
    BY <1>0, <2>1, CartAssumption DEF CartInv, Fits, HasCart, CartIds
  <2>3. l \in LineIds /\ lines' \in 0 .. MaxLines
    BY <1>2, CartAssumption DEF CartTypeOK, LineIds
  <2>4. new \in Lines
    BY <2>1, <2>2, CartAssumption DEF Lines
  <2>5. /\ line'[l] = new /\ \A k \in LineIds : k # l => line'[k] = line[k]
        /\ line' \in [LineIds -> Lines \cup {Absent}]
    BY <1>2, <2>3, <2>4 DEF CartTypeOK
  <2>6. /\ tangled' = IF c.alone THEN tangled ELSE tangled \cup {l}
        /\ unsold' \in {unsold, unsold \cup {l}}
    BY <1>2 DEF Note
  <2>8. CartTypeOK' /\ CallsOK'
    <3>1. TypeOK'
      BY DEF CartTypeOK, TypeOK, AssignmentsTypeOK, catalogueVars, assignmentVars
    <3>2. CallsOK'
      BY <1>2, AnswerKeeps DEF CartTypeOK, CallsOK
    <3>3. tangled' \in SUBSET LineIds /\ unsold' \in SUBSET LineIds
      BY <2>3, <2>6 DEF CartTypeOK
    <3>4. cart' \in 0 .. MaxCarts /\ branchOf' \in Branches \cup {Absent} /\ carts' \in 0 .. MaxCarts
      BY <1>0, <1>2, <2>1 DEF CartTypeOK
    <3>5. QED
      BY <1>0, <2>3, <2>5, <3>1, <3>2, <3>3, <3>4 DEF CartTypeOK, CallsOK
  <2>9. branchOf' = c.branch
    BY <1>2, <2>1, <2>2, CartAssumption DEF CartInv, Fits, CartIds, HasCart
  <2>10. \A k \in LineIds : There(k) => line[k].cart = cart' /\ line[k].branch = branchOf'
    <3>1. CASE c.made
      <4>1. cart = 0
        BY <1>0, <3>1 DEF CartInv, Fits
      <4>2. \A k \in LineIds : There(k) => line[k].cart \in CartIds
        BY DEF There, CartTypeOK, Lines
      <4>3. \A k \in LineIds : ~There(k)
        BY <4>1, <4>2, CartAssumption DEF CartInv, LinesOfOneBranch, Live, CartIds
      <4>4. QED
        BY <4>3
    <3>2. CASE ~c.made
      BY <1>2, <3>2 DEF CartInv, LinesOfOneBranch, Live
    <3>3. QED
      BY <3>1, <3>2
  <2>11. LinesOfOneBranch'
    BY <1>2, <2>5, <2>9, <2>10 DEF LinesOfOneBranch, Live, There
  <2>12. QuantityAsAsked'
    BY <2>5, <2>6 DEF CartInv, QuantityAsAsked, Live, There
  <2>13. \A e \in Devices : Fits(e)' /\ \A f \in Devices : Alone(e, f)'
    <3>1. /\ \A e \in Devices : Kept(e)
          /\ \A e \in Devices : Waits(e)' /\ call'[e].step = "found" => ~call'[e].alone
          /\ ~Waits(d)'
      BY <1>2, AnswerKeeps DEF CartTypeOK, CallsOK, Kept
    <3>2. ASSUME NEW e \in Devices, Waits(e)', call[e].made PROVE cart' = 0
      <4>1. Waits(e) /\ e # d /\ HasCart(e) /\ cart = 0
        BY <3>1, <3>2 DEF Kept, CartInv, Fits, HasCart
      <4>2. ~c.made /\ c.cart # 0 /\ cart = c.cart
        BY <1>0, <1>2, <2>2, <3>2, <4>1 DEF CartInv, Alone, Fits
      <4>3. QED
        BY <4>1, <4>2
    <3>3. ASSUME NEW e \in Devices, HasCart(e), Waits(e)', call[e].cart = cart'
          PROVE  call[e].branch = branchOf'
      <4>1. e # d
        BY <3>1, <3>3
      <4>2. CASE c.made
        BY <1>2, <2>2, <3>3, <4>1, <4>2 DEF CartInv, Alone
      <4>3. CASE ~c.made
        BY <1>2, <2>2, <3>3, <4>3, CartAssumption DEF CartInv, Fits, CartIds, HasCart
      <4>4. QED
        BY <4>2, <4>3
    <3>4. QED
      BY <1>0, <2>8, <3>1, <3>2, <3>3, WritesKeep
  <2>14. cart' <= carts'
    BY <1>0, <1>2, <2>2
  <2>15. QED
    BY <2>8, <2>11, <2>12, <2>13, <2>14 DEF CartInv
<1>3. QED
  BY <1>0, <1>1, <1>2 DEF AddLine

\* The line of a request gets its new state, unless it is gone.
LEMMA ChangeStep ==
    ASSUME CartTypeOK, CartInv, NEW d \in Devices, UNCHANGED catalogueVars,
           Waits(d), call[d].step \in {"quantity", "addons", "remove"},
           NEW new, Change(d, new),
           There(call[d].line) =>
              \/ new = Absent
              \/ /\ new \in Lines
                 /\ new.cart = line[call[d].line].cart /\ new.branch = line[call[d].line].branch
                 /\ \/ new.quantity = new.asked
                    \/ /\ new.quantity = line[call[d].line].quantity
                       /\ new.asked = line[call[d].line].asked
    PROVE  CartTypeOK' /\ CartInv'
<1> DEFINE l == call[d].line
<1>0. /\ l \in LineIds
      /\ tangled' = {k \in tangled : line'[k] # Absent}
      /\ UNCHANGED <<cart, branchOf, carts, lines, sale, unsold>>
  <2>1. l \in 0 .. MaxLines /\ l # 0
    BY CallFields DEF CartInv, Fits
  <2>2. QED
    BY <2>1, CartAssumption DEF Change, LineIds
<1>1. \/ ~There(l) /\ Answered(d) /\ line' = line
      \/ There(l) /\ line' = [line EXCEPT ![l] = new] /\ Answer(d)
  BY DEF Change
<1>2. CASE ~There(l) /\ Answered(d) /\ line' = line
  <2>1. CartTypeOK' /\ CallsOK'
    <3>1. TypeOK'
      BY DEF CartTypeOK, TypeOK, AssignmentsTypeOK, catalogueVars, assignmentVars
    <3>2. CallsOK'
      BY <1>2, AnsweredKeeps DEF CartTypeOK, CallsOK
    <3>3. QED
      BY <1>0, <1>2, <3>1, <3>2 DEF CartTypeOK, CallsOK
  <2>2. \A e \in Devices : Fits(e)' /\ \A f \in Devices : Alone(e, f)'
    <3>2. /\ ~Waits(d)' /\ \A e \in Devices \ {d} : call'[e] = call[e]
      BY <1>2, AnsweredKeeps DEF CartTypeOK, CallsOK
    <3>3. \A e \in Devices : Waits(e)' => call'[e] = call[e] /\ Waits(e)
      BY <3>2 DEF Waits
    <3>4. ASSUME NEW e \in Devices PROVE Fits(e)'
      <4>1. Fits(e)
        BY DEF CartInv
      <4>2. QED
        BY <1>0, <1>2, <3>3, <4>1 DEF Fits, HasCart, There
    <3>5. \A e, f \in Devices : Alone(e, f)'
      BY <3>3 DEF CartInv, Alone, HasCart
    <3>6. QED
      BY <3>4, <3>5
  <2>3. QuantityAsAsked' /\ LinesOfOneBranch' /\ cart' <= carts'
    BY <1>0, <1>2 DEF CartInv, QuantityAsAsked, LinesOfOneBranch, Live, There
  <2>4. QED
    BY <2>1, <2>2, <2>3 DEF CartInv
<1>3. CASE There(l) /\ line' = [line EXCEPT ![l] = new] /\ Answer(d)
  <2>1. /\ line'[l] = new /\ \A k \in LineIds : k # l => line'[k] = line[k]
        /\ line' \in [LineIds -> Lines \cup {Absent}]
    BY <1>0, <1>3 DEF CartTypeOK
  <2>2. CartTypeOK' /\ CallsOK'
    <3>1. TypeOK'
      BY DEF CartTypeOK, TypeOK, AssignmentsTypeOK, catalogueVars, assignmentVars
    <3>2. CallsOK'
      BY <1>3, AnswerKeeps DEF CartTypeOK, CallsOK
    <3>3. QED
      BY <1>0, <2>1, <3>1, <3>2 DEF CartTypeOK, CallsOK
  <2>3. \A e \in Devices : Fits(e)' /\ \A f \in Devices : Alone(e, f)'
    <3>1. /\ \A e \in Devices : Kept(e)
          /\ \A e \in Devices : Waits(e)' /\ call'[e].step = "found" => ~call'[e].alone
      BY <1>3, AnswerKeeps DEF CartTypeOK, CallsOK, Kept
    <3>2. /\ \A e \in Devices : Waits(e)' /\ call[e].made => cart' = 0
          /\ \A e \in Devices : HasCart(e) /\ Waits(e)' /\ cart' # 0 /\ call[e].cart = cart' =>
                                   call[e].branch = branchOf'
      BY <1>0, <3>1 DEF CartInv, Fits, Kept, HasCart
    <3>3. QED
      BY <1>0, <2>2, <3>1, <3>2, WritesKeep
  <2>4. QuantityAsAsked'
    <3> SUFFICES ASSUME NEW k \in LineIds, There(k)', k \notin tangled'
                 PROVE  line'[k].quantity = line'[k].asked
      BY DEF QuantityAsAsked, Live
    <3>1. k \notin tangled
      BY <1>0 DEF There
    <3>2. CASE k = l
      <4>1. line[l].quantity = line[l].asked
        BY <1>0, <1>3, <3>1, <3>2 DEF CartInv, QuantityAsAsked, Live
      <4>2. new # Absent
        BY <2>1, <3>2 DEF There
      <4>3. QED
        BY <1>3, <2>1, <3>2, <4>1, <4>2
    <3>3. CASE k # l
      BY <2>1, <3>1, <3>3 DEF CartInv, QuantityAsAsked, Live, There
    <3>4. QED
      BY <3>2, <3>3
  <2>5. LinesOfOneBranch'
    BY <1>0, <1>3, <2>1 DEF CartInv, LinesOfOneBranch, Live, There
  <2>6. cart' <= carts'
    BY <1>0 DEF CartInv
  <2>7. QED
    BY <2>2, <2>3, <2>4, <2>5, <2>6 DEF CartInv
<1>4. QED
  BY <1>1, <1>2, <1>3

LEMMA ChangeItemStep ==
    ASSUME CartTypeOK, CartInv, NEW d \in Devices, ChangeItem(d), UNCHANGED catalogueVars
    PROVE  CartTypeOK' /\ CartInv'
<1> DEFINE c == call[d]
<1>1. There(c.line) /\ c.line \in LineIds => line[c.line] \in Lines
  BY DEF There, CartTypeOK
<1>2. Waits(d) /\ c.step \in {"quantity", "addons", "remove"} => c.line \in LineIds
  BY CallFields, CartAssumption DEF CartInv, Fits, LineIds
<1>3. CASE SetQuantity(d)
  <2>1. /\ Waits(d) /\ c.step = "quantity"
        /\ Change(d, [line[c.line] EXCEPT !.quantity = c.quantity, !.asked = c.quantity])
    BY <1>3 DEF SetQuantity, Is
  <2> DEFINE new == [line[c.line] EXCEPT !.quantity = c.quantity, !.asked = c.quantity]
  <2>2. c.quantity \in 1 .. MaxQuantity /\ c.quantity \in Nat
    BY <2>1, CallFields, CartAssumption
  <2>3. There(c.line) => /\ new \in Lines
                         /\ new.cart = line[c.line].cart /\ new.branch = line[c.line].branch
                         /\ new.quantity = new.asked
    BY <1>1, <1>2, <2>1, <2>2 DEF Lines
  <2>4. QED
    BY <2>1, <2>3, ChangeStep
<1>4. CASE SetAddons(d)
  <2>1. /\ Waits(d) /\ c.step = "addons"
        /\ Change(d, [line[c.line] EXCEPT !.addons = c.addons])
    BY <1>4 DEF SetAddons, Is
  <2> DEFINE new == [line[c.line] EXCEPT !.addons = c.addons]
  <2>2. c.addons \in SUBSET Addons
    BY <2>1, CallFields
  <2>3. There(c.line) => /\ new \in Lines
                         /\ new.cart = line[c.line].cart /\ new.branch = line[c.line].branch
                         /\ new.quantity = line[c.line].quantity /\ new.asked = line[c.line].asked
    BY <1>1, <1>2, <2>1, <2>2 DEF Lines
  <2>4. QED
    BY <2>1, <2>3, ChangeStep
<1>5. CASE RemoveLine(d)
  <2>1. Waits(d) /\ c.step = "remove" /\ Change(d, Absent)
    BY <1>5 DEF RemoveLine, Is
  <2>2. QED
    BY <2>1, ChangeStep
<1>6. QED
  BY <1>3, <1>4, <1>5, AskChangeStep DEF ChangeItem

\* All lines were in the cart that is gone; its id is not given out again.
LEMMA ClearCartStep ==
    ASSUME CartTypeOK, CartInv, ClearCart, UNCHANGED catalogueVars
    PROVE  CartTypeOK' /\ CartInv'
<1>1. /\ cart # 0 /\ cart' = 0 /\ branchOf' = Absent
      /\ line' = [l \in LineIds |-> IF There(l) /\ line[l].cart = cart THEN Absent ELSE line[l]]
      /\ tangled' = {l \in tangled : line'[l] # Absent}
      /\ UNCHANGED <<carts, lines, sale, unsold>>
  BY DEF ClearCart
<1>2. \A l \in LineIds : ~There(l)'
  BY <1>1 DEF CartInv, LinesOfOneBranch, Live, There
<1>3. \A e \in Devices : \/ Is(e, "found") /\ call'[e] = [call[e] EXCEPT !.alone = FALSE]
                         \/ ~Is(e, "found") /\ call'[e] = call[e]
  BY DEF ClearCart
<1>4. \A e \in Devices : call[e] \in Calls =>
         /\ [call[e] EXCEPT !.alone = FALSE] \in Calls
         /\ [call[e] EXCEPT !.alone = FALSE].alone = FALSE
  BY DEF Calls
<1>5. CallsOK'
  <2>1. \A e \in Devices : call'[e] \in Calls \cup {Absent}
    BY <1>3, <1>4 DEF CartTypeOK, Is, Waits
  <2>2. call' = [e \in Devices |-> call'[e]]
    BY DEF ClearCart
  <2>3. QED
    BY <2>1, <2>2 DEF CallsOK
<1>6. \A e \in Devices : Kept(e) /\ (Waits(e)' /\ call'[e].step = "found" => ~call'[e].alone)
  <2> SUFFICES ASSUME NEW e \in Devices
               PROVE  Kept(e) /\ (Waits(e)' /\ call'[e].step = "found" => ~call'[e].alone)
    OBVIOUS
  <2>1. CASE Is(e, "found") /\ call'[e] = [call[e] EXCEPT !.alone = FALSE]
    <3>1. call[e] \in Calls
      BY <2>1 DEF CartTypeOK, Is, Waits
    <3>2. QED
      BY <2>1, <3>1 DEF Kept, Calls, Is
  <2>2. CASE ~Is(e, "found") /\ call'[e] = call[e]
    BY <2>2 DEF Kept, Is, Waits
  <2>3. QED
    BY <1>3, <2>1, <2>2
<1>7. CartTypeOK'
  <2>1. TypeOK'
    BY DEF CartTypeOK, TypeOK, AssignmentsTypeOK, catalogueVars, assignmentVars
  <2>2. line' \in [LineIds -> Lines \cup {Absent}]
    BY <1>1 DEF CartTypeOK
  <2>3. cart' \in 0 .. MaxCarts /\ tangled' \in SUBSET LineIds
    BY <1>1, CartAssumption DEF CartTypeOK
  <2>4. QED
    BY <1>1, <1>5, <2>1, <2>2, <2>3 DEF CartTypeOK, CallsOK
<1>8. \A e \in Devices : Fits(e)' /\ \A f \in Devices : Alone(e, f)'
  BY <1>1, <1>5, <1>6, WritesKeep
<1>9. QuantityAsAsked' /\ LinesOfOneBranch' /\ cart' <= carts'
  <2>1. cart' <= carts'
    BY <1>1 DEF CartTypeOK
  <2>2. QED
    BY <1>1, <1>2, <2>1 DEF CartInv, QuantityAsAsked, LinesOfOneBranch, Live
<1>10. QED
  BY <1>7, <1>8, <1>9 DEF CartInv

\* The catalogue changes; the requests and the cart do not.
LEMMA CatalogueStepKeeps ==
    ASSUME CartTypeOK, CartInv, LogInv, CatalogueStep
    PROVE  CartTypeOK' /\ CartInv' /\ LogInv'
<1>0. UNCHANGED <<cart, branchOf, carts, line, lines, call, tangled, unsold>> /\ Next
  BY DEF CatalogueStep
<1>1. TypeOK' /\ LogInv'
  BY <1>0, CatalogueKeeps DEF CartTypeOK
<1>2. sale' \in [Devices -> Sales]
  BY DEF CatalogueStep, CartTypeOK, Sales
<1>3. CartTypeOK'
  BY <1>0, <1>1, <1>2 DEF CartTypeOK
<1>4. CartInv'
  BY <1>0 DEF CartInv, Fits, Alone, HasCart, Waits, QuantityAsAsked, LinesOfOneBranch, Live, There
<1>5. QED
  BY <1>1, <1>3, <1>4

-----------------------------------------------------------------------------
(* What is put in the cart was for sale.                                     *)

\* The conditions a request has met hold, unless one was lost; one it has not
\* met does not hold, unless the item was for sale as a whole or one was gained.
Tracks(d) ==
    Waits(d) /\ call[d].step \in {"asked", "viewed", "found"} =>
        /\ call[d].step # "asked" => {"product", "variant"} \subseteq call[d].met
        /\ "variantBranch" \in call[d].met => "branch" \in call[d].met
        /\ call[d].step = "found" =>
              "variantBranch" \in call[d].met /\ (call[d].addons # {} => "addons" \in call[d].met)
        /\ sale[d].whole \/ ~OnSale(call[d])
        /\ sale[d].lost \/ \A k \in call[d].met : Holds(k, call[d])
        /\ sale[d].whole \/ sale[d].gained
              \/ \E k \in Conditions \ call[d].met : ~Holds(k, call[d])

SaleInv == (\A d \in Devices : Tracks(d)) /\ AddedWhileSold

LEMMA InitSale == CartInit => SaleInv
BY DEF CartInit, SaleInv, Tracks, Waits, AddedWhileSold

LEMMA SameItem ==
    ASSUME UNCHANGED <<row, rows>>, NEW d \in Devices,
           call'[d].variant = call[d].variant, call'[d].addons = call[d].addons,
           call'[d].branch = call[d].branch
    PROVE  /\ \A k \in Conditions : Holds(k, call[d])' <=> Holds(k, call[d])
           /\ OnSale(call[d])' <=> OnSale(call[d])
<1>1. ASSUME NEW k \in Conditions PROVE Holds(k, call[d])' <=> Holds(k, call[d])
  BY DEF Holds, Conditions, IsActive, Known, Held
<1>2. QED
  BY <1>1 DEF OnSale

\* Whoever is not touched, while the catalogue rests, knows what it knew.
LEMMA TracksStays ==
    ASSUME UNCHANGED <<row, rows>>, NEW d \in Devices, Tracks(d), Kept(d), sale'[d] = sale[d],
           Waits(d) => call[d].met \subseteq Conditions
    PROVE  Tracks(d)'
<1> SUFFICES ASSUME Waits(d)' PROVE Tracks(d)'
  BY DEF Tracks
<1>1. /\ Waits(d) /\ call'[d].step = call[d].step /\ call'[d].met = call[d].met
      /\ call'[d].addons = call[d].addons
  BY DEF Kept
<1>2. /\ \A k \in Conditions : Holds(k, call[d])' <=> Holds(k, call[d])
      /\ OnSale(call[d])' <=> OnSale(call[d])
  BY SameItem DEF Kept
<1>3. QED
  BY <1>1, <1>2 DEF Tracks

\* All conditions were met: if none was lost all of them hold, and if none was
\* gained all of them held at the beginning.
LEMMA SoldWhenWritten ==
    ASSUME NEW d \in Devices, Tracks(d), Is(d, "found")
    PROVE  sale[d].whole \/ (sale[d].lost /\ sale[d].gained)
<1>1. \A k \in Conditions \ call[d].met : Holds(k, call[d])
  BY DEF Tracks, Is, Conditions, Holds
<1>2. ~sale[d].lost => OnSale(call[d])
  BY <1>1 DEF Tracks, Is, OnSale
<1>3. QED
  BY <1>1, <1>2 DEF Tracks, Is

\* A request that was answered, whatever was written.
LEMMA SaleAnswered ==
    ASSUME CartTypeOK, SaleInv, NEW d \in Devices, ~Waits(d)', \A e \in Devices \ {d} : Kept(e),
           UNCHANGED <<row, rows, sale>>, unsold' = {}
    PROVE  SaleInv'
<1>1. Tracks(d)'
  BY DEF Tracks
<1>2. ASSUME NEW e \in Devices \ {d} PROVE Tracks(e)'
  BY CallFields, TracksStays DEF SaleInv
<1>3. QED
  BY <1>1, <1>2 DEF SaleInv, AddedWhileSold

\* A request that goes on for the same item.
LEMMA SaleMoves ==
    ASSUME CartTypeOK, SaleInv, NEW d \in Devices, Tracks(d)',
           \A e \in Devices \ {d} : call'[e] = call[e] /\ sale'[e] = sale[e],
           UNCHANGED <<row, rows, unsold>>
    PROVE  SaleInv'
<1>1. ASSUME NEW e \in Devices \ {d} PROVE Tracks(e)'
  <2>1. Kept(e)
    BY DEF Kept, Waits
  <2>2. QED
    BY <2>1, CallFields, TracksStays DEF SaleInv
<1>2. QED
  BY <1>1 DEF SaleInv, AddedWhileSold

LEMMA AskItemSale ==
    ASSUME CartTypeOK, SaleInv, NEW d \in Devices, AskItem(d), UNCHANGED <<row, rows>>
    PROVE  SaleInv'
<1>1. PICK v \in Variants, A \in SUBSET Addons, b \in Branches, n \in Amounts :
         /\ call' = [call EXCEPT ![d] = Asked(v, A, b, n)]
         /\ sale' = [sale EXCEPT ![d] = [whole |-> OnSale(Asked(v, A, b, n)),
                                        lost |-> FALSE, gained |-> FALSE]]
  BY DEF AskItem
<1> DEFINE c == Asked(v, A, b, n)
<1>2. /\ call'[d] = c /\ c.step = "asked" /\ c.met = {}
      /\ sale'[d] = [whole |-> OnSale(c), lost |-> FALSE, gained |-> FALSE]
      /\ \A e \in Devices \ {d} : call'[e] = call[e] /\ sale'[e] = sale[e]
  BY <1>1 DEF CartTypeOK, Asked
<1>3. ASSUME NEW k \in Conditions PROVE Holds(k, call[d])' <=> Holds(k, c)
  BY <1>2 DEF Holds, Conditions, IsActive, Known, Held
<1>4. OnSale(call[d])' <=> OnSale(c)
  BY <1>3 DEF OnSale
<1>5. OnSale(c) \/ \E k \in Conditions : ~Holds(k, c)
  BY DEF OnSale
<1>6. Tracks(d)'
  BY <1>2, <1>3, <1>4, <1>5 DEF Tracks
<1>7. QED
  BY <1>2, <1>6, SaleMoves DEF AskItem

LEMMA CheckSale ==
    ASSUME CartTypeOK, SaleInv, NEW d \in Devices, NEW k \in Conditions, Waits(d),
           call[d].step \in {"asked", "viewed"}, k = "variantBranch" => "branch" \in call[d].met,
           Check(d, k), UNCHANGED <<row, rows>>
    PROVE  SaleInv'
<1>0. UNCHANGED <<sale, unsold>>
  BY DEF Check
<1>1. CASE Answered(d)
  <2>1. ~Waits(d)' /\ \A e \in Devices \ {d} : Kept(e)
    BY <1>1, AnsweredKeeps DEF CartTypeOK, CallsOK
  <2>2. QED
    BY <1>0, <2>1, SaleAnswered DEF SaleInv, AddedWhileSold
<1>2. CASE Holds(k, call[d]) /\ call' = [call EXCEPT ![d].met = @ \cup {k}]
  <2>1. call[d] \in Calls /\ call[d].met \in SUBSET Conditions
    BY CallFields
  <2>2. /\ call'[d] = [call[d] EXCEPT !.met = @ \cup {k}]
        /\ \A e \in Devices \ {d} : call'[e] = call[e]
    BY <1>2 DEF CartTypeOK
  <2>3. /\ call'[d].variant = call[d].variant /\ call'[d].addons = call[d].addons
        /\ call'[d].branch = call[d].branch /\ call'[d].step = call[d].step
        /\ call'[d].met = call[d].met \cup {k}
    BY <2>1, <2>2 DEF Calls
  <2>4. /\ \A j \in Conditions : Holds(j, call[d])' <=> Holds(j, call[d])
        /\ OnSale(call[d])' <=> OnSale(call[d])
    BY <2>3, SameItem
  <2>5. Tracks(d)'
    <3>1. Tracks(d)
      BY DEF SaleInv
    <3>2. /\ call'[d].step # "asked" => {"product", "variant"} \subseteq call'[d].met
          /\ "variantBranch" \in call'[d].met => "branch" \in call'[d].met
          /\ call'[d].step # "found"
          /\ sale'[d].whole \/ ~OnSale(call[d])'
      BY <1>0, <2>3, <2>4, <3>1 DEF Tracks
    <3>3. sale'[d].lost \/ \A j \in call'[d].met : Holds(j, call[d])'
      BY <1>0, <1>2, <2>1, <2>3, <2>4, <3>1 DEF Tracks
    <3>4. sale'[d].whole \/ sale'[d].gained
             \/ \E j \in Conditions \ call'[d].met : ~Holds(j, call[d])'
      BY <1>0, <1>2, <2>3, <2>4, <3>1 DEF Tracks
    <3>5. QED
      BY <3>2, <3>3, <3>4 DEF Tracks
  <2>6. QED
    BY <1>0, <2>2, <2>5, SaleMoves
<1>3. QED
  BY <1>1, <1>2 DEF Check

\* The cart is read or made, or a line found: a request of the same item goes on.
LEMMA GoOnSale ==
    ASSUME CartTypeOK, SaleInv, NEW d \in Devices, ReadCart(d) \/ MakeCart(d) \/ FindLine(d),
           UNCHANGED <<row, rows>>
    PROVE  SaleInv'
<1>0. UNCHANGED <<sale, unsold>> /\ Waits(d)
  BY DEF ReadCart, MakeCart, FindLine, Checked, Is
<1>1. CASE Answered(d)
  <2>1. ~Waits(d)' /\ \A e \in Devices \ {d} : Kept(e)
    BY <1>1, AnsweredKeeps DEF CartTypeOK, CallsOK
  <2>2. QED
    BY <1>0, <2>1, SaleAnswered DEF SaleInv, AddedWhileSold
<1>2. CASE ~Answered(d)
  <2>1. PICK step, b, m, l, n :
           /\ call' = [call EXCEPT ![d] = [call[d] EXCEPT !.step = step, !.cart = b, !.made = m,
                                                          !.line = l, !.base = n]]
           /\ \/ step = "viewed" /\ Is(d, "asked") /\ {"product", "variant"} \subseteq call[d].met
              \/ step = "found" /\ Checked(d)
    <3>0. call[d] \in Calls
      BY <1>0, CallFields
    <3>1. CASE ReadCart(d)
      <4>1. call' = [call EXCEPT ![d].step = "viewed", ![d].cart = cart]
        BY <1>2, <3>1 DEF ReadCart
      <4>2. call' = [call EXCEPT ![d] = [call[d] EXCEPT !.step = "viewed", !.cart = cart,
                       !.made = call[d].made, !.line = call[d].line, !.base = call[d].base]]
        BY <3>0, <4>1 DEF Calls, CartTypeOK
      <4>3. QED
        BY <3>1, <4>2 DEF ReadCart
    <3>2. CASE MakeCart(d)
      <4>1. call' = [call EXCEPT ![d].step = "found", ![d].cart = carts + 1, ![d].made = TRUE]
        BY <1>2, <3>2 DEF MakeCart
      <4>2. call' = [call EXCEPT ![d] = [call[d] EXCEPT !.step = "found", !.cart = carts + 1,
                       !.made = TRUE, !.line = call[d].line, !.base = call[d].base]]
        BY <3>0, <4>1 DEF Calls, CartTypeOK
      <4>3. QED
        BY <3>2, <4>2 DEF MakeCart
    <3>3. CASE FindLine(d)
      <4>1. CASE call' = [call EXCEPT ![d].step = "found"]
        <5>1. call' = [call EXCEPT ![d] = [call[d] EXCEPT !.step = "found", !.cart = call[d].cart,
                         !.made = call[d].made, !.line = call[d].line, !.base = call[d].base]]
          BY <3>0, <4>1 DEF Calls, CartTypeOK
        <5>2. QED
          BY <3>3, <5>1 DEF FindLine
      <4>2. CASE \E l \in Live : call' = [call EXCEPT ![d].step = "found", ![d].line = l,
                                                      ![d].base = line[l].quantity]
        <5>1. PICK l \in Live : call' = [call EXCEPT ![d].step = "found", ![d].line = l,
                                                     ![d].base = line[l].quantity]
          BY <4>2
        <5>2. call' = [call EXCEPT ![d] = [call[d] EXCEPT !.step = "found", !.cart = call[d].cart,
                         !.made = call[d].made, !.line = l, !.base = line[l].quantity]]
          BY <3>0, <5>1 DEF Calls, CartTypeOK
        <5>3. QED
          BY <3>3, <5>2 DEF FindLine
      <4>3. QED
        BY <3>3, <4>1, <4>2 DEF FindLine, Matching
    <3>4. QED
      BY <3>1, <3>2, <3>3
  <2>2. call[d] \in Calls
    BY <1>0, CallFields
  <2>3. /\ call'[d] = [call[d] EXCEPT !.step = step, !.cart = b, !.made = m, !.line = l, !.base = n]
        /\ \A e \in Devices \ {d} : call'[e] = call[e]
    BY <2>1 DEF CartTypeOK
  <2>4. /\ call'[d].variant = call[d].variant /\ call'[d].addons = call[d].addons
        /\ call'[d].branch = call[d].branch /\ call'[d].step = step /\ call'[d].met = call[d].met
    BY <2>2, <2>3 DEF Calls
  <2>5. /\ \A j \in Conditions : Holds(j, call[d])' <=> Holds(j, call[d])
        /\ OnSale(call[d])' <=> OnSale(call[d])
    BY <2>4, SameItem
  <2>6. call[d].step \in {"asked", "viewed"} /\ Tracks(d) /\ call[d].met \subseteq Conditions
    BY <1>0, <2>1, CallFields DEF SaleInv, Checked, Is
  <2>7. Tracks(d)'
    BY <1>0, <2>1, <2>4, <2>5, <2>6 DEF Tracks, Checked, Is
  <2>8. QED
    BY <1>0, <2>3, <2>7, SaleMoves
<1>3. QED
  BY <1>1, <1>2

\* A line is raised or added: what the history notes of it.
LEMMA WriteSale ==
    ASSUME CartTypeOK, SaleInv, NEW d \in Devices, Raise(d) \/ AddLine(d), UNCHANGED <<row, rows>>
    PROVE  SaleInv'
<1>1. Is(d, "found") /\ UNCHANGED sale /\ Tracks(d)
  BY DEF Raise, AddLine, SaleInv
<1>2. unsold' = {}
  <2>1. unsold = {}
    BY DEF SaleInv, AddedWhileSold
  <2>2. unsold' = unsold \/ \E l : Note(d, l)
    BY DEF Raise, AddLine
  <2>3. QED
    BY <1>1, <2>1, <2>2, SoldWhenWritten DEF Note
<1>3. Answered(d) \/ Answer(d)
  BY DEF Raise, AddLine
<1>4. ~Waits(d)' /\ \A e \in Devices \ {d} : Kept(e)
  BY <1>3, AnsweredKeeps, AnswerKeeps DEF CartTypeOK, CallsOK
<1>5. QED
  BY <1>1, <1>2, <1>4, SaleAnswered

\* The other requests add nothing.
LEMMA OtherSale ==
    ASSUME CartTypeOK, SaleInv, UNCHANGED <<row, rows>>,
           ClearCart \/ \E d \in Devices : ChangeItem(d) \/ GiveUp(d)
    PROVE  SaleInv'
<1>1. CASE ClearCart
  <2>1. UNCHANGED <<sale, unsold>>
    BY <1>1 DEF ClearCart
  <2>2. ASSUME NEW e \in Devices PROVE Tracks(e)'
    <3>1. CASE Is(e, "found") /\ call'[e] = [call[e] EXCEPT !.alone = FALSE]
      <4>1. call[e] \in Calls
        BY <3>1 DEF CartTypeOK, Is, Waits
      <4>2. Kept(e)
        BY <3>1, <4>1 DEF Kept, Calls, Is
      <4>3. QED
        BY <2>1, <4>2, CallFields, TracksStays DEF SaleInv
    <3>2. CASE call'[e] = call[e]
      <4>1. Kept(e)
        BY <3>2 DEF Kept, Waits
      <4>2. QED
        BY <2>1, <4>1, CallFields, TracksStays DEF SaleInv
    <3>3. QED
      BY <1>1, <3>1, <3>2 DEF ClearCart
  <2>3. QED
    BY <2>1, <2>2 DEF SaleInv, AddedWhileSold
<1>2. ASSUME NEW d \in Devices, AskQuantity(d) \/ AskAddons(d) \/ AskRemoval(d) PROVE SaleInv'
  <2>1. PICK step \in {"quantity", "addons", "remove"}, l \in Live, A \in SUBSET Addons,
              n \in Amounts \cup {1} : AskChange(d, step, l, A, n)
    BY <1>2 DEF AskQuantity, AskAddons, AskRemoval
  <2>2. /\ UNCHANGED <<sale, unsold>> /\ call'[d].step = step
        /\ \A e \in Devices \ {d} : call'[e] = call[e]
    BY <2>1 DEF AskChange, CartTypeOK
  <2>3. Tracks(d)'
    BY <2>2 DEF Tracks
  <2>4. QED
    BY <2>2, <2>3, SaleMoves
<1>3. ASSUME NEW d \in Devices, SetQuantity(d) \/ SetAddons(d) \/ RemoveLine(d) \/ GiveUp(d)
      PROVE  SaleInv'
  <2>1. UNCHANGED <<sale, unsold>> /\ (Answered(d) \/ Answer(d))
    BY <1>3 DEF SetQuantity, SetAddons, RemoveLine, GiveUp, Change
  <2>2. ~Waits(d)' /\ \A e \in Devices \ {d} : Kept(e)
    BY <2>1, AnsweredKeeps, AnswerKeeps DEF CartTypeOK, CallsOK
  <2>3. QED
    BY <2>1, <2>2, SaleAnswered DEF SaleInv, AddedWhileSold
<1>4. QED
  BY <1>1, <1>2, <1>3 DEF ChangeItem

\* The catalogue changes what holds, and the history notes what was lost and
\* what was gained.
LEMMA CatalogueSale ==
    ASSUME CartTypeOK, SaleInv, CatalogueStep
    PROVE  SaleInv'
<1>0. UNCHANGED <<call, unsold>>
  BY DEF CatalogueStep
<1>1. ASSUME NEW d \in Devices PROVE Tracks(d)'
  <2> SUFFICES ASSUME Waits(d) PROVE Tracks(d)'
    BY <1>0 DEF Tracks, Waits
  <2>1. /\ sale'[d].whole = (sale[d].whole \/ \A k \in Conditions : Holds(k, call[d])')
        /\ sale'[d].lost = (sale[d].lost
              \/ \E k \in Conditions : Holds(k, call[d]) /\ ~Holds(k, call[d])')
        /\ sale'[d].gained = (sale[d].gained
              \/ \E k \in Conditions : ~Holds(k, call[d]) /\ Holds(k, call[d])')
    BY DEF CatalogueStep
  <2>2. call[d].met \subseteq Conditions /\ Tracks(d) /\ call'[d] = call[d]
    BY <1>0, CallFields DEF SaleInv
  <2>3. sale'[d].whole \/ ~OnSale(call[d])'
    BY <2>1 DEF OnSale
  <2>4. QED
    BY <1>0, <2>1, <2>2, <2>3 DEF Tracks
<1>2. QED
  BY <1>0, <1>1 DEF SaleInv, AddedWhileSold

\* Every step of the cart and the catalogue.
LEMMA SaleKeeps ==
    ASSUME CartTypeOK, SaleInv, CartNext
    PROVE  SaleInv'
<1>1. CASE CatalogueStep
  BY <1>1, CatalogueSale
<1>2. CASE CartStep /\ UNCHANGED catalogueVars
  <2>1. UNCHANGED <<row, rows>>
    BY <1>2 DEF catalogueVars, assignmentVars
  <2>2. ASSUME NEW d \in Devices, AddItem(d) PROVE SaleInv'
    <3>1. CASE CheckProduct(d) \/ CheckVariant(d)
      BY <2>1, <3>1, CheckSale DEF CheckProduct, CheckVariant, Is, Conditions
    <3>2. CASE CheckBranch(d) \/ CheckVariantBranch(d) \/ CheckAddons(d)
      BY <2>1, <3>2, CheckSale DEF CheckBranch, CheckVariantBranch, CheckAddons, Is, Conditions
    <3>3. QED
      BY <2>1, <2>2, <3>1, <3>2, AskItemSale, GoOnSale, WriteSale DEF AddItem
  <2>3. QED
    BY <1>2, <2>1, <2>2, OtherSale DEF CartStep
<1>3. QED
  BY <1>1, <1>2 DEF CartNext

-----------------------------------------------------------------------------
(* Theorems about the cart.                                                  *)

\* The cart's invariant holds together with the catalogue's.
THEOREM CartInductive == CartSpec => [](CartTypeOK /\ CartInv /\ SaleInv /\ LogInv)
<1> DEFINE IInv == CartTypeOK /\ CartInv /\ SaleInv /\ LogInv
<1>1. CartInit => IInv
  BY InitCart, InitSale, InitCatalogue DEF CartInit
<1>2. IInv /\ [CartNext]_vars => IInv'
  <2> SUFFICES ASSUME IInv, [CartNext]_vars PROVE IInv'
    OBVIOUS
  <2>1. CASE CatalogueStep
    BY <2>1, CatalogueStepKeeps, SaleKeeps DEF CartNext
  <2>2. CASE CartStep /\ UNCHANGED catalogueVars
    <3>1. LogInv' /\ SaleInv'
      BY <2>2, CatalogueStays, SaleKeeps DEF CartTypeOK, CartNext
    <3>2. CASE ClearCart
      BY <2>2, <3>1, <3>2, ClearCartStep
    <3>3. ASSUME NEW d \in Devices, AddItem(d) PROVE CartTypeOK' /\ CartInv'
      <4>1. CASE CheckProduct(d) \/ CheckVariant(d)
        BY <2>2, <4>1, CheckStep DEF CheckProduct, CheckVariant, Is, Conditions
      <4>2. CASE CheckBranch(d) \/ CheckVariantBranch(d) \/ CheckAddons(d)
        BY <2>2, <4>2, CheckStep DEF CheckBranch, CheckVariantBranch, CheckAddons, Is, Conditions
      <4>3. QED
        BY <2>2, <3>3, <4>1, <4>2, AskItemStep, ReadCartStep, MakeCartStep, FindLineStep,
           RaiseStep, AddLineStep DEF AddItem
    <3>4. ASSUME NEW d \in Devices, ChangeItem(d) PROVE CartTypeOK' /\ CartInv'
      BY <2>2, <3>4, ChangeItemStep
    <3>5. ASSUME NEW d \in Devices, GiveUp(d) PROVE CartTypeOK' /\ CartInv'
      BY <2>2, <3>5, EndStep DEF GiveUp
    <3>6. QED
      BY <2>2, <3>1, <3>2, <3>3, <3>4, <3>5 DEF CartStep
  <2>3. CASE UNCHANGED vars
    <3>1. UNCHANGED catalogueVars /\ UNCHANGED cartVars
      BY <2>3 DEF vars
    <3>2. TypeOK' /\ LogInv'
      BY <3>1, CatalogueStays DEF CartTypeOK
    <3>3. UNCHANGED <<row, rows, sale, unsold, call>>
      BY <3>1 DEF catalogueVars, assignmentVars, cartVars
    <3>4. CartTypeOK' /\ CartInv'
      BY <3>1, <3>2
         DEF cartVars, CartTypeOK, CartInv, Fits, Alone, HasCart, Waits, QuantityAsAsked,
             LinesOfOneBranch, Live, There
    <3>5. SaleInv'
      <4>1. ASSUME NEW e \in Devices PROVE Tracks(e)'
        <5>1. Kept(e)
          BY <3>3 DEF Kept, Waits
        <5>2. QED
          BY <3>3, <5>1, CallFields, TracksStays DEF SaleInv
      <4>2. QED
        BY <3>3, <4>1 DEF SaleInv, AddedWhileSold
    <3>6. QED
      BY <3>2, <3>4, <3>5
  <2>4. QED
    BY <2>1, <2>2, <2>3 DEF CartNext
<1>3. QED
  BY <1>1, <1>2, PTL DEF CartSpec

\* Every variable of the cart and the catalogue keeps its range.
THEOREM CartTypes == CartSpec => []CartTypeOK
BY CartInductive, PTL

\* A quantity is what was asked for, unless requests changed the cart at once.
THEOREM QuantitiesAsAsked == CartSpec => []QuantityAsAsked
<1>1. CartInv => QuantityAsAsked
  BY DEF CartInv
<1>2. QED
  BY <1>1, CartInductive, PTL

\* Every line is in the cart there is and was asked for at its branch.
THEOREM CartHasOneBranch == CartSpec => []LinesOfOneBranch
<1>1. CartInv => LinesOfOneBranch
  BY DEF CartInv
<1>2. QED
  BY <1>1, CartInductive, PTL

\* What is put in the cart was for sale as a whole at some moment of the request
\* that added it, unless during it conditions were both lost and gained.
THEOREM OnlySoldIsAdded == CartSpec => []AddedWhileSold
<1>1. SaleInv => AddedWhileSold
  BY DEF SaleInv
<1>2. QED
  BY <1>1, CartInductive, PTL

-----------------------------------------------------------------------------
(* One-time codes and addresses.                                             *)

\* What an attempt at a code has read; if it is alone, what still holds.
CodeFits(s) ==
    /\ request[s].step \in {"stored", "cooling"} => request[s].code \in Codes
    /\ request[s].step \in {"wrong", "right", "spent"} =>
          /\ request[s].seen.code \in 1 .. codes
          /\ IF request[s].step = "spent" THEN request[s].seen.attempts >= MaxAttempts
                                          ELSE request[s].seen.attempts < MaxAttempts
          /\ request[s].alone =>
                /\ request[s].seen.code = codes \/ codes \in crossed
                /\ request[s].seen.code \notin crossed =>
                      /\ tries[request[s].seen.code] = request[s].seen.attempts
                      /\ uses[request[s].seen.code] = 0

\* The record of a code counts its wrong attempts, and is there until the code
\* is used.
OtpInv ==
    otp # NoOtp =>
        /\ otp.code \in 1 .. codes
        /\ otp.code = codes \/ codes \in crossed
        /\ otp.code \notin crossed => tries[otp.code] = otp.attempts /\ uses[otp.code] = 0

CodeInv ==
    /\ OtpInv
    /\ \A c \in Codes : c > codes => tries[c] = 0 /\ uses[c] = 0
    /\ \A s \in Slots : CodeFits(s)
    /\ CodesAreSpent
    /\ NewestCodeWorks

\* What a request knows of the addresses; if it is alone, what still holds.
AddressFits(s) ==
    /\ request[s].on <= added
    /\ \A b \in request[s].rows : b <= added
    /\ request[s].step = "counted" => request[s].rows = {}
    /\ request[s].alone =>
          /\ request[s].step = "counted" /\ ~request[s].default => Saved # {}
          /\ request[s].step \in {"opened", "cleared"} => request[s].rows = Defaults
          /\ request[s].step = "delete" => (request[s].default <=> request[s].on \in Defaults)
          /\ request[s].step \in {"deleted", "found"} => request[s].on \in Defaults
          /\ request[s].step = "found" =>
                IF request[s].next = 0 THEN Saved = {request[s].on}
                                       ELSE request[s].next \in Saved \ {request[s].on}

TheDefault == IF Saved = {} THEN Defaults = {} ELSE \E a \in Addresses : Defaults = {a}

AddressInv ==
    /\ \A b \in Addresses : b > added => addresses[b] = "none"
    /\ \A s \in Slots : AddressFits(s)
    /\ mixed \/ TheDefault

\* s goes on as c; the others stay what they are, but those in steps are no
\* longer alone.
Follows(s, c, steps) ==
    /\ request' \in [Slots -> Requests]
    /\ requests' \in 0 .. MaxRequests
    /\ request'[s] = c
    /\ \A r \in Slots \ {s} :
          /\ request'[r].step = request[r].step /\ request'[r].code = request[r].code
          /\ request'[r].seen = request[r].seen /\ request'[r].on = request[r].on
          /\ request'[r].default = request[r].default /\ request'[r].rows = request[r].rows
          /\ request'[r].next = request[r].next
          /\ request'[r].alone => request[r].alone /\ request[r].step \notin steps

LEMMA AskFollows ==
    ASSUME AccountTypeOK, NEW s \in Slots, NEW c \in Requests, Ask(s, c) \/ Go(s, c)
    PROVE  Follows(s, c, {})
<1>1. requests' \in 0 .. MaxRequests
  BY AccountsAssumption DEF Ask, Go, AccountTypeOK
<1>2. request' = [request EXCEPT ![s] = c]
  BY DEF Ask, Go
<1>3. QED
  BY <1>1, <1>2 DEF AccountTypeOK, Follows

LEMMA OvertakeFollows ==
    ASSUME AccountTypeOK, NEW s \in Slots, NEW c \in Requests, NEW steps, Overtake(s, c, steps)
    PROVE  Follows(s, c, steps)
<1>1. /\ request'[s] = c /\ requests' = requests
      /\ request' = [r \in Slots |-> request'[r]]
      /\ \A r \in Slots \ {s} :
            \/ request[r].step \in steps /\ request'[r] = [request[r] EXCEPT !.alone = FALSE]
            \/ request[r].step \notin steps /\ request'[r] = request[r]
  BY DEF Overtake
<1>2. ASSUME NEW r \in Slots \ {s}
      PROVE  /\ request'[r] \in Requests
             /\ request'[r].step = request[r].step /\ request'[r].code = request[r].code
             /\ request'[r].seen = request[r].seen /\ request'[r].on = request[r].on
             /\ request'[r].default = request[r].default /\ request'[r].rows = request[r].rows
             /\ request'[r].next = request[r].next
             /\ request'[r].alone => request[r].alone /\ request[r].step \notin steps
  <2>1. request[r] \in Requests
    BY DEF AccountTypeOK
  <2>2. CASE request[r].step \in steps /\ request'[r] = [request[r] EXCEPT !.alone = FALSE]
    BY <2>1, <2>2 DEF Requests
  <2>3. CASE request[r].step \notin steps /\ request'[r] = request[r]
    BY <2>1, <2>3
  <2>4. QED
    BY <1>1, <2>2, <2>3
<1>3. request' \in [Slots -> Requests]
  BY <1>1, <1>2
<1>4. QED
  BY <1>1, <1>2, <1>3 DEF Follows, AccountTypeOK

\* The codes stay as they are.
LEMMA CodesQuiet ==
    ASSUME CodeInv, UNCHANGED codeVars, NEW s \in Slots, NEW c, NEW steps, Follows(s, c, steps),
           CodeFits(s)'
    PROVE  CodeInv'
<1>1. ASSUME NEW r \in Slots, r # s PROVE CodeFits(r)'
  BY <1>1 DEF CodeInv, CodeFits, Follows, codeVars
<1>2. QED
  BY <1>1 DEF CodeInv, codeVars, OtpInv, CodesAreSpent, NewestCodeWorks

\* The addresses stay as they are.
LEMMA AddressesQuiet ==
    ASSUME AddressInv, UNCHANGED addressVars, NEW s \in Slots, NEW c, NEW steps, Follows(s, c, steps),
           AddressFits(s)'
    PROVE  AddressInv'
<1>1. ASSUME NEW r \in Slots, r # s PROVE AddressFits(r)'
  BY <1>1 DEF AddressInv, AddressFits, Follows, addressVars, Saved, Defaults
<1>2. QED
  BY <1>1 DEF AddressInv, addressVars, TheDefault, Saved, Defaults

LEMMA AccountInits == AccountInit => AccountTypeOK /\ CodeInv /\ AddressInv
<1> SUFFICES ASSUME AccountInit PROVE AccountTypeOK /\ CodeInv /\ AddressInv
  OBVIOUS
<1>1. NoOtp \in Records /\ NoRequest \in Requests
  BY AccountsAssumption DEF NoOtp, Records, NoRequest, Requests
<1>2. AccountTypeOK
  <2>1. cooldown \in BOOLEAN /\ registered \in BOOLEAN /\ mixed \in BOOLEAN
    BY Zenon DEF AccountInit
  <2>2. otp \in Records /\ request \in [Slots -> Requests]
    BY <1>1 DEF AccountInit
  <2>3. codes \in 0 .. MaxCodes /\ added \in 0 .. MaxAddresses /\ requests \in 0 .. MaxRequests
    BY AccountsAssumption DEF AccountInit
  <2>4. /\ texts \in SUBSET Codes /\ expired \in SUBSET Codes /\ crossed \in SUBSET Codes
        /\ addresses \in [Addresses -> {"none", "plain", "default"}]
        /\ tries \in [Codes -> Nat] /\ uses \in [Codes -> Nat]
    BY DEF AccountInit
  <2>5. QED
    BY <2>1, <2>2, <2>3, <2>4 DEF AccountTypeOK
<1>3. \A s \in Slots : request[s] = NoRequest
  BY DEF AccountInit
<1>4. \A s \in Slots : CodeFits(s) /\ AddressFits(s)
  BY <1>3 DEF CodeFits, AddressFits, NoRequest, AccountInit
<1>5. Saved = {} /\ Defaults = {}
  BY DEF AccountInit, Saved, Defaults
<1>6. CodeInv
  BY <1>4, AccountsAssumption DEF AccountInit, CodeInv, OtpInv, CodesAreSpent, NewestCodeWorks
<1>7. QED
  BY <1>2, <1>4, <1>5, <1>6 DEF AccountInit, AddressInv, TheDefault

LEMMA RequestFields ==
    ASSUME AccountTypeOK, NEW s \in Slots
    PROVE  /\ request[s] \in Requests
           /\ request[s].code \in 0 .. MaxCodes /\ request[s].seen \in Records
           /\ request[s].seen.code \in 0 .. MaxCodes /\ request[s].seen.attempts \in 0 .. MaxAttempts
           /\ request[s].on \in 0 .. MaxAddresses /\ request[s].default \in BOOLEAN
           /\ request[s].rows \in SUBSET Addresses /\ request[s].next \in 0 .. MaxAddresses
           /\ request[s].alone \in BOOLEAN
<1>1. request[s] \in Requests
  BY DEF AccountTypeOK
<1>2. QED
  BY <1>1 DEF Requests, Records

LEMMA NoRequestFits ==
    /\ NoRequest \in Requests
    /\ NoRequest.step = "idle" /\ NoRequest.on = 0 /\ NoRequest.rows = {}
BY AccountsAssumption DEF NoOtp, Records, NoRequest, Requests

AccountInv == AccountTypeOK /\ CodeInv /\ AddressInv

Untried == {"idle", "cooled", "verified"} \cup AddressSteps

\* A request that knows nothing of the addresses fits whatever they are.
LEMMA FitsAddresses ==
    ASSUME AccountInv, NEW s \in Slots, UNCHANGED added,
           request'[s].step \notin AddressSteps,
           request'[s].on \in {0, request[s].on}, request'[s].rows \in {{}, request[s].rows}
    PROVE  AddressFits(s)'
BY DEF AccountInv, AccountTypeOK, AddressInv, AddressFits, AddressSteps

LEMMA FitsCodes ==
    ASSUME NEW s \in Slots, request'[s].step \in Untried
    PROVE  CodeFits(s)'
BY DEF CodeFits, Untried, AddressSteps

\* A request that has yet to ask, or asks for nothing more.
LEMMA RestStep ==
    ASSUME AccountInv, NEW s \in Slots, Abort(s) \/ LogIn(s) \/ AskForCode(s)
    PROVE  AccountInv'
<1> DEFINE c == IF AskForCode(s) THEN [NoRequest EXCEPT !.step = "cooled"] ELSE NoRequest
<1>1. /\ c \in Requests /\ c.step \in {"idle", "cooled"} /\ c.on = 0 /\ c.rows = {}
  <2>1. [NoRequest EXCEPT !.step = "cooled"] \in Requests
    BY NoRequestFits DEF Requests, CodeSteps
  <2>2. QED
    BY <2>1, NoRequestFits DEF NoRequest
<1>2. Ask(s, c) \/ Go(s, c)
  BY DEF Abort, LogIn, AskForCode
<1>3. Follows(s, c, {})
  BY <1>1, <1>2, AskFollows DEF AccountInv
<1>4. /\ UNCHANGED <<otp, cooldown, codes, texts, tries, uses, expired, crossed, addressVars>>
      /\ registered' \in BOOLEAN
  BY DEF Abort, LogIn, AskForCode, codeVars, AccountInv, AccountTypeOK
<1>5. AccountTypeOK'
  BY <1>3, <1>4 DEF AccountInv, AccountTypeOK, Follows, addressVars
<1>6. CodeFits(s)' /\ AddressFits(s)'
  BY <1>1, <1>3, <1>4, FitsCodes, FitsAddresses DEF Follows, Untried, AddressSteps, addressVars
<1>7. CodeInv'
  <2>1. \A r \in Slots : r # s => CodeFits(r)'
    BY <1>3, <1>4 DEF AccountInv, CodeInv, CodeFits, Follows
  <2>2. QED
    BY <1>4, <1>6, <2>1 DEF AccountInv, CodeInv, OtpInv, CodesAreSpent, NewestCodeWorks
<1>8. AddressInv'
  BY <1>3, <1>4, <1>6, AddressesQuiet DEF AccountInv
<1>9. QED
  BY <1>5, <1>7, <1>8 DEF AccountInv

LEMMA StoreCodeStep ==
    ASSUME AccountInv, NEW s \in Slots, StoreCode(s)
    PROVE  AccountInv'
<1> DEFINE c == [request[s] EXCEPT !.step = "stored", !.code = codes + 1]
<1>1. /\ codes < MaxCodes /\ codes' = codes + 1 /\ otp' = [code |-> codes + 1, attempts |-> 0]
      /\ Overtake(s, c, CodeSteps)
      /\ UNCHANGED <<cooldown, texts, registered, tries, uses, expired, crossed, addressVars>>
  BY DEF StoreCode
<1>2. codes \in Nat /\ codes + 1 \in 1 .. MaxCodes /\ request[s] \in Requests
  BY <1>1, AccountsAssumption DEF AccountInv, AccountTypeOK
<1>3. c \in Requests /\ c.step = "stored" /\ c.code = codes + 1
      /\ c.on = request[s].on /\ c.rows = request[s].rows
  <2>1. \A n \in 0 .. MaxCodes :
           LET d == [request[s] EXCEPT !.step = "stored", !.code = n] IN
           /\ d \in Requests /\ d.step = "stored" /\ d.code = n
           /\ d.on = request[s].on /\ d.rows = request[s].rows
    BY <1>2 DEF Requests, CodeSteps
  <2>2. codes + 1 \in 0 .. MaxCodes
    BY <1>2, AccountsAssumption
  <2>3. QED
    BY <2>1, <2>2
<1>4. Follows(s, c, CodeSteps)
  BY <1>1, <1>3, OvertakeFollows DEF AccountInv
<1>5. AccountTypeOK'
  <2>1. otp' \in Records /\ codes' \in 0 .. MaxCodes
    BY <1>1, <1>2, AccountsAssumption DEF Records
  <2>2. QED
    BY <1>1, <1>4, <2>1 DEF AccountInv, AccountTypeOK, Follows, addressVars
<1>6. AddressInv'
  <2>1. AddressFits(s)'
    BY <1>1, <1>3, <1>4, FitsAddresses DEF Follows, AddressSteps, addressVars
  <2>2. QED
    BY <1>1, <1>4, <2>1, AddressesQuiet DEF AccountInv
<1>7. CodeInv'
  <2>1. CodeFits(s)'
    BY <1>2, <1>3, <1>4 DEF CodeFits, Codes, Follows
  <2>2. ASSUME NEW r \in Slots, r # s PROVE CodeFits(r)'
    <3>1. CodeFits(r)
      BY DEF AccountInv, CodeInv
    <3>2. /\ request'[r].step = request[r].step /\ request'[r].code = request[r].code
          /\ request'[r].seen = request[r].seen
          /\ request[r].step \in CodeSteps => ~request'[r].alone
      BY <1>4, <2>2 DEF Follows
    <3>3. QED
      BY <1>1, <1>2, <3>1, <3>2 DEF CodeFits, CodeSteps
  <2>3. \A x \in Codes : x > codes' => tries'[x] = 0 /\ uses'[x] = 0
    BY <1>1, <1>2 DEF AccountInv, CodeInv, Codes
  <2>4. OtpInv'
    BY <1>1, <1>2 DEF AccountInv, CodeInv, OtpInv, Codes
  <2>5. CodesAreSpent' /\ NewestCodeWorks'
    BY <1>1 DEF AccountInv, CodeInv, CodesAreSpent, NewestCodeWorks
  <2>6. QED
    BY <2>1, <2>2, <2>3, <2>4, <2>5 DEF CodeInv
<1>8. QED
  BY <1>5, <1>6, <1>7 DEF AccountInv

LEMMA SendStep ==
    ASSUME AccountInv, NEW s \in Slots, StartCooldown(s) \/ SendCode(s)
    PROVE  AccountInv'
<1>1. /\ UNCHANGED <<otp, codes, registered, tries, uses, expired, crossed, addressVars>>
      /\ cooldown' \in BOOLEAN /\ request[s].step \in {"stored", "cooling"}
      /\ texts' = texts \/ texts' = texts \cup {request[s].code}
  BY DEF StartCooldown, SendCode, Step, AccountInv, AccountTypeOK
<1>2. request[s].code \in Codes
  BY <1>1 DEF AccountInv, CodeInv, CodeFits
<1>3. PICK c \in Requests :
         /\ Go(s, c)
         /\ \/ c.step = "idle" /\ c.on = 0 /\ c.rows = {}
            \/ /\ c.step = "cooling" /\ c.code = request[s].code
               /\ c.on = request[s].on /\ c.rows = request[s].rows
  <2>1. CASE StartCooldown(s)
    <3>1. request[s] \in Requests
      BY DEF AccountInv, AccountTypeOK
    <3>2. [request[s] EXCEPT !.step = "cooling"] \in Requests
      BY <3>1 DEF Requests, CodeSteps
    <3>3. QED
      BY <2>1, <3>1, <3>2 DEF StartCooldown, Requests
  <2>2. CASE SendCode(s)
    BY <2>2, NoRequestFits DEF SendCode
  <2>3. QED
    BY <2>1, <2>2
<1>4. Follows(s, c, {})
  BY <1>3, AskFollows DEF AccountInv
<1>5. AccountTypeOK'
  BY <1>1, <1>2, <1>4 DEF AccountInv, AccountTypeOK, Follows, addressVars
<1>6. AddressInv'
  <2>1. AddressFits(s)'
    BY <1>1, <1>3, <1>4, FitsAddresses DEF Follows, AddressSteps, addressVars
  <2>2. QED
    BY <1>1, <1>4, <2>1, AddressesQuiet DEF AccountInv
<1>7. CodeInv'
  <2>1. CodeFits(s)'
    BY <1>2, <1>3, <1>4 DEF CodeFits, Follows
  <2>2. \A r \in Slots : r # s => CodeFits(r)'
    BY <1>1, <1>4 DEF AccountInv, CodeInv, CodeFits, Follows
  <2>3. QED
    BY <1>1, <2>1, <2>2 DEF AccountInv, CodeInv, OtpInv, CodesAreSpent, NewestCodeWorks
<1>8. QED
  BY <1>5, <1>6, <1>7 DEF AccountInv

\* Time passes.
LEMMA TimeStep ==
    ASSUME AccountInv, CooldownEnds \/ OtpExpires
    PROVE  AccountInv'
<1>1. UNCHANGED <<codes, texts, registered, tries, uses, crossed, addressVars, request, requests>>
  BY DEF CooldownEnds, OtpExpires
<1>2. CASE CooldownEnds
  <2>1. cooldown' = FALSE /\ otp' = otp /\ expired' = expired
    BY <1>2 DEF CooldownEnds
  <2>2. QED
    BY <1>1, <2>1 DEF AccountInv, AccountTypeOK, CodeInv, OtpInv, CodeFits, CodesAreSpent,
                      NewestCodeWorks, AddressInv, AddressFits, TheDefault, Saved, Defaults, addressVars
<1>3. CASE OtpExpires
  <2>1. otp # NoOtp /\ otp' = NoOtp /\ cooldown' = cooldown /\ expired' = expired \cup {otp.code}
    BY <1>3 DEF OtpExpires
  <2>2. otp.code \in Codes
    <3>1. otp.code \in 1 .. codes /\ codes \in 0 .. MaxCodes
      BY <2>1 DEF AccountInv, AccountTypeOK, CodeInv, OtpInv
    <3>2. QED
      BY <3>1, AccountsAssumption DEF Codes
  <2>3. AccountTypeOK'
    BY <1>1, <2>1, <2>2, NoRequestFits, AccountsAssumption
       DEF AccountInv, AccountTypeOK, addressVars, NoOtp, Records
  <2>4. AddressInv'
    BY <1>1 DEF AccountInv, AddressInv, AddressFits, TheDefault, Saved, Defaults, addressVars
  <2>5. NewestCodeWorks'
    BY <1>1, <2>1 DEF AccountInv, CodeInv, NewestCodeWorks
  <2>6. QED
    BY <1>1, <2>1, <2>3, <2>4, <2>5 DEF AccountInv, CodeInv, OtpInv, CodeFits, CodesAreSpent
<1>4. QED
  BY <1>2, <1>3

\* An attempt reads the record there is, which counts the attempts at its code.
LEMMA TryCodeStep ==
    ASSUME AccountInv, NEW s \in Slots, TryCode(s)
    PROVE  AccountInv'
<1>1. PICK n \in 0 .. MaxCodes, step \in {"spent", "right", "wrong"} :
         /\ Ask(s, [NoRequest EXCEPT !.seen = otp, !.code = n, !.step = step])
         /\ IF step = "spent" THEN otp.attempts >= MaxAttempts ELSE ~(otp.attempts >= MaxAttempts)
  <2>1. texts \cup {0} \subseteq 0 .. MaxCodes
    BY AccountsAssumption DEF AccountInv, AccountTypeOK, Codes
  <2>2. PICK n \in 0 .. MaxCodes :
           Ask(s, [NoRequest EXCEPT !.seen = otp, !.code = n,
                                    !.step = IF otp.attempts >= MaxAttempts THEN "spent"
                                             ELSE IF otp.code = n THEN "right" ELSE "wrong"])
    BY <2>1 DEF TryCode
  <2>3. CASE otp.attempts >= MaxAttempts
    BY <2>2, <2>3
  <2>4. CASE ~(otp.attempts >= MaxAttempts) /\ otp.code = n
    BY <2>2, <2>4
  <2>5. CASE ~(otp.attempts >= MaxAttempts) /\ otp.code # n
    BY <2>2, <2>5
  <2>6. QED
    BY <2>3, <2>4, <2>5
<1> DEFINE c == [NoRequest EXCEPT !.seen = otp, !.code = n, !.step = step]
<1>2. otp \in Records /\ otp # NoOtp /\ UNCHANGED <<codeVars, addressVars>>
  BY DEF TryCode, AccountInv, AccountTypeOK
<1>3. c \in Requests /\ c.step = step /\ c.seen = otp /\ c.on = 0 /\ c.rows = {}
  BY <1>2, NoRequestFits DEF Requests, CodeSteps, NoRequest
<1>4. Follows(s, c, {})
  BY <1>1, <1>3, AskFollows DEF AccountInv
<1>5. AccountTypeOK'
  BY <1>2, <1>4 DEF AccountInv, AccountTypeOK, Follows, codeVars, addressVars
<1>6. CodeInv'
  <2>1. /\ request'[s].step \in {"spent", "right", "wrong"} /\ request'[s].seen = otp
        /\ request'[s].step = "spent" <=> otp.attempts >= MaxAttempts
    BY <1>1, <1>3, <1>4 DEF Follows
  <2>2. otp.attempts \in Int /\ MaxAttempts \in Int
    BY <1>2, AccountsAssumption DEF Records
  <2>3. OtpInv /\ UNCHANGED <<codes, crossed, tries, uses>>
    BY <1>2 DEF AccountInv, CodeInv, codeVars
  <2>4. CodeFits(s)'
    BY <1>2, <2>1, <2>2, <2>3 DEF CodeFits, OtpInv
  <2>5. QED
    BY <1>2, <1>4, <2>4, CodesQuiet DEF AccountInv
<1>7. AddressInv'
  <2>1. AddressFits(s)'
    BY <1>2, <1>3, <1>4, FitsAddresses DEF Follows, AddressSteps, addressVars
  <2>2. QED
    BY <1>2, <1>4, <2>1, AddressesQuiet DEF AccountInv
<1>8. QED
  BY <1>5, <1>6, <1>7 DEF AccountInv

\* An attempt writes what it decided.  Of a code that no write has crossed it
\* still knows the truth, and the code is the newest.
LEMMA DecidedStep ==
    ASSUME AccountInv, NEW s \in Slots, request[s].step \in {"wrong", "right", "spent"},
           NEW c \in Requests, Overtake(s, c, CodeSteps), Cross(s),
           c.step \in {"idle", "verified"}, c.on \in {0, request[s].on}, c.rows \in {{}, request[s].rows},
           UNCHANGED <<cooldown, codes, texts, registered, expired, addressVars>>,
           \/ /\ request[s].step = "wrong"
              /\ otp' = [code |-> request[s].seen.code, attempts |-> request[s].seen.attempts + 1]
              /\ tries' = [tries EXCEPT ![request[s].seen.code] = @ + 1] /\ uses' = uses
           \/ request[s].step = "spent" /\ otp' = NoOtp /\ tries' = tries /\ uses' = uses
           \/ /\ request[s].step = "right" /\ otp' = NoOtp /\ tries' = tries
              /\ uses' = [uses EXCEPT ![request[s].seen.code] = @ + 1]
    PROVE  AccountInv'
<1> DEFINE q == request[s]
           x == request[s].seen.code
<1>1. Follows(s, c, CodeSteps)
  BY OvertakeFollows DEF AccountInv
<1>2. /\ x \in 1 .. codes /\ x \in Codes /\ codes \in Codes /\ x \in Nat
      /\ q.seen.attempts \in 0 .. MaxAttempts /\ q.seen.code \in 0 .. MaxCodes
      /\ IF q.step = "spent" THEN q.seen.attempts >= MaxAttempts ELSE q.seen.attempts < MaxAttempts
      /\ q.alone => /\ x = codes \/ codes \in crossed
                    /\ x \notin crossed => tries[x] = q.seen.attempts /\ uses[x] = 0
  <2>1. CodeFits(s) /\ codes \in 0 .. MaxCodes
    BY DEF AccountInv, AccountTypeOK, CodeInv
  <2>2. x \in 1 .. codes
    BY <2>1 DEF CodeFits
  <2>3. x \in Codes /\ codes \in Codes /\ x \in Nat
    BY <2>1, <2>2, AccountsAssumption DEF Codes
  <2>4. QED
    BY <2>1, <2>2, <2>3, RequestFields DEF CodeFits, AccountInv
<1>3. crossed' = IF q.alone THEN crossed ELSE crossed \cup {x, codes}
  BY DEF Cross
<1>4. /\ tries \in [Codes -> Nat] /\ uses \in [Codes -> Nat] /\ crossed \in SUBSET Codes
      /\ MaxAttempts \in Nat \ {0}
  BY AccountsAssumption DEF AccountInv, AccountTypeOK
<1>5. \A y \in Codes : y # x => tries'[y] = tries[y] /\ uses'[y] = uses[y]
  BY <1>2, <1>4
<1>6. \/ /\ q.step = "wrong" /\ tries'[x] = tries[x] + 1 /\ uses'[x] = uses[x]
         /\ otp'.code = x /\ otp'.attempts = q.seen.attempts + 1 /\ otp' \in Records
      \/ /\ q.step = "spent" /\ tries'[x] = tries[x] /\ uses'[x] = uses[x] /\ otp' = NoOtp
      \/ /\ q.step = "right" /\ tries'[x] = tries[x] /\ uses'[x] = uses[x] + 1 /\ otp' = NoOtp
  <2>1. q.step = "wrong" => q.seen.attempts + 1 \in 0 .. MaxAttempts
    BY <1>2, <1>4
  <2>2. QED
    BY <1>2, <1>4, <2>1 DEF Records
<1>7. AccountTypeOK'
  <2>1. NoOtp \in Records
    BY AccountsAssumption DEF NoOtp, Records
  <2>2. otp' \in Records
    BY <1>6, <2>1
  <2>3. tries' \in [Codes -> Nat] /\ uses' \in [Codes -> Nat]
    BY <1>2, <1>4
  <2>4. crossed' \in SUBSET Codes
    BY <1>2, <1>3, <1>4
  <2>5. QED
    BY <1>1, <2>2, <2>3, <2>4 DEF AccountInv, AccountTypeOK, Follows, addressVars
<1>8. AddressInv'
  <2>1. AddressFits(s)'
    BY <1>1, FitsAddresses DEF Follows, AddressSteps, addressVars
  <2>2. QED
    BY <1>1, <2>1, AddressesQuiet DEF AccountInv
<1>9. CodeInv'
  <2>1. CodeFits(s)'
    BY <1>1, FitsCodes DEF Follows, Untried
  <2>2. ASSUME NEW r \in Slots, r # s PROVE CodeFits(r)'
    <3>1. CodeFits(r)
      BY DEF AccountInv, CodeInv
    <3>2. /\ request'[r].step = request[r].step /\ request'[r].code = request[r].code
          /\ request'[r].seen = request[r].seen
          /\ request[r].step \in CodeSteps => ~request'[r].alone
      BY <1>1, <2>2 DEF Follows
    <3>3. QED
      BY <3>1, <3>2 DEF CodeFits, CodeSteps
  <2>3. \A y \in Codes : y > codes => tries'[y] = 0 /\ uses'[y] = 0
    <3>1. codes \in Nat /\ \A y \in Codes : y > codes => y # x
      BY <1>2 DEF Codes
    <3>2. QED
      BY <1>5, <3>1 DEF AccountInv, CodeInv
  <2>4. OtpInv'
    <3>1. CASE otp' = NoOtp
      BY <3>1 DEF OtpInv
    <3>2. CASE q.step = "wrong"
      <4>1. x = codes \/ codes \in crossed'
        BY <1>2, <1>3
      <4>2. x \notin crossed' => tries'[x] = otp'.attempts /\ uses'[x] = 0
        BY <1>2, <1>3, <1>6, <3>2
      <4>3. QED
        BY <1>2, <1>6, <3>2, <4>1, <4>2 DEF OtpInv
    <3>3. QED
      BY <1>6, <3>1, <3>2
  <2>5. CodesAreSpent'
    <3> SUFFICES ASSUME NEW y \in Codes, y \notin crossed'
                 PROVE  uses'[y] <= 1 /\ tries'[y] <= MaxAttempts
      BY DEF CodesAreSpent
    <3>1. y \notin crossed
      BY <1>3
    <3>2. CASE y = x
      <4>1. tries[x] = q.seen.attempts /\ uses[x] = 0
        BY <1>2, <1>3, <3>1, <3>2
      <4>2. QED
        BY <1>2, <1>4, <1>6, <3>2, <4>1
    <3>3. CASE y # x
      BY <1>5, <3>1, <3>3 DEF AccountInv, CodeInv, CodesAreSpent
    <3>4. QED
      BY <3>2, <3>3
  <2>6. NewestCodeWorks'
    <3> SUFFICES ASSUME codes \notin crossed'
                 PROVE  \/ otp'.code = codes
                        \/ /\ otp' = NoOtp
                           /\ uses'[codes] > 0 \/ tries'[codes] >= MaxAttempts
      BY DEF NewestCodeWorks
    <3>1. x = codes /\ tries[x] = q.seen.attempts /\ uses[x] = 0
      BY <1>2, <1>3
    <3>2. QED
      BY <1>2, <1>6, <3>1
  <2>7. QED
    BY <2>1, <2>2, <2>3, <2>4, <2>5, <2>6 DEF CodeInv
<1>10. QED
  BY <1>7, <1>8, <1>9 DEF AccountInv

LEMMA AttemptStep ==
    ASSUME AccountInv, NEW s \in Slots, CountTry(s) \/ BurnCode(s) \/ UseCode(s)
    PROVE  AccountInv'
<1>1. request[s] \in Requests /\ request[s].seen \in Records
  BY RequestFields DEF AccountInv
<1>2. CASE CountTry(s)
  <2>1. [request[s].seen EXCEPT !.attempts = @ + 1]
           = [code |-> request[s].seen.code, attempts |-> request[s].seen.attempts + 1]
    BY <1>1 DEF Records
  <2>2. QED
    BY <1>2, <2>1, NoRequestFits, DecidedStep DEF CountTry, Step
<1>3. CASE BurnCode(s)
  BY <1>3, NoRequestFits, DecidedStep DEF BurnCode, Step
<1>4. CASE UseCode(s)
  <2> DEFINE c == [request[s] EXCEPT !.step = "verified"]
  <2>1. c \in Requests /\ c.step = "verified" /\ c.on = request[s].on /\ c.rows = request[s].rows
    BY <1>1 DEF Requests, CodeSteps
  <2>2. QED
    BY <1>4, <2>1, DecidedStep DEF UseCode, Step
<1>5. QED
  BY <1>2, <1>3, <1>4

\* The defaults and the saved addresses are addresses there have been.
LEMMA SavedAreAdded ==
    ASSUME AccountInv
    PROVE  /\ Defaults \subseteq Saved /\ Saved \subseteq Addresses
           /\ \A b \in Saved : b \in 1 .. added
           /\ added \in Nat /\ 0 \notin Addresses
<1>1. Defaults \subseteq Saved /\ Saved \subseteq Addresses
  BY DEF Defaults, Saved
<1>2. added \in Nat /\ 0 \notin Addresses /\ Addresses \subseteq Nat \ {0}
  BY AccountsAssumption DEF AccountInv, AccountTypeOK, Addresses
<1>3. \A b \in Saved : b <= added
  BY <1>2 DEF AccountInv, AddressInv, Saved
<1>4. QED
  BY <1>1, <1>2, <1>3

\* A request reads, and may wait.
LEMMA LookStep ==
    ASSUME AccountInv, NEW s \in Slots, NEW c \in Requests, Ask(s, c) \/ Go(s, c),
           c.step \in Untried, UNCHANGED <<codeVars, addressVars>>,
           request'[s] = c => AddressFits(s)'
    PROVE  AccountInv'
<1>1. Follows(s, c, {})
  BY AskFollows DEF AccountInv
<1>2. AccountTypeOK'
  BY <1>1 DEF AccountInv, AccountTypeOK, Follows, codeVars, addressVars
<1>3. CodeFits(s)' /\ AddressFits(s)'
  BY <1>1, FitsCodes DEF Follows
<1>4. CodeInv'
  BY <1>1, <1>3, CodesQuiet DEF AccountInv
<1>5. AddressInv'
  BY <1>1, <1>3, AddressesQuiet DEF AccountInv
<1>6. QED
  BY <1>2, <1>4, <1>5 DEF AccountInv

LEMMA AskToAddStep ==
    ASSUME AccountInv, NEW s \in Slots, AskToAdd(s)
    PROVE  AccountInv'
<1>1. PICK d \in BOOLEAN : Ask(s, [NoRequest EXCEPT !.step = "counted", !.default = Saved = {} \/ d])
  BY DEF AskToAdd
<1> DEFINE c == [NoRequest EXCEPT !.step = "counted", !.default = Saved = {} \/ d]
<1>2. \A e \in BOOLEAN :
         LET x == [NoRequest EXCEPT !.step = "counted", !.default = e] IN
         x \in Requests /\ x.step = "counted" /\ x.default = e /\ x.on = 0 /\ x.rows = {}
  BY NoRequestFits DEF Requests, AddressSteps, NoRequest
<1>3. c \in Requests /\ c.step = "counted" /\ c.on = 0 /\ c.rows = {}
  BY <1>2
<1>4. c.default <=> (Saved = {} \/ d)
  BY <1>2
<1>5. UNCHANGED <<codeVars, addressVars>>
  BY DEF AskToAdd
<1>6. request'[s] = c => AddressFits(s)'
  BY <1>3, <1>4, <1>5, SavedAreAdded DEF AddressFits, Saved, Defaults, addressVars
<1>7. QED
  BY <1>1, <1>3, <1>5, <1>6, LookStep DEF Untried, AddressSteps

LEMMA AskAboutStep ==
    ASSUME AccountInv, NEW s \in Slots, AskForDefault(s) \/ AskToDelete(s)
    PROVE  AccountInv'
<1>1. UNCHANGED <<codeVars, addressVars>>
  BY DEF AskForDefault, AskToDelete
<1>2. ASSUME NEW a \in Saved
      PROVE  LET c == [NoRequest EXCEPT !.step = "set", !.on = a, !.default = TRUE] IN
             c \in Requests /\ c.step = "set" /\ c.on = a /\ c.rows = {}
  <2>1. a \in 0 .. MaxAddresses
    BY SavedAreAdded DEF Addresses
  <2>2. QED
    BY <2>1, NoRequestFits DEF Requests, AddressSteps, NoRequest
<1>3. ASSUME NEW a \in Saved, NEW c \in Requests, c.step \in {"set", "delete"}, c.on = a, c.rows = {},
             c.step = "delete" => (c.default <=> a \in Defaults), Ask(s, c)
      PROVE  AccountInv'
  <2>1. a <= added
    BY SavedAreAdded
  <2>2. request'[s] = c => AddressFits(s)'
    BY <1>1, <1>3, <2>1 DEF AddressFits, Saved, Defaults, addressVars
  <2>3. QED
    BY <1>1, <1>3, <2>2, LookStep DEF Untried, AddressSteps
<1>4. CASE AskForDefault(s)
  BY <1>2, <1>3, <1>4 DEF AskForDefault
<1>5. CASE AskToDelete(s)
  <2>1. PICK a \in Saved : Ask(s, [NoRequest EXCEPT !.step = "delete", !.on = a,
                                                    !.default = a \in Defaults])
    BY <1>5 DEF AskToDelete
  <2>2. PICK d \in BOOLEAN : d <=> a \in Defaults
    OBVIOUS
  <2>3. d = (a \in Defaults)
    BY <2>2
  <2>4. Ask(s, [NoRequest EXCEPT !.step = "delete", !.on = a, !.default = d])
    BY <2>1, <2>3
  <2> DEFINE c == [NoRequest EXCEPT !.step = "delete", !.on = a, !.default = d]
  <2>5. c \in Requests /\ c.step = "delete" /\ c.default = d /\ c.on = a /\ c.rows = {}
    <3>1. a \in 0 .. MaxAddresses
      BY SavedAreAdded DEF Addresses
    <3>2. QED
      BY <3>1, NoRequestFits DEF Requests, AddressSteps, NoRequest
  <2>6. c.default <=> a \in Defaults
    BY <2>2, <2>5
  <2>7. Ask(s, c)
    BY <2>4
  <2> HIDE DEF c
  <2>8. QED
    BY <1>3, <2>5, <2>6, <2>7
<1>6. QED
  BY <1>4, <1>5

LEMMA ClearStep ==
    ASSUME AccountInv, NEW s \in Slots, OpenClear(s) \/ Clear(s)
    PROVE  AccountInv'
<1>1. PICK step \in {"opened", "cleared"}, mine \in {Defaults, request[s].rows \cap Defaults} :
         /\ Go(s, [request[s] EXCEPT !.step = step, !.rows = mine])
         /\ step = "opened" => mine = Defaults
         /\ step = "cleared" => request[s].step = "opened" /\ mine = request[s].rows \cap Defaults
  <2>1. CASE OpenClear(s)
    BY <2>1 DEF OpenClear
  <2>2. CASE Clear(s)
    BY <2>2 DEF Clear, Step
  <2>3. QED
    BY <2>1, <2>2
<1> DEFINE c == [request[s] EXCEPT !.step = step, !.rows = mine]
<1>2. mine \subseteq Defaults /\ mine \in SUBSET Addresses
  BY SavedAreAdded
<1>3. /\ c \in Requests /\ c.step = step /\ c.on = request[s].on
      /\ c.rows = mine /\ c.alone = request[s].alone
  BY <1>2, RequestFields DEF AccountInv, Requests, AddressSteps
<1>4. UNCHANGED <<codeVars, addressVars>>
  BY DEF OpenClear, Clear
<1>5. AddressFits(s)
  BY DEF AccountInv, AddressInv
<1>6. \A b \in mine : b <= added
  BY <1>2, SavedAreAdded
<1>7. request'[s] = c => AddressFits(s)'
  BY <1>1, <1>3, <1>4, <1>5, <1>6 DEF AddressFits, Saved, Defaults, addressVars
<1>8. QED
  BY <1>1, <1>3, <1>4, <1>7, LookStep DEF Untried, AddressSteps

LEMMA FindNextStep ==
    ASSUME AccountInv, NEW s \in Slots, FindNext(s)
    PROVE  AccountInv'
<1>1. PICK n \in (Saved \ {request[s].on}) \cup {0} :
         /\ n = 0 => Saved \ {request[s].on} = {}
         /\ Go(s, [request[s] EXCEPT !.step = "found", !.next = n])
  BY DEF FindNext
<1> DEFINE c == [request[s] EXCEPT !.step = "found", !.next = n]
<1>2. n \in 0 .. MaxAddresses /\ (n # 0 => n \in Saved \ {request[s].on})
  BY SavedAreAdded, AccountsAssumption DEF Addresses
<1>3. c \in Requests /\ c.step = "found" /\ c.next = n /\ c.on = request[s].on
      /\ c.rows = request[s].rows /\ c.alone = request[s].alone
  BY <1>2, RequestFields DEF AccountInv, Requests, AddressSteps
<1>4. UNCHANGED <<codeVars, addressVars>> /\ request[s].step = "deleted"
  BY DEF FindNext, Step
<1>5. AddressFits(s)
  BY DEF AccountInv, AddressInv
<1>6. request[s].alone => request[s].on \in Saved /\ request[s].on \in Defaults
  BY <1>4, <1>5, SavedAreAdded DEF AddressFits
<1>7. request'[s] = c => AddressFits(s)'
  BY <1>1, <1>2, <1>3, <1>4, <1>5, <1>6 DEF AddressFits, Saved, Defaults, addressVars
<1>8. QED
  BY <1>1, <1>3, <1>4, <1>7, LookStep DEF Untried, AddressSteps

\* A transaction commits: the others know nothing for certain any more.
LEMMA CommitStep ==
    ASSUME AccountInv, NEW s \in Slots, NEW new \in [Addresses -> {"none", "plain", "default"}],
           NEW repairs \in BOOLEAN, Commit(s, new, repairs),
           added' \in 0 .. MaxAddresses, added' >= added,
           \A b \in Addresses : b > added' => new[b] = "none",
           request[s].alone /\ (repairs \/ TheDefault) => TheDefault'
    PROVE  AccountInv'
<1>1. Follows(s, NoRequest, AddressSteps)
  BY NoRequestFits, OvertakeFollows DEF AccountInv, Commit
<1>2. addresses' = new /\ UNCHANGED codeVars
      /\ mixed' = (~request[s].alone \/ (mixed /\ ~repairs))
  BY DEF Commit
<1>3. AccountTypeOK'
  <2>1. mixed' \in BOOLEAN
    BY <1>2
  <2>2. QED
    BY <1>1, <1>2, <2>1 DEF AccountInv, AccountTypeOK, Follows, codeVars
<1>4. CodeInv'
  <2>1. CodeFits(s)'
    BY <1>1, NoRequestFits, FitsCodes DEF Follows, Untried
  <2>2. QED
    BY <1>1, <1>2, <2>1, CodesQuiet DEF AccountInv
<1>5. ASSUME NEW r \in Slots PROVE AddressFits(r)'
  <2>1. added \in Nat /\ added' \in Nat
    BY AccountsAssumption DEF AccountInv, AccountTypeOK
  <2>2. CASE r = s
    BY <1>1, <2>1, <2>2, NoRequestFits DEF Follows, AddressFits
  <2>3. CASE r # s
    <3>1. /\ request'[r].step = request[r].step /\ request'[r].on = request[r].on
          /\ request'[r].rows = request[r].rows
          /\ request[r].step \in AddressSteps => ~request'[r].alone
      BY <1>1, <2>3 DEF Follows
    <3>2. AddressFits(r)
      BY DEF AccountInv, AddressInv
    <3>3. request'[r].on <= added' /\ \A b \in request'[r].rows : b <= added'
      <4>1. request[r].on \in Nat /\ \A b \in request[r].rows : b \in Nat
        BY RequestFields, AccountsAssumption DEF AccountInv, Addresses
      <4>2. QED
        BY <2>1, <3>1, <3>2, <4>1 DEF AddressFits
    <3>4. QED
      BY <3>1, <3>2, <3>3 DEF AddressFits, AddressSteps
  <2>4. QED
    BY <2>2, <2>3
<1>6. mixed' \/ TheDefault'
  BY <1>2 DEF AccountInv, AddressInv
<1>7. AddressInv'
  BY <1>2, <1>5, <1>6 DEF AddressInv
<1>8. QED
  BY <1>3, <1>4, <1>7 DEF AccountInv

\* A new address: as the default it replaces those that were cleared.
LEMMA AddAddressStep ==
    ASSUME AccountInv, NEW s \in Slots, AddAddress(s)
    PROVE  AccountInv'
<1> DEFINE a == added + 1
           new == [b \in Addresses |-> CASE b = a -> IF request[s].default THEN "default" ELSE "plain"
                                         [] b # a /\ b \in request[s].rows -> "plain"
                                         [] OTHER -> addresses[b]]
<1>1. /\ request[s].on = 0 /\ added < MaxAddresses /\ added' = a
      /\ request[s].step = IF request[s].default THEN "cleared" ELSE "counted"
      /\ Commit(s, new, request[s].default)
  BY DEF AddAddress
<1>2. /\ added \in Nat /\ a \in Addresses /\ a \in Nat /\ a > added /\ a \in 0 .. MaxAddresses
  BY <1>1, AccountsAssumption DEF AccountInv, AccountTypeOK, Addresses
<1>3. /\ AddressFits(s) /\ \A b \in Addresses : b > added => addresses[b] = "none"
      /\ mixed \/ TheDefault
  BY DEF AccountInv, AddressInv
<1>4. addresses \in [Addresses -> {"none", "plain", "default"}] /\ request[s].default \in BOOLEAN
  BY RequestFields DEF AccountInv, AccountTypeOK
<1>5. new[a] = IF request[s].default THEN "default" ELSE "plain"
  BY <1>2
<1>6. \A b \in Addresses : b # a => new[b] = IF b \in request[s].rows THEN "plain" ELSE addresses[b]
  OBVIOUS
<1>7. new \in [Addresses -> {"none", "plain", "default"}]
  BY <1>4
<1>8. addresses' = new
  BY <1>1 DEF Commit
<1> HIDE DEF new
<1>9. \A b \in Addresses : b > added' => new[b] = "none"
  <2> SUFFICES ASSUME NEW b \in Addresses, b > a PROVE new[b] = "none"
    BY <1>1
  <2>1. b \in Nat /\ b > added /\ b # a
    BY <1>2 DEF Addresses
  <2>2. b \notin request[s].rows
    BY <1>2, <1>3, <2>1 DEF AddressFits
  <2>3. QED
    BY <1>3, <1>6, <2>1, <2>2
<1>10. ASSUME request[s].alone, request[s].default \/ TheDefault PROVE TheDefault'
  <2>1. a \in Saved'
    BY <1>2, <1>5, <1>8 DEF Saved
  <2>2. CASE request[s].default
    <3>1. request[s].rows = Defaults
      BY <1>1, <1>3, <1>10, <2>2 DEF AddressFits
    <3>2. Defaults' = {a}
      BY <1>2, <1>5, <1>6, <1>8, <2>2, <3>1 DEF Defaults
    <3>3. QED
      BY <1>2, <2>1, <3>2 DEF TheDefault
  <2>3. CASE ~request[s].default
    <3>1. Saved # {} /\ request[s].rows = {}
      BY <1>1, <1>3, <1>10, <2>3 DEF AddressFits
    <3>2. addresses[a] = "none"
      BY <1>2, <1>3
    <3>3. Defaults' = Defaults
      BY <1>2, <1>5, <1>6, <1>8, <2>3, <3>1, <3>2 DEF Defaults
    <3>4. QED
      BY <1>10, <2>1, <2>3, <3>1, <3>3 DEF TheDefault
  <2>4. QED
    BY <2>2, <2>3
<1>11. added' \in 0 .. MaxAddresses /\ added' >= added
  BY <1>1, <1>2
<1>12. QED
  BY <1>1, <1>4, <1>7, <1>9, <1>10, <1>11, CommitStep

\* The row of a transaction that finds it gone: nothing changes.
LEMMA RollBackStep ==
    ASSUME AccountInv, NEW s \in Slots, Go(s, NoRequest), UNCHANGED <<codeVars, addressVars>>
    PROVE  AccountInv'
<1>1. request'[s] = NoRequest => AddressFits(s)'
  BY NoRequestFits, FitsAddresses DEF AddressSteps, addressVars
<1>2. QED
  BY <1>1, NoRequestFits, LookStep DEF Untried

\* Changes of addresses that there have been.
LEMMA RewriteStep ==
    ASSUME AccountInv, NEW s \in Slots, NEW new, NEW repairs \in BOOLEAN, Commit(s, new, repairs),
           added' = added, new \in [Addresses -> {"none", "plain", "default"}],
           \A b \in Addresses : addresses[b] = "none" => new[b] = "none",
           request[s].alone /\ (repairs \/ TheDefault) => TheDefault'
    PROVE  AccountInv'
<1>1. added \in Nat /\ added \in 0 .. MaxAddresses
  BY AccountsAssumption DEF AccountInv, AccountTypeOK
<1>2. \A b \in Addresses : b > added' => new[b] = "none"
  BY DEF AccountInv, AddressInv
<1>3. added' \in 0 .. MaxAddresses /\ added' >= added
  BY <1>1
<1>4. QED
  BY <1>2, <1>3, CommitStep

LEMMA SetDefaultStep ==
    ASSUME AccountInv, NEW s \in Slots, SetDefault(s)
    PROVE  AccountInv'
<1> DEFINE a == request[s].on
           new == [b \in Addresses |-> CASE b = a -> "default"
                                         [] b # a /\ b \in request[s].rows -> "plain"
                                         [] OTHER -> addresses[b]]
<1>1. /\ request[s].step = "cleared" /\ added' = added
      /\ \/ Go(s, NoRequest) /\ UNCHANGED <<codeVars, addresses, mixed>>
         \/ a \in Saved /\ Commit(s, new, TRUE)
  BY DEF SetDefault, Step
<1>2. CASE Go(s, NoRequest) /\ UNCHANGED <<codeVars, addresses, mixed>>
  BY <1>1, <1>2, RollBackStep DEF addressVars
<1>3. CASE a \in Saved /\ Commit(s, new, TRUE)
  <2>1. /\ AddressFits(s) /\ \A b \in request[s].rows : b <= added
        /\ addresses \in [Addresses -> {"none", "plain", "default"}]
    BY DEF AccountInv, AccountTypeOK, AddressInv, AddressFits
  <2>2. a \in Addresses /\ addresses[a] # "none"
    BY <1>3 DEF Saved
  <2>3. /\ new[a] = "default"
        /\ \A b \in Addresses : b # a => new[b] = IF b \in request[s].rows THEN "plain" ELSE addresses[b]
    BY <2>2
  <2>4. new \in [Addresses -> {"none", "plain", "default"}] /\ addresses' = new
    BY <1>3, <2>1 DEF Commit
  <2> HIDE DEF new
  <2>5. ASSUME request[s].alone PROVE TheDefault'
    <3>1. request[s].rows = Defaults
      BY <1>1, <2>1, <2>5 DEF AddressFits
    <3>2. Defaults' = {a} /\ a \in Saved'
      BY <2>2, <2>3, <2>4, <3>1 DEF Defaults, Saved
    <3>3. QED
      BY <2>2, <3>2 DEF TheDefault
  <2>6. added \in Nat /\ added \in 0 .. MaxAddresses
    BY AccountsAssumption DEF AccountInv, AccountTypeOK
  <2>7. \A b \in Addresses : b > added => new[b] = "none"
    <3> SUFFICES ASSUME NEW b \in Addresses, b > added PROVE new[b] = "none"
      OBVIOUS
    <3>1. addresses[b] = "none" /\ b # a
      BY <2>2 DEF AccountInv, AddressInv
    <3>2. b \notin request[s].rows
      BY <2>1, <2>6 DEF Addresses
    <3>3. QED
      BY <2>3, <3>1, <3>2
  <2>8. added' \in 0 .. MaxAddresses /\ added' >= added
    BY <1>1, <2>6
  <2>9. QED
    BY <1>1, <1>3, <2>4, <2>5, <2>7, <2>8, CommitStep
<1>4. QED
  BY <1>1, <1>2, <1>3

LEMMA DeleteAddressStep ==
    ASSUME AccountInv, NEW s \in Slots, DeleteAddress(s)
    PROVE  AccountInv'
<1> DEFINE a == request[s].on
           new == [addresses EXCEPT ![a] = "none"]
           c == [request[s] EXCEPT !.step = "deleted", !.rows = {a}]
<1>1. /\ request[s].step = "delete" /\ added' = added
      /\ \/ Go(s, NoRequest) /\ UNCHANGED <<codeVars, addresses, mixed>>
         \/ a \in Saved /\ request[s].default /\ Go(s, c) /\ UNCHANGED <<codeVars, addresses, mixed>>
         \/ a \in Saved /\ ~request[s].default /\ Commit(s, new, FALSE)
  BY DEF DeleteAddress, Step
<1>2. /\ AddressFits(s) /\ addresses \in [Addresses -> {"none", "plain", "default"}]
      /\ mixed \/ TheDefault
  BY DEF AccountInv, AccountTypeOK, AddressInv
<1>3. CASE Go(s, NoRequest) /\ UNCHANGED <<codeVars, addresses, mixed>>
  BY <1>1, <1>3, RollBackStep DEF addressVars
<1>4. CASE a \in Saved /\ request[s].default /\ Go(s, c) /\ UNCHANGED <<codeVars, addresses, mixed>>
  <2>1. a \in Addresses
    BY <1>4 DEF Saved
  <2>2. c \in Requests /\ c.step = "deleted" /\ c.on = a /\ c.rows = {a} /\ c.alone = request[s].alone
    BY <2>1, RequestFields DEF AccountInv, Requests, AddressSteps
  <2>3. UNCHANGED <<codeVars, addressVars>>
    BY <1>1, <1>4 DEF addressVars
  <2>4. request'[s] = c => AddressFits(s)'
    BY <1>1, <1>2, <1>4, <2>2, <2>3 DEF AddressFits, Saved, Defaults, addressVars
  <2>5. QED
    BY <1>4, <2>2, <2>3, <2>4, LookStep DEF Untried, AddressSteps
<1>5. CASE a \in Saved /\ ~request[s].default /\ Commit(s, new, FALSE)
  <2>1. a \in Addresses
    BY <1>5 DEF Saved
  <2>2. new[a] = "none" /\ \A b \in Addresses : b # a => new[b] = addresses[b]
    BY <1>2, <2>1
  <2>3. new \in [Addresses -> {"none", "plain", "default"}] /\ addresses' = new
    BY <1>2, <1>5 DEF Commit
  <2> HIDE DEF new
  <2>4. ASSUME request[s].alone, TheDefault PROVE TheDefault'
    <3>1. a \notin Defaults
      BY <1>1, <1>2, <1>5, <2>4 DEF AddressFits
    <3>2. Saved # {}
      BY <1>5
    <3>3. PICK d \in Addresses : Defaults = {d}
      BY <2>4, <3>2 DEF TheDefault
    <3>4. d # a /\ addresses[d] = "default"
      BY <3>1, <3>3 DEF Defaults
    <3>5. Defaults' = {d}
      BY <2>2, <2>3, <3>1, <3>3 DEF Defaults
    <3>6. d \in Saved'
      BY <2>2, <2>3, <3>4 DEF Saved
    <3>7. QED
      BY <3>5, <3>6 DEF TheDefault
  <2>5. QED
    BY <1>1, <1>5, <2>2, <2>3, <2>4, RewriteStep
<1>6. QED
  BY <1>1, <1>3, <1>4, <1>5

\* The deleted address was the default: the next one is now, if there is one.
LEMMA PromoteStep ==
    ASSUME AccountInv, NEW s \in Slots, Promote(s)
    PROVE  AccountInv'
<1> DEFINE a == request[s].on
           n == request[s].next
           new == [b \in Addresses |-> CASE b = a -> "none"
                                         [] b # a /\ b = n -> "default"
                                         [] OTHER -> addresses[b]]
<1>1. /\ request[s].step = "found" /\ added' = added
      /\ \/ Go(s, NoRequest) /\ UNCHANGED <<codeVars, addresses, mixed>>
         \/ (n = 0 \/ n \in Saved) /\ Commit(s, new, FALSE)
  BY DEF Promote, Step
<1>2. CASE Go(s, NoRequest) /\ UNCHANGED <<codeVars, addresses, mixed>>
  BY <1>1, <1>2, RollBackStep DEF addressVars
<1>3. CASE (n = 0 \/ n \in Saved) /\ Commit(s, new, FALSE)
  <2>1. AddressFits(s) /\ addresses \in [Addresses -> {"none", "plain", "default"}]
    BY DEF AccountInv, AccountTypeOK, AddressInv
  <2>2. /\ 0 \notin Addresses /\ Saved \subseteq Addresses
        /\ n # 0 => n \in Addresses /\ addresses[n] # "none"
    BY <1>3, SavedAreAdded DEF Saved
  <2>3. \A b \in Addresses : new[b] = IF b = a THEN "none" ELSE IF b = n THEN "default" ELSE addresses[b]
    OBVIOUS
  <2>4. new \in [Addresses -> {"none", "plain", "default"}] /\ addresses' = new
    BY <1>3, <2>1 DEF Commit
  <2> HIDE DEF new
  <2>5. ASSUME request[s].alone, TheDefault PROVE TheDefault'
    <3>1. a \in Defaults /\ IF n = 0 THEN Saved = {a} ELSE n \in Saved \ {a}
      BY <1>1, <2>1, <2>5 DEF AddressFits
    <3>2. Defaults = {a} /\ a \in Addresses
      BY <2>5, <3>1 DEF TheDefault, Defaults
    <3>3. CASE n = 0
      <4>1. Saved' = {} /\ Defaults' = {}
        BY <2>2, <2>3, <2>4, <3>1, <3>2, <3>3 DEF Saved, Defaults
      <4>2. QED
        BY <4>1 DEF TheDefault
    <3>4. CASE n # 0
      <4>1. Defaults' = {n} /\ n \in Saved'
        BY <2>2, <2>3, <2>4, <3>1, <3>2, <3>4 DEF Saved, Defaults
      <4>2. QED
        BY <2>2, <3>4, <4>1 DEF TheDefault
    <3>5. QED
      BY <3>3, <3>4
  <2>6. \A b \in Addresses : addresses[b] = "none" => new[b] = "none"
    BY <2>2, <2>3
  <2>7. QED
    BY <1>1, <1>3, <2>4, <2>5, <2>6, RewriteStep
<1>4. QED
  BY <1>1, <1>2, <1>3

-----------------------------------------------------------------------------

\* Every step of the account keeps AccountInv.
LEMMA AccountKeeps == AccountInv /\ [AccountNext]_accountVars => AccountInv'
<1> SUFFICES ASSUME AccountInv, [AccountNext]_accountVars PROVE AccountInv'
  OBVIOUS
<1>1. ASSUME NEW s \in Slots,
             AskForCode(s) \/ StoreCode(s) \/ StartCooldown(s) \/ SendCode(s)
               \/ TryCode(s) \/ CountTry(s) \/ BurnCode(s) \/ UseCode(s) \/ LogIn(s) \/ Abort(s)
      PROVE  AccountInv'
  BY <1>1, RestStep, StoreCodeStep, SendStep, TryCodeStep, AttemptStep
<1>2. ASSUME NEW s \in Slots,
             AskToAdd(s) \/ AskForDefault(s) \/ AskToDelete(s)
               \/ OpenClear(s) \/ Clear(s) \/ AddAddress(s) \/ SetDefault(s)
               \/ DeleteAddress(s) \/ FindNext(s) \/ Promote(s)
      PROVE  AccountInv'
  BY <1>2, AskToAddStep, AskAboutStep, ClearStep, AddAddressStep, SetDefaultStep,
     DeleteAddressStep, FindNextStep, PromoteStep
<1>3. CASE CooldownEnds \/ OtpExpires
  BY <1>3, TimeStep
<1>4. CASE UNCHANGED accountVars
  BY <1>4 DEF accountVars, AccountInv, AccountTypeOK, CodeInv, OtpInv, CodeFits, CodesAreSpent,
              NewestCodeWorks, AddressInv, AddressFits, TheDefault, Saved, Defaults
<1>5. QED
  BY <1>1, <1>2, <1>3, <1>4 DEF AccountNext

\* What a request remembers of a code or of the addresses is true as long as no
\* other write came between, in every state.
THEOREM AccountInductive == AccountSpec => []AccountInv
<1>1. AccountInit => AccountInv
  BY AccountInits DEF AccountInv
<1>2. QED
  BY <1>1, AccountKeeps, PTL DEF AccountSpec

\* The type invariant of the account.
THEOREM AccountTypes == AccountSpec => []AccountTypeOK
<1>1. AccountInv => AccountTypeOK
  BY DEF AccountInv
<1>2. QED
  BY <1>1, AccountInductive, PTL

\* otp.service.ts: a code logs in once and takes MaxAttempts wrong attempts,
\* unless a write to it crossed the decision behind another.
THEOREM CodesSpent == AccountSpec => []CodesAreSpent
<1>1. AccountInv => CodesAreSpent
  BY DEF AccountInv, CodeInv
<1>2. QED
  BY <1>1, AccountInductive, PTL

\* otp.service.ts: no earlier request or attempt brings an older code back.
THEOREM NewestWorks == AccountSpec => []NewestCodeWorks
<1>1. AccountInv => NewestCodeWorks
  BY DEF AccountInv, CodeInv
<1>2. QED
  BY <1>1, AccountInductive, PTL

\* customers.service.ts: who has addresses has one default, unless changes of
\* them overlapped since the default was last set by a request alone.
THEOREM DefaultIsOne == AccountSpec => []OneDefault
<1>1. ASSUME AccountInv PROVE OneDefault
  <2>1. CASE mixed
    BY <2>1 DEF OneDefault
  <2>2. CASE Saved = {} /\ Defaults = {}
    BY <2>2, FS_EmptySet DEF OneDefault
  <2>3. CASE Saved # {} /\ \E a \in Addresses : Defaults = {a}
    <3>1. PICK a \in Addresses : Defaults = {a}
      BY <2>3
    <3>2. Cardinality({a}) = 1
      BY FS_Singleton
    <3>3. QED
      BY <2>3, <3>1, <3>2 DEF OneDefault
  <2>4. QED
    BY <1>1, <2>1, <2>2, <2>3 DEF AccountInv, AddressInv, TheDefault
<1>2. QED
  BY <1>1, AccountInductive, PTL

=============================================================================
