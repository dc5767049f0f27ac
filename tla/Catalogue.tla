----------------------------- MODULE Catalogue -----------------------------
(***************************************************************************)
(* What the admin panel maintains: categories, products and variants,      *)
(* add-ons, branches, delivery zones, coupons, and a customer's account.   *)
(*                                                                         *)
(* The services all work alike.  The row is read, then a transaction       *)
(* updates it by id and records columns of it in the audit log: their old  *)
(* values from what was read before, the new ones from what the update     *)
(* returned.  Nothing is deleted, only deactivated.  Which columns are     *)
(* recorded differs: of a category and a product a few of those that are   *)
(* written, so a change of the others leaves an entry that does not show   *)
(* it; of a variant only a price that changes (in PriceHistory too, when   *)
(* both prices are numbers), which is decided on the row that was read.    *)
(* Of the log the model keeps what its newest entries say of each column.  *)
(*                                                                         *)
(* Which add-ons and branches a product has, and which branches a variant, *)
(* are lists that are replaced (Assignments).  Images are left out.        *)
(***************************************************************************)
EXTENDS Assignments

CONSTANTS
    Entities,   \* rows there are or may come to be, each of its own code or slug
    KindOf,     \* [Entities -> Kinds]
    Parent,     \* [Entities -> Entities]: of a product its category, of a variant
                \* its product, of a zone its branch; of the others themselves
    Contents,   \* what the columns of a row may hold that its entries record,
    Details,    \* and those of a category, product or variant they do not
    Prices,
    NoPrice,    \* null, a price to be determined
    Keep,       \* undefined in a request: the column is left alone
    Untold,     \* what no entry of the log says
    Absent,     \* no row
    Seeds,      \* the sets of rows there may be to begin with
    Initially,  \* and of what may be in their lists, [Lists -> SUBSET Members]
    MaxEdits    \* bound on the rows written

Kinds == {"category", "product", "variant", "addon", "branch", "zone", "coupon", "customer"}

OfKind(k) == {e \in Entities : KindOf[e] = k}

Columns == Contents \cup Prices \cup {NoPrice}

Row == [value : Columns, details : Details, isActive : {"true", "false"}]

Entry == [value : Columns \cup {Untold}, details : Details \cup {Untold},
          isActive : {"true", "false", Untold}]

Whole == {"value", "details", "isActive"}

\* The columns the entry of an update records, and that of a create.
Recorded(e) ==
    CASE KindOf[e] \in {"category", "product"} -> {"value", "isActive"}
      [] KindOf[e] = "variant" -> {"value"}
      [] KindOf[e] = "customer" -> {"isActive"}
      [] OTHER -> Whole

RecordedFirst(e) == IF KindOf[e] = "product" THEN {"value"} ELSE Whole

ASSUME CatalogueAssumption ==
    /\ KindOf \in [Entities -> Kinds]
    /\ Parent \in [Entities -> Entities]
    /\ {Keep, Untold} \cap (Columns \cup Details \cup {"true", "false"}) = {}
    /\ Absent \notin Row \cup Entities
    /\ Contents # {}
    /\ Details # {}
    /\ Seeds \subseteq SUBSET Entities
    /\ MaxEdits \in Nat
    /\ Lists = ({"addons", "branches"} \X OfKind("product"))
                 \cup ({"variantBranches"} \X OfKind("variant"))
    /\ Members = OfKind("addon") \cup OfKind("branch")
    /\ Initially \subseteq [Lists -> SUBSET Members]

VARIABLES
    row,        \* per entity its row, or Absent
    told,       \* what the newest entries of the audit log say of each column
    edit,       \* the request a caller handles
    edits,      \* rows written so far
    raced,      \* history: entities two requests were changing at once,
    gap         \* and those with an entry whose old value was never told

catalogueVars == <<assignmentVars, row, told, edit, edits, raced, gap>>

Edits == [step : {"idle", "create", "update", "deactivate", "list"},
          on : Entities \cup {Absent}, seen : Row \cup {Absent}, value : Columns \cup {Keep},
          details : Details \cup {Keep}, isActive : {"true", "false", Keep}]

NoEdit == [step |-> "idle", on |-> Absent, seen |-> Absent,
           value |-> Keep, details |-> Keep, isActive |-> Keep]

TypeOK ==
    /\ AssignmentsTypeOK
    /\ row \in [Entities -> Row \cup {Absent}]
    /\ told \in [Entities -> Entry]
    /\ edit \in [Callers -> Edits]
    /\ edits \in 0 .. MaxEdits
    /\ raced \in SUBSET Entities
    /\ gap \in SUBSET Entities

Known(e) == row[e] # Absent

IsActive(e) == Known(e) /\ row[e].isActive = "true"

Values(e) == IF KindOf[e] = "variant" THEN Prices \cup {NoPrice} ELSE Contents

\* Of the other kinds every column is a recorded one.
Detailed(e) == KindOf[e] \in {"category", "product", "variant"}

AnyDetails == CHOOSE d \in Details : TRUE

New(v, d) == [value |-> v, details |-> d, isActive |-> "true"]

\* What is known of a row after an entry with columns C of r.
Over(t, r, C) ==
    [value |-> IF "value" \in C THEN r.value ELSE t.value,
     details |-> IF "details" \in C THEN r.details ELSE t.details,
     isActive |-> IF "isActive" \in C THEN r.isActive ELSE t.isActive]

\* Of columns C, the log says of r what is true or nothing.
Agree(t, r, C) ==
    /\ "value" \in C => t.value \in {Untold, r.value}
    /\ "details" \in C => t.details \in {Untold, r.details}
    /\ "isActive" \in C => t.isActive \in {Untold, r.isActive}

Nothing == [value |-> Untold, details |-> Untold, isActive |-> Untold]

\* The rows that are there have been updated before.
Init ==
    /\ \E S \in Seeds :
          /\ \E f \in [S -> Columns] :
                /\ \A e \in S : f[e] = CHOOSE v \in Values(e) : TRUE
                /\ row = [e \in Entities |-> IF e \in S THEN New(f[e], AnyDetails) ELSE Absent]
                /\ told = [e \in Entities |->
                             IF e \in S THEN Over(Nothing, New(f[e], AnyDetails), Recorded(e))
                             ELSE Nothing]
          /\ \E g \in Initially : last = [l \in Lists |-> IF l[2] \in S THEN g[l] ELSE {}]
    /\ edit = [p \in Callers |-> NoEdit]
    /\ edits = 0
    /\ raced = {}
    /\ gap = {}
    /\ rows = [l \in Lists |-> last[l] \X {0}]
    /\ writes = 0
    /\ work = [p \in Callers |-> NoWork]
    /\ blended = {}

-----------------------------------------------------------------------------

Idle(p) == edit[p].step = "idle"

At(p, step, k) == edit[p].step = step /\ edit[p].on \in OfKind(k)

Changing(e) == {p \in Callers : edit[p].on = e /\ edit[p].step \in {"update", "deactivate"}}

Done(p) == edit' = [edit EXCEPT ![p] = NoEdit]

Begin(p, step, e, v, d, a) ==
    edit' = [edit EXCEPT ![p] = [step |-> step, on |-> e, seen |-> row[e],
                                 value |-> v, details |-> d, isActive |-> a]]

\* Bound: every change that was asked for can still be made.
RoomToEdit ==
    edits + Cardinality({q \in Callers : edit[q].step \in {"create", "update", "deactivate"}})
      < MaxEdits

Free(p) == Idle(p) /\ RoomToEdit

\* A row is read, to be changed next.
Read(p, step, e, v, d, a) ==
    /\ Known(e)
    /\ Begin(p, step, e, v, d, a)
    /\ UNCHANGED <<assignmentVars, row, told, edits, raced, gap>>

\* getById, and the request says what to change.
ReadToUpdate(p) ==
    /\ Free(p)
    /\ \E e \in Entities, a \in {"true", "false", Keep} :
       \E v \in Values(e) \cup {Keep}, d \in Details \cup {Keep} :
          /\ KindOf[e] = "customer" => v = Keep
          /\ ~Detailed(e) => d = Keep
          /\ Read(p, "update", e, v, d, a)

\* A row that is not active is returned as it is.
ReadToDeactivate(p) ==
    /\ Free(p)
    /\ \E e \in Entities \ OfKind("customer") :
          IsActive(e) /\ Read(p, "deactivate", e, Keep, Keep, "false")

\* Codes and slugs are looked up, and the row the new one belongs to.
AskToCreate(p) ==
    /\ Free(p)
    /\ \E e \in Entities \ OfKind("customer") :
          /\ ~Known(e)
          /\ Parent[e] # e => Known(Parent[e])
          /\ \E v \in Values(e) : Begin(p, "create", e, v, AnyDetails, "true")
    /\ UNCHANGED <<assignmentVars, row, told, edits, raced, gap>>

\* The transaction of a create; a code or slug that was taken meanwhile
\* violates its unique index.
Create(p) ==
    LET e == edit[p].on  new == New(edit[p].value, edit[p].details) IN
    /\ Done(p)
    /\ IF Known(e)
         THEN UNCHANGED <<row, told, edits>>
         ELSE /\ edits < MaxEdits
              /\ edits' = edits + 1
              /\ row' = [row EXCEPT ![e] = new]
              /\ told' = [told EXCEPT ![e] = Over(Nothing, new, RecordedFirst(e))]
    /\ UNCHANGED <<assignmentVars, raced, gap>>

\* Row r with the columns that are given.
Changed(p, r) ==
    [value |-> IF edit[p].value = Keep THEN r.value ELSE edit[p].value,
     details |-> IF edit[p].details = Keep THEN r.details ELSE edit[p].details,
     isActive |-> IF edit[p].isActive = Keep THEN r.isActive ELSE edit[p].isActive]

\* What tx.update returns: the row as it is, with the changes.
Updated(p) == Changed(p, row[edit[p].on])

Write(p) ==
    LET e == edit[p].on IN
    /\ edits < MaxEdits
    /\ edits' = edits + 1
    /\ row' = [row EXCEPT ![e] = Updated(p)]
    /\ raced' = IF Changing(e) = {p} THEN raced ELSE raced \cup {e}
    /\ Done(p)
    /\ UNCHANGED assignmentVars

\* auditLog.record in the same transaction: columns C of what was read, and of
\* the new row.
Tell(p, C, new) ==
    LET e == edit[p].on IN
    /\ told' = [told EXCEPT ![e] = Over(told[e], new, C)]
    /\ gap' = IF Agree(told[e], edit[p].seen, C \cap Recorded(e)) THEN gap ELSE gap \cup {e}

\* Mutant: what is recorded is the row that was read, with the changes.
UpdateMutant(p) ==
    Write(p) /\ Tell(p, Recorded(edit[p].on), Changed(p, edit[p].seen))

Update(p) == Write(p) /\ Tell(p, Recorded(edit[p].on), Updated(p))

\* The entry says isActive was true, as was read, and is false.
Deactivate(p) == Write(p) /\ Tell(p, {"isActive"}, Updated(p))

\* A query fails: nothing is written.
Fail(p) ==
    /\ ~Idle(p)
    /\ Done(p)
    /\ RollBack(p)
    /\ UNCHANGED <<row, told, edits, raced, gap>>

-----------------------------------------------------------------------------
(* The services.                                                             *)

CreateCategory(p) == At(p, "create", "category") /\ Create(p)
UpdateCategory(p) == At(p, "update", "category") /\ Update(p)
DeactivateCategory(p) == At(p, "deactivate", "category") /\ Deactivate(p)

CreateAddon(p) == At(p, "create", "addon") /\ Create(p)
UpdateAddon(p) == At(p, "update", "addon") /\ Update(p)
DeactivateAddon(p) == At(p, "deactivate", "addon") /\ Deactivate(p)

CreateBranch(p) == At(p, "create", "branch") /\ Create(p)
UpdateBranch(p) == At(p, "update", "branch") /\ Update(p)
DeactivateBranch(p) == At(p, "deactivate", "branch") /\ Deactivate(p)

CreateZone(p) == At(p, "create", "zone") /\ Create(p)
UpdateZone(p) == At(p, "update", "zone") /\ Update(p)
DeactivateZone(p) == At(p, "deactivate", "zone") /\ Deactivate(p)

CreateCoupon(p) == At(p, "create", "coupon") /\ Create(p)
UpdateCoupon(p) == At(p, "update", "coupon") /\ Update(p)
DeactivateCoupon(p) == At(p, "deactivate", "coupon") /\ Deactivate(p)

UpdateCustomer(p) == At(p, "update", "customer") /\ Update(p)

CreateProduct(p) == At(p, "create", "product") /\ Create(p)
UpdateProduct(p) == At(p, "update", "product") /\ Update(p)
DeactivateProduct(p) == At(p, "deactivate", "product") /\ Deactivate(p)

AddVariant(p) == At(p, "create", "variant") /\ Create(p)

\* That updateVariant made the variant active again is not recorded.
RemoveVariant(p) == At(p, "deactivate", "variant") /\ Deactivate(p)

\* Mutant: null counts as no price given.
PriceChangedMutant(p) ==
    edit[p].value \notin {Keep, NoPrice} /\ edit[p].value # edit[p].seen.value

PriceChanged(p) == edit[p].value # Keep /\ edit[p].value # edit[p].seen.value

\* Only the price is recorded, if it differs from the one that was read.
UpdateVariant(p) ==
    /\ At(p, "update", "variant")
    /\ Write(p)
    /\ IF PriceChanged(p) THEN Tell(p, {"value"}, Updated(p)) ELSE UNCHANGED <<told, gap>>

-----------------------------------------------------------------------------
(* The lists.                                                                *)

\* Bound: every assignment that was asked for can still be made.
Room == writes + Cardinality({q \in Callers : edit[q].step = "list"}) < MaxWrites

\* The product or variant and the members are there: the list is replaced.
Assign(p, list, e, S) ==
    /\ Known(e)
    /\ \A m \in S : Known(m)
    /\ Begin(p, "list", e, Keep, Keep, Keep)
    /\ Open(p, <<list, e>>, S)
    /\ UNCHANGED <<row, told, edits, raced, gap>>

AssignAddons(p) ==
    /\ Idle(p) /\ Room
    /\ \E e \in OfKind("product"), S \in SUBSET OfKind("addon") : Assign(p, "addons", e, S)

AssignBranches(p) ==
    /\ Idle(p) /\ Room
    /\ \E e \in OfKind("product"), S \in SUBSET OfKind("branch") : Assign(p, "branches", e, S)

AssignVariantBranches(p) ==
    /\ Idle(p) /\ Room
    /\ \E e \in OfKind("variant"), S \in SUBSET OfKind("branch") :
          Assign(p, "variantBranches", e, S)

DeleteRows(p) == Delete(p) /\ UNCHANGED <<row, told, edit, edits, raced, gap>>

InsertRows(p) == Insert(p) /\ Done(p) /\ UNCHANGED <<row, told, edits, raced, gap>>

-----------------------------------------------------------------------------

ReadIt(p) ==
    \/ ReadToUpdate(p) \/ ReadToDeactivate(p) \/ AskToCreate(p)
    \/ AssignAddons(p) \/ AssignBranches(p) \/ AssignVariantBranches(p)

Menu(p) ==
    \/ CreateCategory(p) \/ UpdateCategory(p) \/ DeactivateCategory(p)
    \/ CreateAddon(p) \/ UpdateAddon(p) \/ DeactivateAddon(p)
    \/ CreateProduct(p) \/ UpdateProduct(p) \/ DeactivateProduct(p)
    \/ AddVariant(p) \/ UpdateVariant(p) \/ RemoveVariant(p)

Business(p) ==
    \/ CreateBranch(p) \/ UpdateBranch(p) \/ DeactivateBranch(p)
    \/ CreateZone(p) \/ UpdateZone(p) \/ DeactivateZone(p)
    \/ CreateCoupon(p) \/ UpdateCoupon(p) \/ DeactivateCoupon(p)
    \/ UpdateCustomer(p)

ListWork(p) == DeleteRows(p) \/ InsertRows(p)

Next == \E p \in Callers : ReadIt(p) \/ Menu(p) \/ Business(p) \/ ListWork(p) \/ Fail(p)

Spec == Init /\ [][Next]_catalogueVars

-----------------------------------------------------------------------------
(* Properties.                                                               *)

\* What the audit log's newest entries say of a row's recorded columns is true,
\* whichever changes were made of the row between the reading and the writing.
\* Of a variant's price that holds unless two requests were changing the variant
\* at once (products.service.ts:272 decides on the price it read).
LogTellsRows ==
    \A e \in Entities :
       Known(e) /\ (KindOf[e] = "variant" => e \notin raced) => Agree(told[e], row[e], Recorded(e))

\* The log has no gaps: the old values of an entry are what the entries before
\* called new, unless two requests were changing the row at once.
LogHasNoGaps == gap \subseteq raced

=============================================================================
