----------------------------- MODULE CartLines -----------------------------
(***************************************************************************)
(* A customer's cart (services/api/src/cart) while the catalogue changes.  *)
(*                                                                         *)
(* addItem reads the product and the variant, then the cart, the branch's  *)
(* row of the product, the branches of the variant and the add-ons, each   *)
(* in a query of its own, and looks at none of them again.  Then, in a     *)
(* transaction, it makes the cart if it read none, looks for a line of the *)
(* same variant, add-ons and note, and adds to the quantity it finds there.*)
(* Nothing is locked, so the requests of two devices interleave with each  *)
(* other and with the catalogue's.  Checkout empties the cart as clearCart *)
(* does (Checkout).  The note of a line is not told apart from its add-ons,*)
(* and the quantity limits do not change.                                  *)
(***************************************************************************)
EXTENDS Catalogue

CONSTANTS
    Devices,        \* of the customer, each with one request under way
    MaxLines,       \* bound on the lines, and
    MaxCarts,       \* on the carts, there ever are
    MaxQuantity,    \* maxOrderQuantity; minOrderQuantity is 1
    Amounts         \* what a request may ask for

ASSUME CartAssumption ==
    /\ MaxLines \in Nat
    /\ MaxCarts \in Nat
    /\ MaxQuantity \in Nat
    /\ Amounts \subseteq 1 .. MaxQuantity

VARIABLES
    cart,       \* the id of the customer's cart, 0 for none
    branchOf,   \* the branch it is for
    carts,      \* cart ids handed out
    line,       \* per line id the line, or Absent
    lines,      \* line ids handed out
    call,       \* the request a device waits for, or Absent
    tangled,    \* history: lines written while another request changed the cart,
    sale,       \* what became of the item while it was being added,
    unsold      \* and lines of an item that was not for sale then

cartVars == <<cart, branchOf, carts, line, lines, call, tangled, sale, unsold>>

vars == <<catalogueVars, cartVars>>

LineIds == 1 .. MaxLines
CartIds == 1 .. MaxCarts

Variants == OfKind("variant")
Addons == OfKind("addon")
Branches == OfKind("branch")

\* asked is the quantity the customer asked for, in all requests since the last
\* that set it.
Lines == [cart : CartIds, variant : Variants, addons : SUBSET Addons,
          quantity : 1 .. MaxQuantity, asked : Nat, branch : Branches]

\* What addItem wants of the catalogue, each read on its own.
Conditions == {"product", "variant", "branch", "variantBranch", "addons"}

\* met: the conditions that were read, and held then; line and base: the line an
\* addItem found and its quantity then, of the others the line; alone: no other
\* request changed the cart since.
Calls == [step : {"asked", "viewed", "found", "quantity", "addons", "remove"},
          variant : Variants, addons : SUBSET Addons, branch : Branches,
          quantity : 1 .. MaxQuantity, met : SUBSET Conditions, cart : 0 .. MaxCarts,
          made : BOOLEAN, line : 0 .. MaxLines, base : 0 .. MaxQuantity, alone : BOOLEAN]

\* Since the request came: all conditions held at once, one ceased to hold, one
\* came to hold.
Sales == [whole : BOOLEAN, lost : BOOLEAN, gained : BOOLEAN]

CartTypeOK ==
    /\ TypeOK
    /\ cart \in 0 .. MaxCarts
    /\ branchOf \in Branches \cup {Absent}
    /\ carts \in 0 .. MaxCarts
    /\ line \in [LineIds -> Lines \cup {Absent}]
    /\ lines \in 0 .. MaxLines
    /\ call \in [Devices -> Calls \cup {Absent}]
    /\ tangled \in SUBSET LineIds
    /\ sale \in [Devices -> Sales]
    /\ unsold \in SUBSET LineIds

CartInit ==
    /\ Init
    /\ cart = 0
    /\ branchOf = Absent
    /\ carts = 0
    /\ line = [l \in LineIds |-> Absent]
    /\ lines = 0
    /\ call = [d \in Devices |-> Absent]
    /\ tangled = {}
    /\ sale = [d \in Devices |-> [whole |-> FALSE, lost |-> FALSE, gained |-> FALSE]]
    /\ unsold = {}

-----------------------------------------------------------------------------

Waits(d) == call[d] # Absent

Is(d, step) == Waits(d) /\ call[d].step = step

Answered(d) == call' = [call EXCEPT ![d] = Absent]

There(l) == line[l] # Absent

Live == {l \in LineIds : There(l)}

\* d changes the cart: another request that has looked for its line is not alone.
Answer(d) ==
    call' = [e \in Devices |-> CASE e = d -> Absent
                                 [] e # d /\ Is(e, "found") -> [call[e] EXCEPT !.alone = FALSE]
                                 [] OTHER -> call[e]]

\* The product and the variant are active, and the price is set; the branch sells
\* the product, and the variant if it has branches of its own; the add-ons are
\* active.
Holds(k, c) ==
    CASE k = "product" -> IsActive(Parent[c.variant])
      [] k = "variant" -> IsActive(c.variant) /\ row[c.variant].value # NoPrice
      [] k = "branch" -> c.branch \in Held(<<"branches", Parent[c.variant]>>)
      [] k = "variantBranch" -> Held(<<"variantBranches", c.variant>>) # {}
                                  => c.branch \in Held(<<"variantBranches", c.variant>>)
      [] k = "addons" -> \A a \in c.addons : IsActive(a)

OnSale(c) == \A k \in Conditions : Holds(k, c)

\* The lines of cart c that findMatchingLine may return.
Matching(c, v, A) ==
    {l \in Live : line[l].cart = c /\ line[l].variant = v /\ line[l].addons = A}

-----------------------------------------------------------------------------
(* addItem.                                                                  *)

Asked(v, A, b, n) ==
    [step |-> "asked", variant |-> v, addons |-> A, branch |-> b, quantity |-> n, met |-> {},
     cart |-> 0, made |-> FALSE, line |-> 0, base |-> 0, alone |-> TRUE]

\* The quantity is between minOrderQuantity and maxOrderQuantity.
AskItem(d) ==
    /\ ~Waits(d)
    /\ \E v \in Variants, A \in SUBSET Addons, b \in Branches, n \in Amounts :
          /\ call' = [call EXCEPT ![d] = Asked(v, A, b, n)]
          /\ sale' = [sale EXCEPT ![d] = [whole |-> OnSale(Asked(v, A, b, n)),
                                         lost |-> FALSE, gained |-> FALSE]]
    /\ UNCHANGED <<cart, branchOf, carts, line, lines, tangled, unsold>>

\* A query and what it is asked for: the request goes on or is refused.
Check(d, k) ==
    /\ k \notin call[d].met
    /\ IF Holds(k, call[d]) THEN call' = [call EXCEPT ![d].met = @ \cup {k}] ELSE Answered(d)
    /\ UNCHANGED <<cart, branchOf, carts, line, lines, tangled, sale, unsold>>

\* Both are read at the same time, and either may be the first.
CheckProduct(d) == Is(d, "asked") /\ Check(d, "product")

CheckVariant(d) == Is(d, "asked") /\ Check(d, "variant")

\* The cart is read: one of another branch is a conflict.
ReadCart(d) ==
    LET conflict == cart # 0 /\ branchOf # call[d].branch IN
    /\ Is(d, "asked")
    /\ {"product", "variant"} \subseteq call[d].met
    /\ IF conflict THEN Answered(d)
       ELSE call' = [call EXCEPT ![d].step = "viewed", ![d].cart = cart]
    /\ UNCHANGED <<cart, branchOf, carts, line, lines, tangled, sale, unsold>>

CheckBranch(d) == Is(d, "viewed") /\ Check(d, "branch")

\* Mutant: the branches of the variant are not looked at.
CheckVariantBranchMutant(d) ==
    /\ Is(d, "viewed")
    /\ "branch" \in call[d].met
    /\ call' = [call EXCEPT ![d].met = @ \cup {"variantBranch"}]
    /\ UNCHANGED <<cart, branchOf, carts, line, lines, tangled, sale, unsold>>

CheckVariantBranch(d) ==
    /\ Is(d, "viewed")
    /\ "branch" \in call[d].met
    /\ Check(d, "variantBranch")

\* Without add-ons there is nothing to read.
CheckAddons(d) ==
    /\ Is(d, "viewed")
    /\ "variantBranch" \in call[d].met
    /\ call[d].addons # {}
    /\ Check(d, "addons")

Checked(d) ==
    /\ Is(d, "viewed")
    /\ "variantBranch" \in call[d].met
    /\ call[d].addons # {} => "addons" \in call[d].met

\* Mutant: an upsert, which takes the cart that is there by now.
MakeCartMutant(d) ==
    /\ Checked(d)
    /\ call[d].cart = 0
    /\ IF cart # 0
         THEN call' = [call EXCEPT ![d].step = "found", ![d].cart = cart] /\ UNCHANGED carts
         ELSE /\ carts < MaxCarts
              /\ carts' = carts + 1
              /\ call' = [call EXCEPT ![d].step = "found", ![d].cart = carts + 1,
                                      ![d].made = TRUE]
    /\ UNCHANGED <<cart, branchOf, line, lines, tangled, sale, unsold>>

\* The transaction begins: a cart is made if none was read, which waits for
\* another that is being made and fails if that one commits.
MakeCart(d) ==
    /\ Checked(d)
    /\ call[d].cart = 0
    /\ \A e \in Devices : Waits(e) => ~call[e].made
    /\ IF cart # 0 THEN Answered(d) /\ UNCHANGED carts
       ELSE /\ carts < MaxCarts
            /\ carts' = carts + 1
            /\ call' = [call EXCEPT ![d].step = "found", ![d].cart = carts + 1,
                                    ![d].made = TRUE]
    /\ UNCHANGED <<cart, branchOf, line, lines, tangled, sale, unsold>>

\* findMatchingLine: a line, and the quantity it has.
FindLine(d) ==
    LET M == Matching(call[d].cart, call[d].variant, call[d].addons) IN
    /\ Checked(d)
    /\ call[d].cart # 0
    /\ \/ \E l \in M : call' = [call EXCEPT ![d].step = "found", ![d].line = l,
                                            ![d].base = line[l].quantity]
       \/ M = {} /\ call' = [call EXCEPT ![d].step = "found"]
    /\ UNCHANGED <<cart, branchOf, carts, line, lines, tangled, sale, unsold>>

\* What became of line l is written in the history.
Note(d, l) ==
    LET while == sale[d] IN
    /\ tangled' = IF call[d].alone THEN tangled ELSE tangled \cup {l}
    /\ unsold' = IF while.whole \/ (while.lost /\ while.gained) THEN unsold ELSE unsold \cup {l}

\* Mutant: the new quantity replaces the old one.
RaiseOverMutant(d) ==
    LET c == call[d]  l == c.line IN
    /\ Is(d, "found")
    /\ l # 0
    /\ IF ~There(l)
         THEN Answered(d) /\ UNCHANGED <<line, tangled, unsold>>
         ELSE /\ line' = [line EXCEPT ![l].quantity = c.quantity, ![l].asked = @ + c.quantity]
              /\ Note(d, l)
              /\ Answer(d)
    /\ UNCHANGED <<cart, branchOf, carts, lines, sale>>

\* The line that was found gets its old quantity and the new one; too much is
\* refused, and so is a line that is gone.
Raise(d) ==
    LET c == call[d]  l == c.line  sum == c.base + c.quantity IN
    /\ Is(d, "found")
    /\ l # 0
    /\ IF sum > MaxQuantity \/ ~There(l)
         THEN Answered(d) /\ UNCHANGED <<line, tangled, unsold>>
         ELSE /\ line' = [line EXCEPT ![l].quantity = sum, ![l].asked = @ + c.quantity]
              /\ Note(d, l)
              /\ Answer(d)
    /\ UNCHANGED <<cart, branchOf, carts, lines, sale>>

\* A new line, in the cart that was made or read; if that one is gone, its
\* foreign key fails.
AddLine(d) ==
    LET c == call[d]  l == lines + 1 IN
    /\ Is(d, "found")
    /\ c.line = 0
    /\ IF ~c.made /\ cart # c.cart
         THEN Answered(d) /\ UNCHANGED <<cart, branchOf, line, lines, tangled, unsold>>
         ELSE /\ lines < MaxLines
              /\ lines' = l
              /\ line' = [line EXCEPT ![l] =
                            [cart |-> c.cart, variant |-> c.variant, addons |-> c.addons,
                             quantity |-> c.quantity, asked |-> c.quantity, branch |-> c.branch]]
              /\ cart' = c.cart
              /\ branchOf' = IF c.made THEN c.branch ELSE branchOf
              /\ Note(d, l)
              /\ Answer(d)
    /\ UNCHANGED <<carts, sale>>

-----------------------------------------------------------------------------
(* updateItem, removeItem, clearCart.                                        *)

\* getOwnedItem: the line is there.
AskChange(d, step, l, A, n) ==
    /\ ~Waits(d)
    /\ call' = [call EXCEPT ![d] =
                  [step |-> step, variant |-> line[l].variant, addons |-> A,
                   branch |-> line[l].branch, quantity |-> n, met |-> {},
                   cart |-> line[l].cart, made |-> FALSE, line |-> l, base |-> 0,
                   alone |-> TRUE]]
    /\ UNCHANGED <<cart, branchOf, carts, line, lines, tangled, sale, unsold>>

AskQuantity(d) ==
    \E l \in Live, n \in Amounts : AskChange(d, "quantity", l, {}, n)

AskAddons(d) ==
    \E l \in Live, A \in SUBSET Addons :
       /\ \A a \in A : IsActive(a)
       /\ AskChange(d, "addons", l, A, 1)

AskRemoval(d) == \E l \in Live : AskChange(d, "remove", l, {}, 1)

\* The line gets its new state, unless it is gone.
Change(d, new) ==
    /\ IF There(call[d].line)
         THEN line' = [line EXCEPT ![call[d].line] = new] /\ Answer(d)
         ELSE Answered(d) /\ UNCHANGED line
    /\ tangled' = {l \in tangled : line'[l] # Absent}
    /\ UNCHANGED <<cart, branchOf, carts, lines, sale, unsold>>

SetQuantity(d) ==
    LET c == call[d] IN
    /\ Is(d, "quantity")
    /\ Change(d, [line[c.line] EXCEPT !.quantity = c.quantity, !.asked = c.quantity])

SetAddons(d) ==
    LET c == call[d] IN
    /\ Is(d, "addons")
    /\ Change(d, [line[c.line] EXCEPT !.addons = c.addons])

\* An emptied cart stays, and stays its branch's.
RemoveLine(d) == Is(d, "remove") /\ Change(d, Absent)

\* clearCart, and the checkout: the lines go with their cart.
ClearCart ==
    /\ cart # 0
    /\ cart' = 0
    /\ line' = [l \in LineIds |-> IF There(l) /\ line[l].cart = cart THEN Absent ELSE line[l]]
    /\ branchOf' = Absent
    /\ tangled' = {l \in tangled : line'[l] # Absent}
    /\ call' = [d \in Devices |-> IF Is(d, "found") THEN [call[d] EXCEPT !.alone = FALSE]
                                  ELSE call[d]]
    /\ UNCHANGED <<carts, lines, sale, unsold>>

\* A query fails, or the API process dies: the transaction is rolled back.
GiveUp(d) ==
    /\ Waits(d)
    /\ Answered(d)
    /\ UNCHANGED <<cart, branchOf, carts, line, lines, tangled, sale, unsold>>

-----------------------------------------------------------------------------

AddItem(d) ==
    \/ AskItem(d) \/ CheckProduct(d) \/ CheckVariant(d)
    \/ ReadCart(d) \/ CheckBranch(d) \/ CheckVariantBranch(d) \/ CheckAddons(d)
    \/ MakeCart(d) \/ FindLine(d) \/ Raise(d) \/ AddLine(d)

ChangeItem(d) ==
    \/ AskQuantity(d) \/ AskAddons(d) \/ AskRemoval(d)
    \/ SetQuantity(d) \/ SetAddons(d) \/ RemoveLine(d)

CartStep == ClearCart \/ \E d \in Devices : AddItem(d) \/ ChangeItem(d) \/ GiveUp(d)

\* A step of the catalogue's, under the eyes of the requests.
CatalogueStep ==
    /\ Next
    /\ UNCHANGED <<cart, branchOf, carts, line, lines, call, tangled, unsold>>
    /\ sale' = [d \in Devices |-> IF ~Waits(d) THEN sale[d] ELSE
          LET Before(k) == Holds(k, call[d])
              After(k) == Holds(k, call[d])'
          IN  [whole |-> sale[d].whole \/ \A k \in Conditions : After(k),
               lost |-> sale[d].lost \/ \E k \in Conditions : Before(k) /\ ~After(k),
               gained |-> sale[d].gained \/ \E k \in Conditions : ~Before(k) /\ After(k)]]

CartNext == CatalogueStep \/ (CartStep /\ UNCHANGED catalogueVars)

CartSpec == CartInit /\ [][CartNext]_vars

-----------------------------------------------------------------------------
(* Properties.                                                               *)

\* A line has the quantity that was asked for, unless it was written while
\* another request changed the cart (cart.service.ts:141).
QuantityAsAsked == \A l \in Live \ tangled : line[l].quantity = line[l].asked

\* Every line is in the cart there is and was asked for at its branch, however
\* the cart was cleared and made again meanwhile (cart.service.ts:134).
LinesOfOneBranch == \A l \in Live : line[l].cart = cart /\ line[l].branch = branchOf

\* What is put in the cart was for sale as a whole at some moment of the request,
\* though its six queries see six moments of the catalogue (cart.service.ts:58,
\* 84, 99, 121): only when meanwhile something of it was withdrawn and something
\* else granted may an item get in that never was.
AddedWhileSold == unsold = {}

=============================================================================
