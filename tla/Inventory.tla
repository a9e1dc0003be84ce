----------------------------- MODULE Inventory -----------------------------
(***************************************************************************)
(* The stock service (apps/products/services.py) and the two admin pages   *)
(* that drive it (apps/products/admin.py).                                 *)
(*                                                                         *)
(* A stock target is a product without variants or one variant: the        *)
(* service refuses a call that names neither or both, so the two kinds of  *)
(* row are one set, Products.  The InventoryAdjustment table is kept as    *)
(* its sums.  The rows noted "Reserved for" / "Released for" an order are  *)
(* the business of the modules that own orders; every other row, written   *)
(* by staff, is summed per target in `received'.                           *)
(*                                                                         *)
(* Every operator here is one database transaction, or the part of one     *)
(* that touches stock.                                                     *)
(***************************************************************************)
EXTENDS Integers

CONSTANTS
    Products,       \* stock targets: products and product variants
    OpeningStock,   \* units of each target when the store opens
    Deltas,         \* signed amounts staff book in the adjustment form
    MaxStock        \* bound of the model: staff keep no more than this

ASSUME InventoryAssumption ==
    /\ OpeningStock \in [Products -> Nat]
    /\ Deltas \subseteq Int
    /\ MaxStock \in Nat

VARIABLES
    stock,      \* Product.stock_quantity, ProductVariant.stock_quantity
    received    \* sum of the adjustments that belong to no order

inventoryVars == <<stock, received>>

InventoryTypeOK ==
    /\ stock \in [Products -> Nat]
    /\ received \in [Products -> Int]

InventoryInit ==
    /\ stock = OpeningStock
    /\ received = OpeningStock

\* Faulty variant: nothing keeps stock from going negative.
CoversAnything(lines) == DOMAIN lines = Products

\* What an order asks for: units of each target, zero for a target it has no
\* line for.
Covers(lines) == \A p \in Products : stock[p] - lines[p] >= 0

\* The reservation loop of a checkout: adjust_inventory with a negative delta
\* for every line.  A line that would make stock negative raises, and the
\* surrounding transaction takes the earlier lines back with it.
Reserve(lines) ==
    /\ Covers(lines)
    /\ stock' = [p \in Products |-> stock[p] - lines[p]]
    /\ UNCHANGED received

\* release_order_inventory: a positive delta for every line.
Release(lines) ==
    /\ stock' = [p \in Products |-> stock[p] + lines[p]]
    /\ UNCHANGED received

\* adjust_inventory called by staff, with the row it adds to the ledger.
Adjust(p, delta) ==
    /\ delta # 0
    /\ stock[p] + delta >= 0
    /\ stock' = [stock EXCEPT ![p] = @ + delta]
    /\ received' = [received EXCEPT ![p] = @ + delta]

\* InventoryAdjustmentAdmin.save_model: staff book a delta.
BookAdjustment(p, delta) ==
    /\ stock[p] + delta <= MaxStock
    /\ Adjust(p, delta)

\* InventoryTargetAdmin.save_model: staff post an exact quantity, read from a
\* form that may be old, and the difference to the current stock is booked.
SetStock(p, quantity) == Adjust(p, quantity - stock[p])

StaffStock ==
    \E p \in Products :
        \/ \E delta \in Deltas : BookAdjustment(p, delta)
        \/ \E quantity \in 0 .. MaxStock : SetStock(p, quantity)

=============================================================================
