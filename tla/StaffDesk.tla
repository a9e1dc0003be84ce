----------------------------- MODULE StaffDesk -----------------------------
(***************************************************************************)
(* Commerce with the order page of the Django admin as it is: staff open a *)
(* form in one request and post it in another (OrderAdmin in               *)
(* apps/orders/admin.py).  The post writes the status and the payment      *)
(* status shown by the form, edited or not, over whatever the order has    *)
(* become in between: the admin loads the row, sets the posted fields and  *)
(* saves it, and nothing compares the row with what the form showed.       *)
(***************************************************************************)
EXTENDS CommerceProperties

CONSTANT ExcessBound    \* bound of the model, see OpenForm

ASSUME StaffDeskAssumption == ExcessBound \in Nat

VARIABLE
    form        \* the order form a member of staff has open: the order, and the
                \* statuses shown when the page was loaded

deskVars == <<vars, form>>

NoForm == [open |-> FALSE]

DeskInit == Init /\ form = NoForm

\* Every order brought back by an old form can be cancelled again, and each
\* time its units return to the shelf; the bound on units returned in excess
\* is where the model stops following it.
OpenForm(k) ==
    /\ Placed(k)
    /\ \A p \in Products : stock[p] - received[p] <= ExcessBound
    /\ form' = [open |-> TRUE, token |-> k, status |-> order[k], pay |-> paid[k]]
    /\ UNCHANGED vars

\* Faulty variant: staff call an order off from this page, which returns no units.
PostedWithCancel ==
    {<<form.status, form.pay>>, <<"cancelled", form.pay>>} \cup
    {move[2] : move \in {m \in StaffMoves : m[1] = <<form.status, form.pay>>}}

\* What may be posted: the two statuses as shown, for staff who came to fill
\* in a carrier or a tracking number, or a legal move from them.
Posted ==
    {<<form.status, form.pay>>} \cup
    {move[2] : move \in {m \in StaffMoves : m[1] = <<form.status, form.pay>>}}

SaveForm ==
    /\ form # NoForm
    /\ \E new \in Posted :
        /\ order' = [order EXCEPT ![form.token] = new[1]]
        /\ paid' = [paid EXCEPT ![form.token] = new[2]]
    /\ form' = NoForm
    /\ UNCHANGED <<inventoryVars, gatewayVars, terms, requests, paymentVars,
                   active, redeemed, mailed, processVars>>

DeskNext ==
    \/ Next /\ UNCHANGED form
    \/ \E k \in Tokens : OpenForm(k)
    \/ SaveForm

DeskSpec == DeskInit /\ [][DeskNext]_deskVars

-----------------------------------------------------------------------------
(* What old forms may do to the stock *)

\* However old the forms are that staff post, no unit goes missing: what staff
\* put in is on the shelf or in a live order, if not in both, because an order
\* leaves the live ones only with its units and comes back without taking them;
\* it may then be cancelled again, and return more than it took (SaveForm against cancel_order, mark_payment_failed and the sweep).
NoUnitMissing ==
    \A p \in Products :
        stock[p] + SumFunctionOnSet(Units(p), LiveOrders) >= received[p]

=============================================================================
