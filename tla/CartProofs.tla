----------------------------- MODULE CartProofs -----------------------------
(***************************************************************************)
(* Theorems about CartSession, for any browsers, customers, carts, tokens, *)
(* workers and products.                                                   *)
(*                                                                         *)
(* Whose a cart or an order is cannot be read from the sessions alone: a   *)
(* request goes on with the session it has loaded, and writes it back.     *)
(* The invariant of the visits (VisitInv) is about every view of a         *)
(* session, that of a browser and those of the requests under way: a key   *)
(* stands for one customer in one visit, a checkout form is for a cart of  *)
(* the view it is in, and its token never leaves the visit.                *)
(***************************************************************************)
EXTENDS CartSession, TLAPS

\* Rows that are referred to exist.
RowsInv ==
    /\ \A k \in Orders : orders[k] # None => Exists(orders[k].cart)
    /\ \A b \in Browsers :
         session[b].form # None => Exists(session[b].form.cart)
    /\ \A w \in Workers :
         /\ worker[w].at \in {"open", "cart", "sold"} /\ worker[w].seen.form # None =>
              Exists(worker[w].seen.form.cart)
         /\ worker[w].at \in {"cart", "move"} => Exists(worker[w].cart)
         /\ worker[w].at = "sold" => orders[worker[w].order] # None

Base == CartTypeOK /\ RowsInv

-----------------------------------------------------------------------------
(* Types *)

\* What each kind of request under way carries.
LEMMA WorkerShapes ==
    ASSUME CartTypeOK, NEW w \in Workers
    PROVE  /\ worker[w].at = "open" => worker[w] \in Opened
           /\ worker[w].at = "cart" => worker[w] \in Holding
           /\ worker[w].at = "move" => worker[w] \in Moving
           /\ worker[w].at = "sold" => worker[w] \in Sold
BY DEF CartTypeOK, Opened, Holding, Moving, Sold, Idle

\* A request writes a row of its cart, or of a new one, and leaves the owner.
SameOwner(row, old) ==
    /\ row.user = old.user
    /\ row.key = old.key
    /\ row.visit = old.visit
    /\ row.active = old.active

Edits(w) ==
    \E c \in Carts, row \in CartRows :
        /\ carts' = [carts EXCEPT ![c] = row]
        /\ SameOwner(row, IF Exists(c) THEN carts[c] ELSE NewCart(worker[w].seen))
        /\ \/ Exists(c)
           \/ /\ worker[w].at = "open"
              /\ worker[w].seen.user # Guest \/ KeyCarts(worker[w].seen.key) = {}

Rewrites(w) ==
    /\ Edits(w)
    /\ worker' = [worker EXCEPT ![w] = Idle]
    /\ UNCHANGED <<session, drawn, issued, orders>>

\* The requests that change lines do that and nothing else.
LEMMA LineRequests ==
    ASSUME Base, NEW w \in Workers
    PROVE  /\ \A p \in Products, q \in 1 .. MaxQty : AddItem(w, p, q) => Rewrites(w)
           /\ \A p \in Products, q \in 0 .. MaxQty : UpdateItem(w, p, q) => Rewrites(w)
           /\ \A later \in BOOLEAN : MoveLine(w, later) => Rewrites(w)
           /\ \A k \in Orders, c \in Carts : Reorder(w, k, c) => Rewrites(w)
<1> USE CartAssumption
<1>0. CartTypeOK /\ RowsInv
  BY DEF Base
<1>1. ASSUME NEW p \in Products, NEW q \in 1 .. MaxQty, AddItem(w, p, q)
      PROVE Rewrites(w)
  <2>1. worker[w] \in Holding /\ Exists(worker[w].cart)
    BY <1>0, <1>1, WorkerShapes DEF AddItem, RowsInv
  <2>2. carts[worker[w].cart] \in CartRows
    BY <1>0, <2>1 DEF CartTypeOK, Exists, Holding
  <2>3. Currency[p] \in Currencies
    BY DEF Currencies
  <2> DEFINE c == worker[w].cart
  <2> DEFINE joins == Lines(c) = {} /\ worker[w].currency # Currency[p]
  <2> DEFINE row == [carts[c] EXCEPT !.lines[p] = @ + q, !.saved = @ \ {p},
                                     !.currency = IF joins THEN Currency[p] ELSE @]
  <2>4. carts' = [carts EXCEPT ![c] = row]
    BY <1>1 DEF AddItem
  <2>5. row \in CartRows
    <3>1. carts[c].lines[p] + q \in 0 .. MaxQty
      BY <1>1, <2>2 DEF AddItem, CartRows
    <3> HIDE DEF joins
    <3>2. QED
      BY <2>2, <2>3, <3>1 DEF CartRows
  <2>6. c \in Carts /\ Exists(c) /\ worker' = [worker EXCEPT ![w] = Idle]
        /\ UNCHANGED <<session, drawn, issued, orders>>
    BY <1>1, <2>1 DEF AddItem, Holding
  <2>7. SameOwner(row, carts[c])
    BY <2>2 DEF SameOwner, CartRows
  <2> HIDE DEF row, c
  <2>8. QED
    BY <2>4, <2>5, <2>6, <2>7 DEF Rewrites, Edits
<1>2. ASSUME NEW p \in Products, NEW q \in 0 .. MaxQty, UpdateItem(w, p, q)
      PROVE Rewrites(w)
  <2>1. worker[w] \in Holding /\ Exists(worker[w].cart)
    BY <1>0, <1>2, WorkerShapes DEF UpdateItem, RowsInv
  <2>2. carts[worker[w].cart] \in CartRows
    BY <1>0, <2>1 DEF CartTypeOK, Exists, Holding
  <2> DEFINE c == worker[w].cart
  <2> DEFINE row == [carts[c] EXCEPT !.lines[p] = q,
                                     !.saved = IF q = 0 THEN @ \ {p} ELSE @]
  <2>3. carts' = [carts EXCEPT ![c] = row]
    BY <1>2 DEF UpdateItem
  <2>4. row \in CartRows
    BY <2>2 DEF CartRows
  <2>5. c \in Carts /\ Exists(c) /\ worker' = [worker EXCEPT ![w] = Idle]
        /\ UNCHANGED <<session, drawn, issued, orders>>
    BY <1>2, <2>1 DEF UpdateItem, Holding
  <2>6. SameOwner(row, carts[c])
    BY <2>2 DEF SameOwner, CartRows
  <2> HIDE DEF row, c
  <2>7. QED
    BY <2>3, <2>4, <2>5, <2>6 DEF Rewrites, Edits
<1>3. ASSUME NEW later \in BOOLEAN, MoveLine(w, later) PROVE Rewrites(w)
  <2>1. worker[w] \in Moving /\ Exists(worker[w].cart)
    BY <1>0, <1>3, WorkerShapes DEF MoveLine, RowsInv
  <2>2. carts[worker[w].cart] \in CartRows
    BY <1>0, <2>1 DEF CartTypeOK, Exists, Moving
  <2> DEFINE c == worker[w].cart
  <2> DEFINE line == worker[w].product
  <2> DEFINE row == [carts[c] EXCEPT !.lines[line] = worker[w].quantity,
                       !.saved = IF later THEN @ \cup {line} ELSE @ \ {line}]
  <2>3. carts' = [carts EXCEPT ![c] = row]
    BY <1>3 DEF MoveLine
  <2>4. row \in CartRows
    BY <2>1, <2>2 DEF CartRows, Moving
  <2>5. c \in Carts /\ Exists(c) /\ worker' = [worker EXCEPT ![w] = Idle]
        /\ UNCHANGED <<session, drawn, issued, orders>>
    BY <1>3, <2>1 DEF MoveLine, Moving
  <2>6. SameOwner(row, carts[c])
    BY <2>2 DEF SameOwner, CartRows
  <2> HIDE DEF row, c
  <2>7. QED
    BY <2>3, <2>4, <2>5, <2>6 DEF Rewrites, Edits
<1>4. ASSUME NEW k \in Orders, NEW c \in Carts, Reorder(w, k, c) PROVE Rewrites(w)
  <2> DEFINE row == IF Exists(c) THEN carts[c] ELSE NewCart(worker[w].seen)
  <2>1. worker[w] \in Opened
    BY <1>0, <1>4, WorkerShapes DEF Reorder
  <2>2. row \in CartRows
    BY <1>0, <2>1 DEF NewCart, CartRows, Opened, Sessions, Currencies, CartTypeOK, Exists
  <2>3. PICK new \in CartRows :
          carts' = [carts EXCEPT ![c] = new] /\ SameOwner(new, row)
    <3>1. PICK money \in Currencies : carts' = [carts EXCEPT ![c] = [row EXCEPT
              !.lines = [p \in Products |-> row.lines[p] + orders[k].lines[p]],
              !.saved = @ \ {p \in Products : orders[k].lines[p] # 0},
              !.currency = money]]
      BY <1>4 DEF Reorder
    <3>2. orders[k] \in OrderRows
      BY <1>0, <1>4 DEF Reorder, CartTypeOK
    <3>3. \A p \in Products : row.lines[p] + orders[k].lines[p] \in 0 .. MaxQty
      BY <1>4, <2>2, <3>2 DEF Reorder, CartRows, OrderRows
    <3>4. [row EXCEPT
              !.lines = [p \in Products |-> row.lines[p] + orders[k].lines[p]],
              !.saved = @ \ {p \in Products : orders[k].lines[p] # 0},
              !.currency = money] \in CartRows
      BY <2>2, <3>3 DEF CartRows
    <3>5. SameOwner([row EXCEPT
              !.lines = [p \in Products |-> row.lines[p] + orders[k].lines[p]],
              !.saved = @ \ {p \in Products : orders[k].lines[p] # 0},
              !.currency = money], row)
      BY <2>2 DEF SameOwner, CartRows
    <3>6. QED
      BY <3>1, <3>4, <3>5
  <2>4. worker' = [worker EXCEPT ![w] = Idle]
        /\ UNCHANGED <<session, drawn, issued, orders>>
        /\ worker[w].at = "open" /\ worker[w].seen.user # Guest
    BY <1>4 DEF Reorder
  <2>5. QED
    BY <2>3, <2>4 DEF Rewrites, Edits
<1>5. QED
  BY <1>1, <1>2, <1>3, <1>4

\* Rewriting a row keeps the types and the rows referred to.
LEMMA RewritesKeepBase ==
    ASSUME Base, NEW w \in Workers, Rewrites(w)
    PROVE  Base'
BY CartAssumption DEF Rewrites, Edits, Base, CartTypeOK, RowsInv, Exists, Opened, Holding, Moving, Sold, Idle

\* The session of a browser is replaced by one with the same form or none.
LEMMA SessionReplaced ==
    ASSUME Base, NEW b \in Browsers, NEW new \in Sessions, NEW k \in Keys,
           new.form \in {None, session[b].form},
           session' = [session EXCEPT ![b] = new],
           drawn' = drawn \cup {k},
           UNCHANGED <<carts, issued, orders, worker>>
    PROVE  Base'
BY DEF Base, CartTypeOK, RowsInv, Exists, Opened, Holding, Moving, Sold, Idle

\* Every step keeps the types and the rows referred to.
LEMMA StepBase == Base /\ [CartNext]_cartVars => Base'
<1> SUFFICES ASSUME Base, [CartNext]_cartVars PROVE Base'
    OBVIOUS
<1> USE CartAssumption
<1>0. CartTypeOK /\ RowsInv
  BY DEF Base
<1>1. ASSUME NEW w \in Workers, NEW b \in Browsers, Request(w, b) PROVE Base'
  BY <1>0, <1>1 DEF Request, Base, CartTypeOK, RowsInv, Exists, Opened, Holding, Moving, Sold, Idle
<1>2. ASSUME NEW w \in Workers, EndRequest(w) PROVE Base'
  BY <1>0, <1>2 DEF EndRequest, Base, CartTypeOK, RowsInv, Exists, Opened, Holding, Moving, Sold, Idle
<1>3. ASSUME NEW w \in Workers, NEW c \in Carts, FindCart(w, c) PROVE Base'
  <2>1. worker[w] \in Opened
    BY <1>0, <1>3, WorkerShapes DEF FindCart
  <2>2. Exists(c) /\ carts[c] \in CartRows
    BY <1>0, <1>3 DEF FindCart, Newest, UserCarts, KeyCarts, Exists, CartTypeOK
  <2>3. worker' = [worker EXCEPT ![w] =
          [at |-> "cart", from |-> worker[w].from, seen |-> worker[w].seen,
           cart |-> c, currency |-> carts[c].currency]]
    BY <1>3 DEF FindCart, Hold
  <2>4. QED
    BY <1>0, <1>3, <2>1, <2>2, <2>3
    DEF FindCart, Base, CartTypeOK, RowsInv, Exists, Opened, Holding, Moving, Sold, Idle, CartRows
<1>4. ASSUME NEW w \in Workers, NEW c \in Carts, CreateCart(w, c) PROVE Base'
  <2>1. worker[w] \in Opened
    BY <1>0, <1>4, WorkerShapes DEF CreateCart
  <2>2. NewCart(worker[w].seen) \in CartRows
    BY <2>1 DEF NewCart, CartRows, Opened, Sessions, Currencies
  <2>3. carts' = [carts EXCEPT ![c] = NewCart(worker[w].seen)]
    BY <1>4 DEF CreateCart
  <2>4. worker' = [worker EXCEPT ![w] =
          [at |-> "cart", from |-> worker[w].from, seen |-> worker[w].seen,
           cart |-> c, currency |-> NewCart(worker[w].seen).currency]]
    BY <1>0, <1>4, <2>3 DEF CreateCart, Hold, CartTypeOK
  <2> HIDE DEF NewCart
  <2>5. QED
    BY <1>0, <1>4, <2>1, <2>2, <2>3, <2>4
    DEF CreateCart, Base, CartTypeOK, RowsInv, Exists, Opened, Holding, Moving, Sold, Idle, CartRows
<1>5. ASSUME NEW w \in Workers, Rewrites(w) PROVE Base'
  BY <1>5, RewritesKeepBase
<1>6. ASSUME NEW w \in Workers, NEW p \in Products, ReadLine(w, p) PROVE Base'
  <2>1. worker[w] \in Holding /\ Exists(worker[w].cart)
    BY <1>0, <1>6, WorkerShapes DEF ReadLine, RowsInv
  <2>2. carts[worker[w].cart] \in CartRows
    BY <1>0, <2>1 DEF CartTypeOK, Exists, Holding
  <2>3. QED
    BY <1>0, <1>6, <2>1, <2>2 DEF ReadLine, Base, CartTypeOK, RowsInv, Exists, Opened, Holding, Moving, Sold, Idle, CartRows
<1>7. ASSUME NEW w \in Workers, NEW k \in Orders, ShowForm(w, k) PROVE Base'
  <2>1. worker[w] \in Holding /\ Exists(worker[w].cart)
    BY <1>0, <1>7, WorkerShapes DEF ShowForm, RowsInv
  <2>2. QED
    BY <1>0, <1>7, <2>1
    DEF ShowForm, SaveSession, Sessions, Forms, CheckoutForms, Base, CartTypeOK, RowsInv, Exists, Opened, Holding, Moving, Sold, Idle
<1>8. ASSUME NEW w \in Workers, Checkout(w) PROVE Base'
  <2> DEFINE k == worker[w].seen.form.order
  <2> DEFINE c == worker[w].seen.form.cart
  <2>1. worker[w] \in Opened /\ Exists(c) /\ k \in Orders /\ c \in Carts
    BY <1>0, <1>8, WorkerShapes DEF Checkout, RowsInv, Opened, Sessions, Forms, CheckoutForms
  <2>2. carts[c] \in CartRows
    BY <1>0, <2>1 DEF CartTypeOK, Exists
  <2>3. CASE orders[k] # None
    <3>1. UNCHANGED <<session, drawn, carts, issued, orders>>
          /\ worker' = [worker EXCEPT ![w] = [at |-> "sold", from |-> worker[w].from,
                                          seen |-> worker[w].seen, order |-> k]]
          /\ worker[w].at = "open" /\ worker[w].seen.form # None
      BY <1>8, <2>3 DEF Checkout
    <3> HIDE DEF k, c
    <3>2. QED
      BY <1>0, <2>1, <2>3, <3>1 DEF Base, CartTypeOK, RowsInv, Exists, Opened, Holding, Moving, Sold, Idle
  <2>4. CASE orders[k] = None
    <3> DEFINE row == [cart |-> c, user |-> worker[w].seen.user,
               visit |-> worker[w].seen.visit, live |-> TRUE,
               lines |-> [p \in Products |->
                             IF p \in ForSale(c) THEN carts[c].lines[p] ELSE 0]]
    <3> DEFINE closed == [carts[c] EXCEPT !.active = FALSE]
    <3>1. row \in OrderRows /\ closed \in CartRows
      <4>1. worker[w].seen \in Sessions
        BY <2>1 DEF Opened
      <4>2. \A p \in Products : carts[c].lines[p] \in 0 .. MaxQty
        BY <2>2 DEF CartRows
      <4>3. row.lines \in [Products -> 0 .. MaxQty]
        BY <4>2, CartAssumption
      <4>4. row \in OrderRows
        BY <2>1, <4>1, <4>3 DEF OrderRows, Sessions
      <4>5. closed \in CartRows
        BY <2>2 DEF CartRows
      <4>6. QED
        BY <4>4, <4>5
    <3>2. orders' = [orders EXCEPT ![k] = row] /\ carts' = [carts EXCEPT ![c] = closed]
          /\ row.cart = c
      BY <1>8, <2>4 DEF Checkout
    <3>3. worker' = [worker EXCEPT ![w] = [at |-> "sold", from |-> worker[w].from,
                                          seen |-> worker[w].seen, order |-> k]]
          /\ UNCHANGED <<session, drawn, issued>>
          /\ worker[w].at = "open" /\ worker[w].seen.form # None
      BY <1>8 DEF Checkout
    <3> HIDE DEF row, closed, k, c
    <3>4. QED
      BY <1>0, <2>1, <2>4, <3>1, <3>2, <3>3 DEF Base, CartTypeOK, RowsInv, Exists, Opened, Holding, Moving, Sold, Idle
  <2>5. QED
    BY <2>3, <2>4
<1>9. ASSUME NEW w \in Workers, FinishCheckout(w) PROVE Base'
  <2>1. worker[w] \in Sold
    BY <1>0, <1>9, WorkerShapes DEF FinishCheckout
  <2>2. QED
    BY <1>0, <1>9, <2>1
    DEF FinishCheckout, SaveSession, Sessions, Forms, CheckoutForms, Base, CartTypeOK, RowsInv, Exists, Opened, Holding, Moving, Sold, Idle
<1>10. ASSUME NEW k \in Orders, PaymentFails(k) PROVE Base'
  <2>1. orders[k] \in OrderRows /\ Exists(orders[k].cart)
    BY <1>0, <1>10 DEF PaymentFails, CartTypeOK, RowsInv
  <2>2. carts[orders[k].cart] \in CartRows
    BY <1>0, <2>1 DEF CartTypeOK, Exists, OrderRows
  <2> DEFINE c == orders[k].cart
  <2> DEFINE row == [orders[k] EXCEPT !.live = FALSE]
  <2> DEFINE open == [carts[c] EXCEPT !.active = TRUE]
  <2>3. row \in OrderRows /\ row.cart = c /\ open \in CartRows /\ c \in Carts
    BY <2>1, <2>2 DEF OrderRows, CartRows
  <2>4. orders' = [orders EXCEPT ![k] = row] /\ carts' = [carts EXCEPT ![c] = open]
        /\ UNCHANGED <<session, drawn, issued, worker>>
    BY <1>10 DEF PaymentFails
  <2> HIDE DEF row, open, c
  <2>5. QED
    BY <1>0, <2>1, <2>3, <2>4 DEF Base, CartTypeOK, RowsInv, Exists, Opened, Holding, Moving, Sold, Idle
<1>11. ASSUME NEW b \in Browsers, NEW k \in Keys, FirstFactor(b, k) \/ SignOut(b, k)
       PROVE Base'
  <2>1. session[b] \in Sessions
    BY <1>0 DEF CartTypeOK
  <2>2. NewSession(k) \in Sessions /\ NewSession(k).form = None
    BY DEF NewSession, Sessions, Forms, Buyers
  <2>3. CASE FirstFactor(b, k)
    <3>1. [session[b] EXCEPT !.key = k] \in Sessions
      BY <2>1 DEF Sessions
    <3>2. [session[b] EXCEPT !.key = k].form = session[b].form
      BY <2>1 DEF Sessions
    <3>3. QED
      BY <2>3, <3>1, <3>2, SessionReplaced DEF FirstFactor
  <2>4. CASE SignOut(b, k)
    BY <2>2, <2>4, SessionReplaced DEF SignOut
  <2>5. QED
    BY <1>11, <2>3, <2>4
<1>12. ASSUME NEW b \in Browsers, NEW k \in Keys, NEW u \in Users, SignIn(b, u, k) PROVE Base'
  <2> DEFINE kept == [session[b] EXCEPT !.key = k, !.user = u]
  <2> DEFINE fresh == [NewSession(k) EXCEPT !.user = u]
  <2>1. session[b] \in Sessions
    BY <1>0 DEF CartTypeOK
  <2>2. kept \in Sessions /\ kept.form = session[b].form
    BY <2>1 DEF Sessions, Buyers
  <2>3. fresh \in Sessions /\ fresh.form = None
    BY DEF NewSession, Sessions, Forms, Buyers
  <2>4. session' = [session EXCEPT ![b] = IF session[b].user = Guest THEN kept ELSE fresh]
        /\ drawn' = drawn \cup {k}
        /\ UNCHANGED <<carts, recent, issued, orders, worker>>
    BY <1>12 DEF SignIn
  <2> HIDE DEF kept, fresh
  <2>5. QED
    BY <2>2, <2>3, <2>4, SessionReplaced
<1>13. CASE UNCHANGED cartVars
  BY <1>0, <1>13 DEF cartVars, Base, CartTypeOK, RowsInv, Exists, Opened, Holding, Moving, Sold, Idle
<1>14. QED
  BY <1>1, <1>2, <1>3, <1>4, <1>5, <1>6, <1>7, <1>8, <1>9, <1>10, <1>11, <1>12, <1>13,
     LineRequests DEF CartNext

\* Types and rows at the start.
LEMMA CartInitBase == CartInit => Base
<1> SUFFICES ASSUME CartInit PROVE Base
    OBVIOUS
<1>1. \A k \in Keys : NewSession(k) \in Sessions /\ NewSession(k).form = None
  BY DEF NewSession, Sessions, Forms, Buyers
<1>2. session \in [Browsers -> Sessions] /\ \A b \in Browsers : session[b].form = None
  BY <1>1 DEF CartInit
<1>3. drawn \subseteq Keys
  BY <1>2 DEF CartInit, Sessions
<1>4. QED
  BY <1>2, <1>3 DEF CartInit, Base, CartTypeOK, RowsInv, Idle

\* The variables of CartSession keep their types in every reachable state, and
\* no line of a cart or an order has more units than were in stock.
THEOREM CartTypeCorrect == CartSpec => []CartTypeOK
<1>1. CartInit => Base
  BY CartInitBase
<1>2. Base => CartTypeOK
  BY DEF Base
<1>3. QED
  BY <1>1, <1>2, StepBase, PTL DEF CartSpec

-----------------------------------------------------------------------------
(* Closed carts *)

Live(k) == orders[k] # None /\ orders[k].live

\* Writing a row of a cart that leaves it open or closed, or makes a new open
\* one, does not disturb the carts that are closed for an order.
LEMMA EditsKeepClosed ==
    ASSUME Base, ClosedForOneOrder, UNCHANGED orders,
           NEW c \in Carts, NEW row \in CartRows,
           carts' = [carts EXCEPT ![c] = row],
           Exists(c) => row.active = carts[c].active,
           ~Exists(c) => row.active
    PROVE  ClosedForOneOrder'
<1>1. carts \in [Carts -> CartRows \cup {None}]
      /\ \A k \in Orders : orders[k] # None => Exists(orders[k].cart)
  BY DEF Base, CartTypeOK, RowsInv
<1>2. \A k, j \in Orders :
        orders'[k] # None /\ orders'[k].live /\ orders'[j] # None /\ orders'[j].live
            /\ orders'[k].cart = orders'[j].cart => k = j
  BY DEF ClosedForOneOrder
<1>3. ASSUME NEW d \in Carts, Exists(d)'
      PROVE ~carts'[d].active <=> \E k \in Orders :
              orders'[k] # None /\ orders'[k].live /\ orders'[k].cart = d
  <2>1. CASE Exists(d)
    <3>1. carts'[d].active = carts[d].active
      BY <1>1, <2>1
    <3>2. QED
      BY <2>1, <3>1 DEF ClosedForOneOrder
  <2>2. CASE ~Exists(d)
    <3>1. d = c /\ carts'[d].active
      BY <1>1, <1>3, <2>2 DEF Exists
    <3>2. QED
      BY <1>1, <2>2, <3>1
  <2>3. QED
    BY <2>1, <2>2
<1>4. QED
  BY <1>2, <1>3 DEF ClosedForOneOrder

\* Every step keeps each closed cart with its one live order.
LEMMA StepClosed == Base /\ ClosedForOneOrder /\ [CartNext]_cartVars => ClosedForOneOrder'
<1> SUFFICES ASSUME Base, ClosedForOneOrder, [CartNext]_cartVars
             PROVE  ClosedForOneOrder'
    OBVIOUS
<1>0. CartTypeOK /\ RowsInv
  BY DEF Base
<1>1. ASSUME UNCHANGED <<carts, orders>> PROVE ClosedForOneOrder'
  BY <1>1 DEF ClosedForOneOrder, Exists
<1>2. ASSUME NEW w \in Workers, Rewrites(w) PROVE ClosedForOneOrder'
  <2>1. PICK c \in Carts, row \in CartRows :
          /\ carts' = [carts EXCEPT ![c] = row]
          /\ SameOwner(row, IF Exists(c) THEN carts[c] ELSE NewCart(worker[w].seen))
    BY <1>2 DEF Rewrites, Edits
  <2>2. /\ Exists(c) => row.active = carts[c].active
        /\ ~Exists(c) => row.active
    BY <2>1 DEF SameOwner, NewCart
  <2>3. UNCHANGED orders
    BY <1>2 DEF Rewrites
  <2>4. QED
    BY <2>1, <2>2, <2>3, EditsKeepClosed
<1>3. ASSUME NEW w \in Workers, NEW c \in Carts, CreateCart(w, c)
      PROVE ClosedForOneOrder'
  <2>1. worker[w] \in Opened
    BY <1>0, <1>3, WorkerShapes DEF CreateCart
  <2>2. NewCart(worker[w].seen) \in CartRows /\ NewCart(worker[w].seen).active
    BY <2>1, CartAssumption DEF NewCart, CartRows, Opened, Sessions, Currencies
  <2>3. QED
    BY <1>3, <2>2, EditsKeepClosed DEF CreateCart
<1>4. ASSUME NEW w \in Workers, Checkout(w) PROVE ClosedForOneOrder'
  <2> DEFINE k == worker[w].seen.form.order
  <2> DEFINE c == worker[w].seen.form.cart
  <2>1. worker[w] \in Opened /\ Exists(c) /\ k \in Orders /\ c \in Carts
    BY <1>0, <1>4, WorkerShapes DEF Checkout, RowsInv, Opened, Sessions, Forms, CheckoutForms
  <2>2. CASE orders[k] # None
    BY <1>1, <1>4, <2>2 DEF Checkout
  <2>3. CASE orders[k] = None
    <3> DEFINE row == [cart |-> c, user |-> worker[w].seen.user,
               visit |-> worker[w].seen.visit, live |-> TRUE,
               lines |-> [p \in Products |->
                             IF p \in ForSale(c) THEN carts[c].lines[p] ELSE 0]]
    <3>0. row \in OrderRows
      <4>1. worker[w].seen \in Sessions
        BY <2>1 DEF Opened
      <4>2. \A p \in Products : carts[c].lines[p] \in 0 .. MaxQty
        BY <1>0, <2>1 DEF CartTypeOK, Exists, CartRows
      <4>3. row.lines \in [Products -> 0 .. MaxQty]
        BY <4>2, CartAssumption
      <4>4. QED
        BY <2>1, <4>1, <4>3 DEF OrderRows, Sessions
    <3>1. /\ orders' = [orders EXCEPT ![k] = row]
          /\ carts' = [carts EXCEPT ![c].active = FALSE]
          /\ carts[c].active
          /\ row.cart = c /\ row.live
      BY <1>4, <2>3 DEF Checkout
    <3> HIDE DEF row, k, c
    <3>2. orders'[k] # None
      BY <1>0, <2>1, <3>0, <3>1, CartAssumption DEF CartTypeOK
    <3>3. \A j \in Orders : j # k => orders'[j] = orders[j]
      BY <1>0, <3>1 DEF CartTypeOK
    <3>4. orders'[k].cart = c /\ orders'[k].live
      BY <1>0, <2>1, <3>1 DEF CartTypeOK
    <3>5. \A j \in Orders : ~(Live(j) /\ orders[j].cart = c)
      BY <2>1, <3>1 DEF ClosedForOneOrder, Live
    <3>6. \A d \in Carts : d # c => carts'[d] = carts[d]
      BY <1>0, <3>1 DEF CartTypeOK
    <3>7. ~carts'[c].active
      BY <1>0, <2>1, <3>1 DEF CartTypeOK, CartRows, Exists
    <3>8. \A i, j \in Orders :
            orders'[i] # None /\ orders'[i].live /\ orders'[j] # None /\ orders'[j].live
                /\ orders'[i].cart = orders'[j].cart => i = j
      BY <3>3, <3>4, <3>5 DEF ClosedForOneOrder, Live
    <3>9. ASSUME NEW d \in Carts, Exists(d)'
          PROVE ~carts'[d].active <=> \E j \in Orders :
                  orders'[j] # None /\ orders'[j].live /\ orders'[j].cart = d
      <4>1. CASE d = c
        BY <2>1, <3>2, <3>4, <3>7, <4>1
      <4>2. CASE d # c
        BY <2>1, <2>3, <3>3, <3>4, <3>6, <3>9, <4>2 DEF ClosedForOneOrder, Exists
      <4>3. QED
        BY <4>1, <4>2
    <3>10. QED
      BY <3>8, <3>9 DEF ClosedForOneOrder
  <2>4. QED
    BY <2>2, <2>3
<1>5. ASSUME NEW k \in Orders, PaymentFails(k) PROVE ClosedForOneOrder'
  <2> DEFINE c == orders[k].cart
  <2>1. orders[k] \in OrderRows /\ c \in Carts /\ Exists(c) /\ Live(k)
    BY <1>0, <1>5 DEF PaymentFails, CartTypeOK, RowsInv, OrderRows, Live
  <2>2. /\ orders' = [orders EXCEPT ![k].live = FALSE]
        /\ carts' = [carts EXCEPT ![c].active = TRUE]
    BY <1>5 DEF PaymentFails
  <2> HIDE DEF c
  <2>3. /\ \A j \in Orders : j # k => orders'[j] = orders[j]
        /\ ~orders'[k].live
    BY <1>0, <2>1, <2>2 DEF CartTypeOK, OrderRows
  <2>4. /\ \A d \in Carts : d # c => carts'[d] = carts[d]
        /\ carts'[c].active
    BY <1>0, <2>1, <2>2 DEF CartTypeOK, CartRows, Exists
  <2>5. \A j \in Orders : Live(j) /\ orders[j].cart = c => j = k
    BY <2>1 DEF ClosedForOneOrder, Live, c
  <2>6. \A i, j \in Orders :
          orders'[i] # None /\ orders'[i].live /\ orders'[j] # None /\ orders'[j].live
              /\ orders'[i].cart = orders'[j].cart => i = j
    BY <2>3 DEF ClosedForOneOrder
  <2>7. ASSUME NEW d \in Carts, Exists(d)'
        PROVE ~carts'[d].active <=> \E j \in Orders :
                orders'[j] # None /\ orders'[j].live /\ orders'[j].cart = d
    <3>1. CASE d = c
      BY <2>3, <2>4, <2>5, <3>1 DEF Live
    <3>2. CASE d # c
      BY <2>1, <2>3, <2>4, <2>7, <3>2 DEF ClosedForOneOrder, Exists, c
    <3>3. QED
      BY <3>1, <3>2
  <2>8. QED
    BY <2>6, <2>7 DEF ClosedForOneOrder
<1>6. CASE UNCHANGED cartVars
  BY <1>1, <1>6 DEF cartVars
<1>7. QED
  BY <1>0, <1>1, <1>2, <1>3, <1>4, <1>5, <1>6, LineRequests
  DEF Base, CartNext, Request, EndRequest, FindCart, ReadLine, ShowForm, FinishCheckout,
      FirstFactor, SignOut, SignIn

\* A cart is closed exactly while one order on it is live: a checkout form can
\* be sent twice and a payment can fail at any time, and no cart is sold twice
\* or lost.
THEOREM CartsClosedForOneOrder == CartSpec => []ClosedForOneOrder
<1>1. CartInit => Base
  BY CartInitBase
<1>2. CartInit => ClosedForOneOrder
  BY DEF CartInit, ClosedForOneOrder, Exists
<1>3. QED
  BY <1>1, <1>2, StepBase, StepClosed, PTL DEF CartSpec

-----------------------------------------------------------------------------
(* Visits *)

\* A browser's session, and what requests under way have loaded of one.
Seeing == {w \in Workers : worker[w].at \in {"open", "cart", "sold"}}
Views == {session[b] : b \in Browsers} \cup {worker[w].seen : w \in Seeing}

\* A cart that belongs to a customer or to the visit of a guest.
Own(c, user, visit) ==
    IF carts[c].user = Guest THEN carts[c].visit = visit ELSE carts[c].user = user

\* The keys and visits there are were drawn, and a key stands for one customer
\* (or a stranger) in one visit.
KeysInv ==
    /\ \A x \in Views : x.key \in drawn /\ x.visit \in drawn
    /\ \A x, y \in Views : x.key = y.key => x.user = y.user /\ x.visit = y.visit
    /\ \A a, b \in Browsers : session[a].visit = session[b].visit => a = b

\* A key on a cart is that of a stranger, in the visit the cart is from.
CartKeysInv ==
    /\ \A c \in Carts : Exists(c) /\ carts[c].key # None =>
         carts[c].key \in drawn /\ carts[c].user = Guest
    /\ \A x \in Views : \A c \in KeyCarts(x.key) : x.user = Guest /\ carts[c].visit = x.visit

\* Whatever a request sells or holds is its own, and a token stays in its visit.
FormsInv ==
    /\ \A x \in Views : x.form # None =>
         /\ x.form.order \in issued
         /\ Own(x.form.cart, x.user, x.visit)
         /\ orders[x.form.order] # None => orders[x.form.order].visit = x.visit
    /\ \A x, y \in Views :
         x.form # None /\ y.form # None /\ x.form.order = y.form.order => x.visit = y.visit
    /\ \A w \in Workers :
         /\ worker[w].at = "cart" =>
              Own(worker[w].cart, worker[w].seen.user, worker[w].seen.visit)
         /\ worker[w].at = "sold" => orders[worker[w].order].visit = worker[w].seen.visit

\* A visit in which somebody signed in, or bought, is no stranger's any more.
SignedIn(user, visit) ==
    user # Guest => \A b \in Browsers : session[b].visit = visit => session[b].user # Guest
VisitsInv ==
    /\ \A x \in Views : SignedIn(x.user, x.visit)
    /\ \A k \in Orders : orders[k] # None =>
         /\ k \in issued
         /\ orders[k].visit \in drawn
         /\ SignedIn(orders[k].user, orders[k].visit)

\* The orders a session notes were placed by a guest in its visit.
NotedInv ==
    \A x \in Views : \A k \in x.orders :
        orders[k] # None /\ orders[k].user = Guest /\ orders[k].visit = x.visit

VisitInv == KeysInv /\ CartKeysInv /\ FormsInv /\ VisitsInv /\ NotedInv /\ OrdersSellOwnCarts

\* Views are sessions; those of a browser and of a request are among them.
LEMMA ViewsAre ==
    ASSUME CartTypeOK
    PROVE  /\ Views \subseteq Sessions
           /\ \A b \in Browsers : session[b] \in Views /\ session[b] \in Sessions
           /\ \A w \in Seeing : worker[w].seen \in Views
<1>1. \A w \in Seeing : worker[w].seen \in Sessions
  BY WorkerShapes DEF Seeing, Opened, Holding, Sold
<1>2. QED
  BY <1>1 DEF CartTypeOK, Views

\* The cart of a form, and that of a request, exist.
LEMMA FormCarts ==
    ASSUME Base, NEW x \in Views, x.form # None
    PROVE  x.form.cart \in Carts /\ x.form.order \in Orders /\ Exists(x.form.cart)
<1>1. x \in Sessions
  BY ViewsAre DEF Base
<1>2. x.form.cart \in Carts /\ x.form.order \in Orders
  BY <1>1 DEF Sessions, Forms, CheckoutForms
<1>3. Exists(x.form.cart)
  BY DEF Base, RowsInv, Views, Seeing
<1>4. QED
  BY <1>2, <1>3

\* A step that leaves the sessions alone keeps the invariant, if carts keep
\* their owners, and new carts and orders are those of a session in view.
LEMMA TablesStep ==
    ASSUME Base, VisitInv, UNCHANGED <<session, drawn, issued>>, Views' \subseteq Views,
           \A c \in Carts : Exists(c) =>
               /\ Exists(c)'
               /\ carts'[c].user = carts[c].user
               /\ carts'[c].key = carts[c].key
               /\ carts'[c].visit = carts[c].visit,
           \A c \in Carts : ~Exists(c) /\ Exists(c)' =>
               \/ carts'[c].key = None
               \/ \E x \in Views :
                    /\ x.user = Guest /\ carts'[c].user = Guest
                    /\ carts'[c].key = x.key /\ carts'[c].visit = x.visit,
           \A k \in Orders : orders[k] # None =>
               /\ orders'[k] # None
               /\ orders'[k].cart = orders[k].cart
               /\ orders'[k].user = orders[k].user
               /\ orders'[k].visit = orders[k].visit,
           \A k \in Orders : orders[k] = None /\ orders'[k] # None =>
               \E x \in Views :
                    /\ x.form # None /\ x.form.order = k
                    /\ orders'[k].cart = x.form.cart
                    /\ orders'[k].user = x.user /\ orders'[k].visit = x.visit,
           \A w \in Workers :
               /\ worker'[w].at = "cart" =>
                    Own(worker[w].cart, worker[w].seen.user, worker[w].seen.visit)'
               /\ worker'[w].at = "sold" =>
                    orders'[worker'[w].order].visit = worker'[w].seen.visit
    PROVE  VisitInv'
<1> USE DEF VisitInv
<1>1. Views \subseteq Sessions
  BY ViewsAre DEF Base
<1>2. ASSUME NEW c \in Carts, Exists(c), NEW user, NEW visit, Own(c, user, visit)
      PROVE  Own(c, user, visit)'
  BY <1>2 DEF Own
<1>3. KeysInv'
  BY DEF KeysInv
<1>4. CartKeysInv'
  <2>1. ASSUME NEW c \in Carts, Exists(c)', carts'[c].key # None
        PROVE  carts'[c].key \in drawn' /\ carts'[c].user = Guest
    <3>1. CASE Exists(c)
      BY <2>1, <3>1 DEF CartKeysInv
    <3>2. CASE ~Exists(c)
      BY <2>1, <3>2 DEF KeysInv
    <3>3. QED
      BY <3>1, <3>2
  <2>2. ASSUME NEW x \in Views', NEW c \in KeyCarts(x.key)'
        PROVE  x.user = Guest /\ carts'[c].visit = x.visit
    <3>1. x \in Views /\ c \in Carts /\ Exists(c)' /\ carts'[c].key = x.key /\ x.key # None
      BY <1>1, <2>2, CartAssumption DEF KeyCarts, Sessions
    <3>2. CASE Exists(c)
      BY <3>1, <3>2 DEF CartKeysInv, KeyCarts
    <3>3. CASE ~Exists(c)
      BY <3>1, <3>3 DEF KeysInv
    <3>4. QED
      BY <3>2, <3>3
  <2>3. QED
    BY <2>1, <2>2 DEF CartKeysInv
<1>5. FormsInv'
  <2>1. ASSUME NEW x \in Views, x.form # None
        PROVE  /\ x.form.order \in issued
               /\ Own(x.form.cart, x.user, x.visit)'
               /\ orders'[x.form.order] # None => orders'[x.form.order].visit = x.visit
    <3>1. x.form.cart \in Carts /\ x.form.order \in Orders /\ Exists(x.form.cart)
      BY <2>1, FormCarts
    <3>2. Own(x.form.cart, x.user, x.visit)'
      BY <1>2, <2>1, <3>1 DEF FormsInv
    <3>3. ASSUME orders'[x.form.order] # None PROVE orders'[x.form.order].visit = x.visit
      <4>1. CASE orders[x.form.order] # None
        BY <2>1, <3>1, <4>1 DEF FormsInv
      <4>2. CASE orders[x.form.order] = None
        BY <2>1, <3>1, <3>3, <4>2 DEF FormsInv
      <4>3. QED
        BY <4>1, <4>2
    <3>4. QED
      BY <2>1, <3>2, <3>3 DEF FormsInv
  <2>2. \A x, y \in Views' :
         x.form # None /\ y.form # None /\ x.form.order = y.form.order => x.visit = y.visit
    BY DEF FormsInv
  <2>3. QED
    BY <2>1, <2>2 DEF FormsInv
<1>6. VisitsInv'
  <2>1. \A user, visit : SignedIn(user, visit) => SignedIn(user, visit)'
    BY DEF SignedIn
  <2>2. ASSUME NEW k \in Orders, orders'[k] # None
        PROVE  /\ k \in issued
               /\ orders'[k].visit \in drawn
               /\ SignedIn(orders'[k].user, orders'[k].visit)
    <3>1. CASE orders[k] # None
      BY <3>1 DEF VisitsInv
    <3>2. CASE orders[k] = None
      BY <2>2, <3>2 DEF VisitsInv, FormsInv, KeysInv
    <3>3. QED
      BY <3>1, <3>2
  <2>3. QED
    BY <2>1, <2>2 DEF VisitsInv, SignedIn
<1>7. NotedInv'
  <2>1. \A x \in Views : \A k \in x.orders : k \in Orders
    BY <1>1 DEF Sessions
  <2>2. QED
    BY <2>1 DEF NotedInv
<1>8. OrdersSellOwnCarts'
  <2> SUFFICES ASSUME NEW k \in Orders, orders'[k] # None
               PROVE  Own(orders[k].cart, orders[k].user, orders[k].visit)'
      BY DEF OrdersSellOwnCarts, Own
  <2>1. CASE orders[k] # None
    <3>1. Own(orders[k].cart, orders[k].user, orders[k].visit)
      BY <2>1 DEF OrdersSellOwnCarts, Own
    <3>2. Exists(orders[k].cart) /\ orders[k].cart \in Carts
      BY <2>1 DEF Base, RowsInv, CartTypeOK, OrderRows
    <3>3. QED
      BY <1>2, <2>1, <3>1, <3>2 DEF Own
  <2>2. CASE orders[k] = None
    <3>1. PICK x \in Views :
                    /\ x.form # None /\ x.form.order = k
                    /\ orders'[k].cart = x.form.cart
                    /\ orders'[k].user = x.user /\ orders'[k].visit = x.visit
      BY <2>2
    <3>2. Own(x.form.cart, x.user, x.visit)'
      BY <1>2, <3>1, FormCarts DEF FormsInv
    <3>3. QED
      BY <3>1, <3>2 DEF Own
  <2>3. QED
    BY <2>1, <2>2
<1>9. QED
  BY <1>3, <1>4, <1>5, <1>6, <1>7, <1>8

\* A step that replaces a browser's session keeps the invariant, if it keeps
\* the key with its customer and visit, or draws a new one for the same
\* stranger or for a new visit.
LEMMA SessionStep ==
    ASSUME Base, VisitInv, NEW b \in Browsers, NEW new \in Sessions,
           session' = [session EXCEPT ![b] = new],
           UNCHANGED <<carts, orders>>,
           drawn \subseteq drawn', issued \subseteq issued',
           \A w \in Workers : worker'[w] = worker[w] \/ worker'[w] = Idle,
           new.key \in drawn', new.visit \in drawn',
           \/ new.key = session[b].key /\ new.user = session[b].user /\ new.visit = session[b].visit
           \/ /\ new.key \notin drawn
              /\ \/ new.visit = session[b].visit /\ session[b].user \in {Guest, new.user}
                 \/ new.visit \notin drawn,
           new.form # None =>
              /\ new.form.order \in issued'
              /\ Own(new.form.cart, new.user, new.visit)
              /\ orders[new.form.order] # None => orders[new.form.order].visit = new.visit
              /\ \A y \in Views : y.form # None /\ y.form.order = new.form.order =>
                    y.visit = new.visit,
           \A k \in new.orders :
              orders[k] # None /\ orders[k].user = Guest /\ orders[k].visit = new.visit
    PROVE  VisitInv'
<1> USE DEF VisitInv
<1>1. /\ Views' \subseteq Views \cup {new}
      /\ \A a \in Browsers : session'[a] = IF a = b THEN new ELSE session[a]
      /\ session[b] \in Views
  <2>1. \A a \in Browsers : session'[a] = IF a = b THEN new ELSE session[a]
    BY DEF Base, CartTypeOK
  <2>2. \A w \in Workers : worker'[w].at \in {"open", "cart", "sold"} => worker'[w] = worker[w]
    BY DEF Idle
  <2>3. QED
    BY <2>1, <2>2 DEF Views, Seeing
<1>2. KeysInv'
  <2>1. \A x \in Views : x.key = new.key => x.user = new.user /\ x.visit = new.visit
    BY <1>1 DEF KeysInv
  <2>2. \A a \in Browsers : a # b => session[a].visit # new.visit
    BY <1>1, ViewsAre DEF KeysInv, Base
  <2>3. QED
    BY <1>1, <2>1, <2>2 DEF KeysInv
<1>3. CartKeysInv'
  <2>1. \A x : KeyCarts(x)' = KeyCarts(x)
    BY DEF KeyCarts, Exists
  <2>2. \A c \in KeyCarts(new.key) : new.user = Guest /\ carts[c].visit = new.visit
    <3> SUFFICES ASSUME NEW c \in KeyCarts(new.key)
                 PROVE  new.user = Guest /\ carts[c].visit = new.visit
        OBVIOUS
    <3>1. carts[c].key \in drawn
      BY CartAssumption DEF CartKeysInv, KeyCarts, Sessions
    <3>2. QED
      BY <1>1, <3>1 DEF CartKeysInv, KeyCarts
  <2>3. QED
    BY <1>1, <2>1, <2>2 DEF CartKeysInv, Exists
<1>4. FormsInv'
  <2>1. \A c, user, visit : Own(c, user, visit)' <=> Own(c, user, visit)
    BY DEF Own
  <2>2. \A x \in Views \cup {new} : x.form # None =>
         /\ x.form.order \in issued'
         /\ Own(x.form.cart, x.user, x.visit)
         /\ orders[x.form.order] # None => orders[x.form.order].visit = x.visit
    BY DEF FormsInv
  <2>3. \A x, y \in Views \cup {new} :
         x.form # None /\ y.form # None /\ x.form.order = y.form.order => x.visit = y.visit
    BY DEF FormsInv
  <2>4. ASSUME NEW w \in Workers
        PROVE  /\ worker'[w].at = "cart" =>
                    Own(worker'[w].cart, worker'[w].seen.user, worker'[w].seen.visit)
               /\ worker'[w].at = "sold" => orders[worker'[w].order].visit = worker'[w].seen.visit
    BY DEF FormsInv, Idle
  <2>5. QED
    BY <1>1, <2>1, <2>2, <2>3, <2>4 DEF FormsInv, Own
<1>5. VisitsInv'
  <2>1. ASSUME NEW user, NEW visit \in drawn, SignedIn(user, visit) PROVE SignedIn(user, visit)'
    BY <1>1, <2>1 DEF SignedIn
  <2>2. SignedIn(new.user, new.visit)'
    BY <1>1, ViewsAre DEF SignedIn, KeysInv, Base
  <2>3. \A x \in Views : SignedIn(x.user, x.visit)'
    BY <2>1 DEF VisitsInv, KeysInv
  <2>4. \A k \in Orders : orders[k] # None =>
          k \in issued /\ orders[k].visit \in drawn /\ SignedIn(orders[k].user, orders[k].visit)'
    BY <2>1 DEF VisitsInv
  <2>5. QED
    BY <1>1, <2>2, <2>3, <2>4 DEF VisitsInv, SignedIn
<1>6. NotedInv'
  BY <1>1 DEF NotedInv
<1>7. OrdersSellOwnCarts'
  BY DEF OrdersSellOwnCarts
<1>8. QED
  BY <1>2, <1>3, <1>4, <1>5, <1>6, <1>7

\* Requests that pass on what they have loaded add nothing to what is in view.
LEMMA SameViews ==
    ASSUME UNCHANGED session,
           \A w \in Workers :
               \/ worker'[w] = worker[w]
               \/ worker'[w].at \notin {"open", "cart", "sold"}
               \/ worker'[w].seen \in Views
    PROVE  Views' \subseteq Views
BY DEF Views, Seeing

\* A request that goes on to another step, or ends, and writes no table.
LEMMA PassingOn ==
    ASSUME Base, VisitInv, NEW w \in Workers, NEW next,
           worker' = [worker EXCEPT ![w] = next],
           UNCHANGED <<session, drawn, carts, issued, orders>>,
           \/ next.at \notin {"open", "cart", "sold"}
           \/ next.at = "open" /\ next.seen \in Views
           \/ next.at = "cart" /\ next.seen \in Views /\ Own(next.cart, next.seen.user, next.seen.visit)
           \/ next.at = "sold" /\ next.seen \in Views /\ orders[next.order].visit = next.seen.visit
    PROVE  VisitInv'
<1>1. \A v \in Workers : worker'[v] = IF v = w THEN next ELSE worker[v]
  BY DEF Base, CartTypeOK
<1>2. Views' \subseteq Views
  BY <1>1, SameViews
<1>3. \A v \in Workers :
        /\ worker'[v].at = "cart" =>
             Own(worker'[v].cart, worker'[v].seen.user, worker'[v].seen.visit)
        /\ worker'[v].at = "sold" => orders[worker'[v].order].visit = worker'[v].seen.visit
  BY <1>1 DEF VisitInv, FormsInv
<1>4. \A c, user, visit : Own(c, user, visit)' <=> Own(c, user, visit)
  BY DEF Own
<1>5. \A c \in Carts : Exists(c)' <=> Exists(c)
  BY DEF Exists
<1>6. \A v \in Workers :
        /\ worker'[v].at = "cart" => Own(worker[v].cart, worker[v].seen.user, worker[v].seen.visit)'
        /\ worker'[v].at = "sold" => orders'[worker'[v].order].visit = worker'[v].seen.visit
  BY <1>3, <1>4 DEF Own
<1>7. QED
  BY <1>2, <1>5, <1>6, TablesStep

\* A request's session is written back, or refused: the key is gone.
LEMMA SaveStep ==
    ASSUME Base, VisitInv, NEW w \in Seeing, NEW form \in Forms, NEW shown \in SUBSET Orders,
           SaveSession(worker[w], form, shown),
           worker' = [worker EXCEPT ![w] = Idle],
           UNCHANGED <<drawn, carts, orders>>, issued \subseteq issued',
           form # None =>
              /\ form.order \in issued' /\ orders[form.order] = None
              /\ Own(form.cart, worker[w].seen.user, worker[w].seen.visit)
              /\ \A y \in Views : y.form # None => y.form.order # form.order,
           session[worker[w].from].key = worker[w].seen.key =>
              \A k \in shown :
                 orders[k] # None /\ orders[k].user = Guest
                    /\ orders[k].visit = worker[w].seen.visit
    PROVE  VisitInv'
<1> DEFINE b == worker[w].from
<1> DEFINE seen == worker[w].seen
<1> DEFINE saved == [seen EXCEPT !.form = form, !.orders = shown]
<1>1. b \in Browsers /\ seen \in Views /\ seen \in Sessions
  BY ViewsAre, WorkerShapes DEF Base, Seeing, Opened, Holding, Sold
<1>2. session[b] \in Sessions /\ session[b] \in Views
  BY <1>1, ViewsAre DEF Base
<1>3. \A v \in Workers : worker'[v] = worker[v] \/ worker'[v] = Idle
  BY DEF Base, CartTypeOK
<1>4. CASE session[b].key = seen.key
  <2>1. saved \in Sessions /\ saved.key = seen.key /\ saved.user = seen.user
        /\ saved.visit = seen.visit /\ saved.form = form /\ saved.orders = shown
    BY <1>1 DEF Sessions
  <2>2. session' = [session EXCEPT ![b] = saved]
    BY <1>4 DEF SaveSession
  <2>3. seen.user = session[b].user /\ seen.visit = session[b].visit
        /\ seen.key \in drawn /\ seen.visit \in drawn
    BY <1>1, <1>2, <1>4 DEF VisitInv, KeysInv
  <2>4. saved.form # None =>
              /\ saved.form.order \in issued'
              /\ Own(saved.form.cart, saved.user, saved.visit)
              /\ orders[saved.form.order] # None => orders[saved.form.order].visit = saved.visit
              /\ \A y \in Views : y.form # None /\ y.form.order = saved.form.order =>
                    y.visit = saved.visit
    <3> HIDE DEF saved
    <3>1. QED
      BY <2>1
  <2>5. \A k \in saved.orders :
              orders[k] # None /\ orders[k].user = Guest /\ orders[k].visit = saved.visit
    <3> HIDE DEF saved
    <3>1. QED
      BY <1>4, <2>1
  <2>6. /\ saved.key = session[b].key /\ saved.user = session[b].user
        /\ saved.visit = session[b].visit
        /\ saved.key \in drawn' /\ saved.visit \in drawn'
    <3> HIDE DEF saved
    <3>1. QED
      BY <1>4, <2>1, <2>3
  <2> HIDE DEF saved, seen, b
  <2>7. QED
    BY <1>1, <1>3, <2>1, <2>2, <2>4, <2>5, <2>6, SessionStep
<1>5. CASE session[b].key # seen.key
  <2>1. session' = [session EXCEPT ![b] = session[b]]
    BY <1>5 DEF SaveSession, Base, CartTypeOK
  <2>2. session[b].key \in drawn /\ session[b].visit \in drawn
    BY <1>2 DEF VisitInv, KeysInv
  <2>3. session[b].form # None =>
              /\ session[b].form.order \in issued'
              /\ Own(session[b].form.cart, session[b].user, session[b].visit)
              /\ orders[session[b].form.order] # None =>
                   orders[session[b].form.order].visit = session[b].visit
              /\ \A y \in Views : y.form # None /\ y.form.order = session[b].form.order =>
                    y.visit = session[b].visit
    BY <1>2 DEF VisitInv, FormsInv
  <2>4. \A k \in session[b].orders :
              orders[k] # None /\ orders[k].user = Guest /\ orders[k].visit = session[b].visit
    BY <1>2 DEF VisitInv, NotedInv
  <2> HIDE DEF b
  <2>5. QED
    BY <1>1, <1>2, <1>3, <2>1, <2>2, <2>3, <2>4, SessionStep
<1>6. QED
  BY <1>4, <1>5

\* Every step keeps the visits apart.
LEMMA StepVisitInv == Base /\ VisitInv /\ [CartNext]_cartVars => VisitInv'
<1> SUFFICES ASSUME Base, VisitInv, [CartNext]_cartVars PROVE VisitInv'
    OBVIOUS
<1>1. ASSUME NEW w \in Workers, NEW b \in Browsers, Request(w, b) PROVE VisitInv'
  <2>1. session[b] \in Views
    BY DEF Views
  <2>2. QED
    BY <1>1, <2>1, PassingOn DEF Request
<1>2. ASSUME NEW w \in Workers, EndRequest(w) PROVE VisitInv'
  BY <1>2, PassingOn DEF EndRequest, Idle
<1>3. ASSUME NEW w \in Workers, NEW c \in Carts, FindCart(w, c) PROVE VisitInv'
  <2> DEFINE s == worker[w].seen
  <2>1. worker[w].at = "open" /\ s \in Views /\ s \in Sessions
    BY <1>3, ViewsAre, WorkerShapes DEF FindCart, Seeing, Base, Opened
  <2>2. Own(c, s.user, s.visit)
    <3>1. CASE s.user = Guest
      <4>1. c \in KeyCarts(s.key)
        BY <1>3, <3>1 DEF FindCart
      <4> HIDE DEF s
      <4>2. carts[c].visit = s.visit
        BY <2>1, <4>1 DEF VisitInv, CartKeysInv
      <4>3. Exists(c) /\ carts[c].key # None
        BY <2>1, <4>1, CartAssumption DEF KeyCarts, Sessions
      <4>4. QED
        BY <4>2, <4>3 DEF Own, VisitInv, CartKeysInv
    <3>2. CASE s.user # Guest
      <4>1. Newest(c, s.user)
        BY <1>3, <3>2 DEF FindCart
      <4> HIDE DEF s
      <4>2. carts[c].user = s.user
        BY <4>1 DEF Newest, UserCarts
      <4>3. QED
        BY <3>2, <4>2 DEF Own
    <3>3. QED
      BY <3>1, <3>2
  <2>3. worker' = [worker EXCEPT ![w] =
          [at |-> "cart", from |-> worker[w].from, seen |-> s,
           cart |-> c, currency |-> carts[c].currency]]
        /\ UNCHANGED <<session, drawn, carts, issued, orders>>
    BY <1>3 DEF FindCart, Hold
  <2> HIDE DEF s
  <2>4. QED
    BY <2>1, <2>2, <2>3, PassingOn
<1>4. ASSUME NEW w \in Workers, NEW c \in Carts, CreateCart(w, c) PROVE VisitInv'
  <2> DEFINE s == worker[w].seen
  <2>1. s \in Views /\ s \in Sessions /\ ~Exists(c)
    BY <1>4, ViewsAre, WorkerShapes DEF CreateCart, Seeing, Base, Opened
  <2>2. /\ carts' = [carts EXCEPT ![c] = NewCart(s)]
        /\ \E next : /\ worker' = [worker EXCEPT ![w] = next]
                     /\ next.at = "cart" /\ next.seen = s /\ next.cart = c
        /\ UNCHANGED <<session, drawn, issued, orders>>
    <3> DEFINE next == [at |-> "cart", from |-> worker[w].from, seen |-> s,
                        cart |-> c, currency |-> carts'[c].currency]
    <3>1. /\ carts' = [carts EXCEPT ![c] = NewCart(s)]
          /\ worker' = [worker EXCEPT ![w] = next]
          /\ UNCHANGED <<session, drawn, issued, orders>>
      BY <1>4 DEF CreateCart, Hold
    <3>2. next.at = "cart" /\ next.seen = s /\ next.cart = c
      OBVIOUS
    <3> HIDE DEF next, s
    <3>3. QED
      BY <3>1, <3>2
  <2>3. /\ \A d \in Carts : d # c => carts'[d] = carts[d] /\ (Exists(d)' <=> Exists(d))
        /\ carts'[c] = NewCart(s)
        /\ \A v \in Workers : v # w => worker'[v] = worker[v]
        /\ worker'[w].at = "cart" /\ worker'[w].seen = s /\ worker'[w].cart = c
    BY <2>2 DEF Base, CartTypeOK, Exists
  <2>4. Views' \subseteq Views
    BY <2>1, <2>2, <2>3, SameViews
  <2>5. carts'[c].user = s.user /\ carts'[c].visit = s.visit
        /\ carts'[c].key = IF s.user = Guest THEN s.key ELSE None
    BY <2>3 DEF NewCart
  <2>6. \A v \in Workers :
          /\ worker'[v].at = "cart" =>
               Own(worker[v].cart, worker[v].seen.user, worker[v].seen.visit)'
          /\ worker'[v].at = "sold" => orders'[worker'[v].order].visit = worker'[v].seen.visit
    <3>1. Own(worker[w].cart, worker[w].seen.user, worker[w].seen.visit)'
      BY <2>3, <2>5 DEF Own
    <3>2. ASSUME NEW v \in Workers, v # w, worker[v].at = "cart"
          PROVE  Own(worker[v].cart, worker[v].seen.user, worker[v].seen.visit)'
      <4>1. worker[v].cart # c /\ worker[v].cart \in Carts
        BY <2>1, <3>2, WorkerShapes DEF Base, RowsInv, Holding
      <4>2. QED
        BY <2>3, <3>2, <4>1 DEF Own, VisitInv, FormsInv
    <3>3. QED
      BY <2>2, <2>3, <3>1, <3>2 DEF VisitInv, FormsInv
  <2>7. \A d \in Carts : Exists(d) =>
          /\ Exists(d)'
          /\ carts'[d].user = carts[d].user
          /\ carts'[d].key = carts[d].key
          /\ carts'[d].visit = carts[d].visit
    BY <2>1, <2>3
  <2>8. \A d \in Carts : ~Exists(d) /\ Exists(d)' =>
          \/ carts'[d].key = None
          \/ \E x \in Views :
               /\ x.user = Guest /\ carts'[d].user = Guest
               /\ carts'[d].key = x.key /\ carts'[d].visit = x.visit
    BY <2>1, <2>3, <2>5
  <2>9. QED
    BY <2>2, <2>4, <2>6, <2>7, <2>8, TablesStep
<1>5. ASSUME NEW w \in Workers, Rewrites(w) PROVE VisitInv'
  <2>1. PICK c \in Carts, row \in CartRows :
        /\ carts' = [carts EXCEPT ![c] = row]
        /\ SameOwner(row, IF Exists(c) THEN carts[c] ELSE NewCart(worker[w].seen))
        /\ \/ Exists(c)
           \/ /\ worker[w].at = "open"
              /\ worker[w].seen.user # Guest \/ KeyCarts(worker[w].seen.key) = {}
    BY <1>5 DEF Rewrites, Edits
  <2>2. worker' = [worker EXCEPT ![w] = Idle] /\ UNCHANGED <<session, drawn, issued, orders>>
    BY <1>5 DEF Rewrites
  <2>3. /\ \A d \in Carts : d # c => carts'[d] = carts[d] /\ (Exists(d)' <=> Exists(d))
        /\ carts'[c] = row
        /\ \A v \in Workers : worker'[v] = worker[v] \/ worker'[v] = Idle
    BY <2>1, <2>2 DEF Base, CartTypeOK, Exists
  <2>4. row # None
    BY CartAssumption
  <2>5. \A d \in Carts : Exists(d) =>
          /\ Exists(d)'
          /\ carts'[d].user = carts[d].user
          /\ carts'[d].key = carts[d].key
          /\ carts'[d].visit = carts[d].visit
    BY <2>1, <2>3, <2>4 DEF SameOwner, Exists
  <2>6. \A d \in Carts : ~Exists(d) /\ Exists(d)' =>
          \/ carts'[d].key = None
          \/ \E x \in Views :
               /\ x.user = Guest /\ carts'[d].user = Guest
               /\ carts'[d].key = x.key /\ carts'[d].visit = x.visit
    <3> SUFFICES ASSUME NEW d \in Carts, ~Exists(d), Exists(d)'
                 PROVE \/ carts'[d].key = None
                       \/ \E x \in Views :
                            /\ x.user = Guest /\ carts'[d].user = Guest
                            /\ carts'[d].key = x.key /\ carts'[d].visit = x.visit
        OBVIOUS
    <3>1. d = c /\ SameOwner(carts'[d], NewCart(worker[w].seen)) /\ worker[w].at = "open"
      BY <2>1, <2>3
    <3>2. worker[w].seen \in Views
      BY <3>1 DEF Views, Seeing
    <3>3. QED
      BY <3>1, <3>2 DEF SameOwner, NewCart
  <2>7. Views' \subseteq Views
    BY <2>2, <2>3, SameViews DEF Idle
  <2>8. \A v \in Workers :
          /\ worker'[v].at = "cart" =>
               Own(worker[v].cart, worker[v].seen.user, worker[v].seen.visit)'
          /\ worker'[v].at = "sold" => orders'[worker'[v].order].visit = worker'[v].seen.visit
    <3>1. ASSUME NEW v \in Workers, worker'[v].at = "cart"
          PROVE  Own(worker[v].cart, worker[v].seen.user, worker[v].seen.visit)'
      <4>1. worker'[v] = worker[v]
        BY <2>3, <3>1 DEF Idle
      <4>2. worker[v].cart \in Carts /\ Exists(worker[v].cart)
        BY <3>1, <4>1, WorkerShapes DEF Base, RowsInv, Holding
      <4>3. Own(worker[v].cart, worker[v].seen.user, worker[v].seen.visit)
        BY <3>1, <4>1 DEF VisitInv, FormsInv
      <4>4. QED
        BY <2>5, <4>1, <4>2, <4>3 DEF Own
    <3>2. ASSUME NEW v \in Workers, worker'[v].at = "sold"
          PROVE  orders'[worker'[v].order].visit = worker'[v].seen.visit
      BY <2>2, <2>3, <3>2 DEF VisitInv, FormsInv, Idle
    <3>3. QED
      BY <3>1, <3>2
  <2>9. QED
    BY <2>2, <2>5, <2>6, <2>7, <2>8, TablesStep
<1>6. ASSUME NEW w \in Workers, NEW p \in Products, ReadLine(w, p) PROVE VisitInv'
  BY <1>6, PassingOn DEF ReadLine
<1>7. ASSUME NEW w \in Workers, NEW k \in Orders, ShowForm(w, k) PROVE VisitInv'
  <2> DEFINE form == [order |-> k, cart |-> worker[w].cart]
  <2>1. worker[w].at = "cart" /\ worker[w] \in Holding /\ w \in Seeing /\ k \notin issued
    BY <1>7, WorkerShapes DEF ShowForm, Base, Seeing
  <2>2. form \in Forms /\ form.order = k /\ form.cart = worker[w].cart
        /\ worker[w].seen.orders \in SUBSET Orders
    BY <2>1 DEF Forms, CheckoutForms, Holding, Sessions
  <2>3. Own(form.cart, worker[w].seen.user, worker[w].seen.visit) /\ orders[k] = None
    BY <2>1, <2>2 DEF VisitInv, FormsInv, VisitsInv
  <2>4. \A y \in Views : y.form # None => y.form.order # k
    BY <2>1 DEF VisitInv, FormsInv
  <2>5. \A j \in worker[w].seen.orders :
          orders[j] # None /\ orders[j].user = Guest /\ orders[j].visit = worker[w].seen.visit
    BY <2>1, ViewsAre DEF VisitInv, NotedInv, Base
  <2>6. SaveSession(worker[w], form, worker[w].seen.orders)
        /\ worker' = [worker EXCEPT ![w] = Idle]
        /\ UNCHANGED <<drawn, carts, orders>> /\ issued' = issued \cup {k}
    BY <1>7 DEF ShowForm
  <2> HIDE DEF form
  <2>7. QED
    BY <2>1, <2>2, <2>3, <2>4, <2>5, <2>6, SaveStep
<1>8. ASSUME NEW w \in Workers, Checkout(w) PROVE VisitInv'
  <2> DEFINE s == worker[w].seen
  <2> DEFINE k == s.form.order
  <2> DEFINE c == s.form.cart
  <2> DEFINE next == [at |-> "sold", from |-> worker[w].from, seen |-> s, order |-> k]
  <2>1. s \in Views /\ s \in Sessions /\ s.form # None /\ k \in Orders /\ c \in Carts /\ Exists(c)
    <3>1. s \in Views /\ s \in Sessions /\ s.form # None
      BY <1>8, ViewsAre, WorkerShapes DEF Checkout, Seeing, Base, Opened
    <3> HIDE DEF s
    <3>2. QED
      BY <3>1, FormCarts
  <2>2. worker' = [worker EXCEPT ![w] = next] /\ UNCHANGED <<session, drawn, issued>>
    BY <1>8 DEF Checkout
  <2>3. CASE orders[k] # None
    <3>1. UNCHANGED <<carts, orders>>
      BY <1>8, <2>3 DEF Checkout
    <3>2. next.at = "sold" /\ next.seen = s /\ next.order = k
      OBVIOUS
    <3>3. orders[k].visit = s.visit
      BY <2>1, <2>3 DEF VisitInv, FormsInv
    <3> HIDE DEF next, k, c, s
    <3>4. QED
      BY <2>1, <2>2, <3>1, <3>2, <3>3, PassingOn
  <2>4. CASE orders[k] = None
    <3>1. /\ \E row : /\ orders' = [orders EXCEPT ![k] = row]
                      /\ row.cart = c /\ row.user = s.user /\ row.visit = s.visit
          /\ carts' = [carts EXCEPT ![c].active = FALSE]
      <4> DEFINE row == [cart |-> c, user |-> s.user, visit |-> s.visit, live |-> TRUE,
                lines |-> [p \in Products |->
                             IF p \in ForSale(c) THEN carts[c].lines[p] ELSE 0]]
      <4>1. orders' = [orders EXCEPT ![k] = row] /\ carts' = [carts EXCEPT ![c].active = FALSE]
        BY <1>8, <2>4 DEF Checkout
      <4>2. row.cart = c /\ row.user = s.user /\ row.visit = s.visit
        OBVIOUS
      <4> HIDE DEF row, s, k, c
      <4>3. QED
        BY <4>1, <4>2
    <3>2. next.at = "sold" /\ next.seen = s /\ next.order = k
      OBVIOUS
    <3> HIDE DEF next, k, c, s
    <3>3. /\ \A j \in Orders : j # k => orders'[j] = orders[j]
          /\ orders'[k].cart = c /\ orders'[k].user = s.user /\ orders'[k].visit = s.visit
      BY <2>1, <3>1 DEF Base, CartTypeOK
    <3>4. \A d \in Carts : Exists(d) =>
            /\ Exists(d)'
            /\ carts'[d].user = carts[d].user
            /\ carts'[d].key = carts[d].key
            /\ carts'[d].visit = carts[d].visit
      <4>1. \A d \in Carts : d # c => carts'[d] = carts[d]
        BY <3>1 DEF Base, CartTypeOK
      <4>2. carts[c] \in CartRows /\ carts'[c] = [carts[c] EXCEPT !.active = FALSE]
        BY <2>1, <3>1 DEF Base, CartTypeOK, Exists
      <4>3. carts'[c] \in CartRows /\ carts'[c].user = carts[c].user
            /\ carts'[c].key = carts[c].key /\ carts'[c].visit = carts[c].visit
        BY <4>2 DEF CartRows
      <4>4. QED
        BY <4>1, <4>3, CartAssumption DEF Exists
    <3>5. \A d \in Carts : ~Exists(d) => ~Exists(d)'
      BY <2>1, <3>1 DEF Base, CartTypeOK, Exists
    <3>6. /\ \A v \in Workers : v # w => worker'[v] = worker[v]
          /\ worker'[w] = next
      BY <2>2 DEF Base, CartTypeOK
    <3>7. Views' \subseteq Views
      BY <2>1, <2>2, <3>2, <3>6, SameViews
    <3>8. \A v \in Workers :
            /\ worker'[v].at = "cart" =>
                 Own(worker[v].cart, worker[v].seen.user, worker[v].seen.visit)'
            /\ worker'[v].at = "sold" => orders'[worker'[v].order].visit = worker'[v].seen.visit
      <4>1. ASSUME NEW v \in Workers, worker'[v].at = "cart"
            PROVE  Own(worker[v].cart, worker[v].seen.user, worker[v].seen.visit)'
        <5>1. worker'[v] = worker[v]
          BY <3>2, <3>6, <4>1
        <5>2. worker[v].cart \in Carts /\ Exists(worker[v].cart)
          BY <4>1, <5>1, WorkerShapes DEF Base, RowsInv, Holding
        <5>3. Own(worker[v].cart, worker[v].seen.user, worker[v].seen.visit)
          BY <4>1, <5>1 DEF VisitInv, FormsInv
        <5>4. QED
          BY <3>4, <5>1, <5>2, <5>3 DEF Own
      <4>2. ASSUME NEW v \in Workers, worker'[v].at = "sold"
            PROVE  orders'[worker'[v].order].visit = worker'[v].seen.visit
        <5>1. CASE v = w
          BY <3>2, <3>3, <3>6, <5>1
        <5>2. CASE v # w
          <6>1. orders[worker[v].order] # None /\ worker[v].order \in Orders
            BY <3>6, <4>2, <5>2, WorkerShapes DEF Base, RowsInv, Sold
          <6>2. worker[v].order # k
            BY <2>4, <6>1
          <6>3. QED
            BY <3>3, <3>6, <4>2, <5>2, <6>1, <6>2 DEF VisitInv, FormsInv
        <5>3. QED
          BY <5>1, <5>2
      <4>3. QED
        BY <4>1, <4>2
    <3>9. \A j \in Orders : orders[j] # None =>
            /\ orders'[j] # None
            /\ orders'[j].cart = orders[j].cart
            /\ orders'[j].user = orders[j].user
            /\ orders'[j].visit = orders[j].visit
      BY <2>4, <3>3
    <3>10. \A j \in Orders : orders[j] = None /\ orders'[j] # None =>
             \E x \in Views :
                /\ x.form # None /\ x.form.order = j
                /\ orders'[j].cart = x.form.cart
                /\ orders'[j].user = x.user /\ orders'[j].visit = x.visit
      BY <2>1, <3>3 DEF k, c
    <3>11. QED
      BY <2>2, <3>4, <3>5, <3>7, <3>8, <3>9, <3>10, TablesStep
  <2>5. QED
    BY <2>3, <2>4
<1>9. ASSUME NEW w \in Workers, FinishCheckout(w) PROVE VisitInv'
  <2> DEFINE s == worker[w].seen
  <2> DEFINE k == worker[w].order
  <2> DEFINE shown == IF s.user = Guest THEN s.orders \cup {k} ELSE s.orders
  <2>1. worker[w].at = "sold" /\ worker[w] \in Sold /\ w \in Seeing
    BY <1>9, WorkerShapes DEF FinishCheckout, Base, Seeing
  <2>2. s \in Views /\ s \in Sessions /\ k \in Orders /\ orders[k] # None
        /\ worker[w].from \in Browsers
    BY <2>1, ViewsAre DEF Base, RowsInv, Sold
  <2>3. shown \in SUBSET Orders /\ None \in Forms
    BY <2>2 DEF Sessions, Forms
  <2>4. SaveSession(worker[w], None, shown)
        /\ worker' = [worker EXCEPT ![w] = Idle]
        /\ UNCHANGED <<drawn, carts, issued, orders>>
    BY <1>9 DEF FinishCheckout
  <2>5. ASSUME session[worker[w].from].key = s.key, NEW j \in shown
        PROVE  orders[j] # None /\ orders[j].user = Guest /\ orders[j].visit = s.visit
    <3>1. CASE j \in s.orders
      BY <2>2, <3>1 DEF VisitInv, NotedInv
    <3>2. CASE j = k /\ s.user = Guest
      <4>1. orders[k].visit = s.visit
        BY <2>1 DEF VisitInv, FormsInv
      <4>2. session[worker[w].from].user = Guest /\ session[worker[w].from].visit = s.visit
        BY <2>2, <2>5, <3>2, ViewsAre DEF VisitInv, KeysInv, Base
      <4>3. orders[k].user = Guest
        BY <2>2, <4>1, <4>2 DEF VisitInv, VisitsInv, SignedIn
      <4>4. QED
        BY <2>2, <3>2, <4>1, <4>3
    <3>3. QED
      BY <2>5, <3>1, <3>2
  <2> HIDE DEF shown
  <2>6. QED
    BY <2>1, <2>3, <2>4, <2>5, SaveStep
<1>10. ASSUME NEW k \in Orders, PaymentFails(k) PROVE VisitInv'
  <2> DEFINE c == orders[k].cart
  <2>1. orders[k] \in OrderRows /\ c \in Carts /\ Exists(c) /\ carts[c] \in CartRows
    BY <1>10 DEF PaymentFails, Base, CartTypeOK, RowsInv, OrderRows, Exists
  <2>2. /\ orders' = [orders EXCEPT ![k].live = FALSE]
        /\ carts' = [carts EXCEPT ![c].active = TRUE]
        /\ UNCHANGED <<session, drawn, issued, worker>>
    BY <1>10 DEF PaymentFails
  <2> HIDE DEF c
  <2>3. /\ \A j \in Orders : j # k => orders'[j] = orders[j]
        /\ orders'[k] \in OrderRows /\ orders'[k].cart = orders[k].cart
        /\ orders'[k].user = orders[k].user /\ orders'[k].visit = orders[k].visit
    BY <2>1, <2>2 DEF Base, CartTypeOK, OrderRows
  <2>4. /\ \A d \in Carts : d # c => carts'[d] = carts[d]
        /\ carts'[c] \in CartRows /\ carts'[c].user = carts[c].user
        /\ carts'[c].key = carts[c].key /\ carts'[c].visit = carts[c].visit
    BY <2>1, <2>2 DEF Base, CartTypeOK, CartRows
  <2>5. /\ \A d \in Carts : Exists(d) =>
            /\ Exists(d)'
            /\ carts'[d].user = carts[d].user
            /\ carts'[d].key = carts[d].key
            /\ carts'[d].visit = carts[d].visit
        /\ \A d \in Carts : ~Exists(d) => ~Exists(d)'
    BY <2>1, <2>4, CartAssumption DEF Exists
  <2>6. Views' \subseteq Views
    BY <2>2, SameViews
  <2>7. /\ \A j \in Orders : orders[j] # None =>
            /\ orders'[j] # None
            /\ orders'[j].cart = orders[j].cart
            /\ orders'[j].user = orders[j].user
            /\ orders'[j].visit = orders[j].visit
        /\ \A j \in Orders : orders[j] = None => orders'[j] = None
    BY <1>10, <2>3, CartAssumption DEF PaymentFails
  <2>8. \A v \in Workers :
          /\ worker'[v].at = "cart" =>
               Own(worker[v].cart, worker[v].seen.user, worker[v].seen.visit)'
          /\ worker'[v].at = "sold" => orders'[worker'[v].order].visit = worker'[v].seen.visit
    <3>1. ASSUME NEW v \in Workers, worker[v].at = "cart"
          PROVE  Own(worker[v].cart, worker[v].seen.user, worker[v].seen.visit)'
      <4>1. worker[v].cart \in Carts /\ Exists(worker[v].cart)
        BY <3>1, WorkerShapes DEF Base, RowsInv, Holding
      <4>2. Own(worker[v].cart, worker[v].seen.user, worker[v].seen.visit)
        BY <3>1 DEF VisitInv, FormsInv
      <4>3. QED
        BY <2>2, <2>5, <4>1, <4>2 DEF Own
    <3>2. ASSUME NEW v \in Workers, worker[v].at = "sold"
          PROVE  orders'[worker[v].order].visit = worker[v].seen.visit
      <4>1. orders[worker[v].order] # None /\ worker[v].order \in Orders
        BY <3>2, WorkerShapes DEF Base, RowsInv, Sold
      <4>2. QED
        BY <2>7, <3>2, <4>1 DEF VisitInv, FormsInv
    <3>3. QED
      BY <2>2, <3>1, <3>2
  <2>9. QED
    BY <2>2, <2>5, <2>6, <2>7, <2>8, TablesStep
<1>11. ASSUME NEW b \in Browsers, NEW k \in Keys, NEW new \in Sessions,
              k \notin drawn, drawn' = drawn \cup {k},
              session' = [session EXCEPT ![b] = new],
              UNCHANGED <<carts, issued, orders, worker>>,
              new.key = k,
              \/ /\ session[b].user \in {Guest, new.user}
                 /\ new.visit = session[b].visit
                 /\ new.form = session[b].form
                 /\ new.orders = session[b].orders
              \/ new.visit = k /\ new.form = None /\ new.orders = {}
       PROVE  VisitInv'
  <2>1. session[b] \in Views /\ session[b].visit \in drawn
    BY ViewsAre DEF Base, VisitInv, KeysInv
  <2>2. new.form # None =>
              /\ new.form.order \in issued'
              /\ Own(new.form.cart, new.user, new.visit)
              /\ orders[new.form.order] # None => orders[new.form.order].visit = new.visit
              /\ \A y \in Views : y.form # None /\ y.form.order = new.form.order =>
                    y.visit = new.visit
    BY <1>11, <2>1 DEF VisitInv, FormsInv, Own
  <2>3. \A j \in new.orders :
              orders[j] # None /\ orders[j].user = Guest /\ orders[j].visit = new.visit
    BY <1>11, <2>1 DEF VisitInv, NotedInv
  <2>4. QED
    BY <1>11, <2>1, <2>2, <2>3, SessionStep
<1>12. ASSUME NEW b \in Browsers, NEW k \in Keys, FirstFactor(b, k) \/ SignOut(b, k)
       PROVE  VisitInv'
  <2>1. session[b] \in Sessions
    BY ViewsAre DEF Base
  <2>2. NewSession(k) \in Sessions /\ NewSession(k).form = None /\ NewSession(k).orders = {}
        /\ NewSession(k).key = k /\ NewSession(k).visit = k
    BY DEF NewSession, Sessions, Forms, Buyers
  <2>3. CASE FirstFactor(b, k)
    <3> DEFINE new == [session[b] EXCEPT !.key = k]
    <3>1. new \in Sessions /\ new.key = k /\ new.visit = session[b].visit
          /\ new.user = session[b].user
          /\ new.form = session[b].form /\ new.orders = session[b].orders
      BY <2>1 DEF Sessions
    <3>2. session' = [session EXCEPT ![b] = new]
      BY <2>3 DEF FirstFactor
    <3> HIDE DEF new
    <3>3. QED
      BY <1>11, <2>3, <3>1, <3>2 DEF FirstFactor
  <2>4. CASE SignOut(b, k)
    <3>1. session' = [session EXCEPT ![b] = NewSession(k)]
      BY <2>4 DEF SignOut
    <3>2. QED
      BY <1>11, <2>2, <2>4, <3>1 DEF SignOut
  <2>5. QED
    BY <1>12, <2>3, <2>4
<1>13. ASSUME NEW b \in Browsers, NEW k \in Keys, NEW u \in Users, SignIn(b, u, k)
       PROVE  VisitInv'
  <2> DEFINE kept == [session[b] EXCEPT !.key = k, !.user = u]
  <2> DEFINE fresh == [NewSession(k) EXCEPT !.user = u]
  <2>1. session[b] \in Sessions
    BY ViewsAre DEF Base
  <2>2. kept \in Sessions /\ kept.key = k /\ kept.visit = session[b].visit
        /\ kept.form = session[b].form /\ kept.orders = session[b].orders
    BY <2>1 DEF Sessions, Buyers
  <2>3. fresh \in Sessions /\ fresh.key = k /\ fresh.visit = k
        /\ fresh.form = None /\ fresh.orders = {}
    BY DEF NewSession, Sessions, Forms, Buyers
  <2>4. session' = [session EXCEPT ![b] = IF session[b].user = Guest THEN kept ELSE fresh]
        /\ k \notin drawn /\ drawn' = drawn \cup {k}
        /\ UNCHANGED <<carts, issued, orders, worker>>
    BY <1>13 DEF SignIn
  <2> HIDE DEF kept, fresh
  <2>5. QED
    BY <1>11, <2>2, <2>3, <2>4
<1>14. CASE UNCHANGED cartVars
  <2>1. UNCHANGED <<session, drawn, carts, issued, orders, worker>>
    BY <1>14 DEF cartVars
  <2>2. QED
    BY <2>1 DEF VisitInv, KeysInv, CartKeysInv, FormsInv, VisitsInv, NotedInv,
               OrdersSellOwnCarts, Views, Seeing, Own, SignedIn, KeyCarts, Exists
<1>15. QED
  BY <1>1, <1>2, <1>3, <1>4, <1>5, <1>6, <1>7, <1>8, <1>9, <1>10, <1>12, <1>13, <1>14,
     LineRequests DEF CartNext

\* The invariant at the start and ever after.
LEMMA VisitInvHolds == CartSpec => [](Base /\ VisitInv)
<1>1. CartInit => VisitInv
  <2> SUFFICES ASSUME CartInit PROVE VisitInv
      OBVIOUS
  <2>1. \A k \in Keys : /\ NewSession(k).key = k /\ NewSession(k).visit = k
                        /\ NewSession(k).user = Guest /\ NewSession(k).form = None
                        /\ NewSession(k).orders = {}
    BY DEF NewSession
  <2>2. \A b \in Browsers : /\ session[b].visit = session[b].key /\ session[b].user = Guest
                            /\ session[b].form = None /\ session[b].orders = {}
                            /\ session[b].key \in drawn
    <3> SUFFICES ASSUME NEW b \in Browsers
                 PROVE  /\ session[b].visit = session[b].key /\ session[b].user = Guest
                        /\ session[b].form = None /\ session[b].orders = {}
                        /\ session[b].key \in drawn
        OBVIOUS
    <3>1. session[b] \in {NewSession(k) : k \in Keys} /\ session[b].key \in drawn
      BY DEF CartInit
    <3>2. PICK k \in Keys : session[b] = NewSession(k)
      BY <3>1
    <3>3. QED
      BY <2>1, <3>1, <3>2
  <2>3. Views = {session[b] : b \in Browsers}
    BY DEF CartInit, Views, Seeing, Idle
  <2>4. \A a, b \in Browsers : session[a].key = session[b].key => a = b
    BY DEF CartInit
  <2>5. KeysInv
    BY <2>2, <2>3, <2>4 DEF KeysInv
  <2>6. /\ \A c \in Carts : carts[c] = None
        /\ \A k \in Orders : orders[k] = None
        /\ \A w \in Workers : worker[w].at = "idle"
    BY DEF CartInit, Idle
  <2>7. CartKeysInv
    BY <2>6 DEF CartKeysInv, KeyCarts, Exists
  <2>8. FormsInv
    BY <2>2, <2>3, <2>6 DEF FormsInv
  <2>9. VisitsInv
    BY <2>2, <2>3, <2>6 DEF VisitsInv, SignedIn
  <2>10. NotedInv
    BY <2>2, <2>3 DEF NotedInv
  <2>11. OrdersSellOwnCarts
    BY <2>6 DEF OrdersSellOwnCarts
  <2>12. QED
    BY <2>5, <2>7, <2>8, <2>9, <2>10, <2>11 DEF VisitInv
<1>2. QED
  BY <1>1, CartInitBase, StepBase, StepVisitInv, PTL DEF CartSpec

\* An order is for its buyer's own cart, or for the one a guest filled in the
\* same visit, whoever signs in and out between the form and its answer.
THEOREM BuyersOwnCarts == CartSpec => []OrdersSellOwnCarts
<1>1. VisitInv => OrdersSellOwnCarts
  BY DEF VisitInv
<1>2. QED
  BY <1>1, VisitInvHolds, PTL

\* The next person at a browser never sees the orders of the guest before, even
\* when a request of the guest answers late.
THEOREM GuestOrdersStay == CartSpec => []GuestOrdersStayHere
<1>1. VisitInv => GuestOrdersStayHere
  BY DEF VisitInv, NotedInv, GuestOrdersStayHere, Views
<1>2. QED
  BY <1>1, VisitInvHolds, PTL

\* The branch of current_cart that merges a guest's cart into a customer's is
\* never taken: the key of a signed-in session is on no cart.
THEOREM NothingToMerge == CartSpec => []NoCartToMerge
<1>1. VisitInv => NoCartToMerge
  BY DEF VisitInv, CartKeysInv, NoCartToMerge, Views
<1>2. QED
  BY <1>1, VisitInvHolds, PTL

-----------------------------------------------------------------------------
(* One currency *)

SameCurrency == \A p, q \in Products : Currency[p] = Currency[q]

\* In a shop with one currency: no order is empty, a cart with lines has the
\* currency, and so has one that was read with it.
MoneyInv ==
    SameCurrency =>
        /\ \A k \in Orders : orders[k] # None => \E p \in Products : orders[k].lines[p] # 0
        /\ \A c \in Carts, p \in Products : Exists(c) /\ Lines(c) # {} =>
             carts[c].currency = Currency[p]
        /\ \A w \in Workers, p \in Products :
             worker[w].at = "cart" /\ worker[w].currency = Currency[p] =>
                 carts[worker[w].cart].currency = Currency[p]

\* The ways a step may leave a cart: with the shop's currency, without lines,
\* or with the currency it had and lines only if it had some.
Priced(c) ==
    \/ \A p \in Products : carts'[c].currency = Currency[p]
    \/ Lines(c)' = {} /\ (Exists(c) => carts'[c].currency = carts[c].currency)
    \/ /\ Exists(c) /\ carts'[c].currency = carts[c].currency
       /\ Lines(c)' = {} \/ Lines(c) # {}

\* A step keeps the invariant if it leaves every cart in one of these ways, no
\* order becomes empty and a request reads the currency the cart has.
LEMMA MoneyStep ==
    ASSUME Base, Base', MoneyInv,
           SameCurrency => \A c \in Carts : Exists(c)' => Priced(c),
           \A k \in Orders : orders'[k] # None =>
               \/ orders[k] # None /\ orders'[k].lines = orders[k].lines
               \/ \E p \in Products : orders'[k].lines[p] # 0,
           \A w \in Workers : worker'[w].at = "cart" =>
               \/ worker'[w] = worker[w]
               \/ worker'[w].currency = carts'[worker'[w].cart].currency
    PROVE  MoneyInv'
<1> SUFFICES ASSUME SameCurrency
             PROVE  /\ \A k \in Orders : orders'[k] # None =>
                         \E p \in Products : orders'[k].lines[p] # 0
                    /\ \A c \in Carts, p \in Products : Exists(c)' /\ Lines(c)' # {} =>
                         carts'[c].currency = Currency[p]
                    /\ \A w \in Workers, p \in Products :
                         worker'[w].at = "cart" /\ worker'[w].currency = Currency[p] =>
                             carts'[worker'[w].cart].currency = Currency[p]
    BY DEF MoneyInv, SameCurrency
<1>1. \A k \in Orders : orders'[k] # None => \E p \in Products : orders'[k].lines[p] # 0
  BY DEF MoneyInv
<1>2. \A c \in Carts, p \in Products : Exists(c)' /\ Lines(c)' # {} =>
         carts'[c].currency = Currency[p]
  BY DEF MoneyInv, Priced
<1>3. ASSUME NEW w \in Workers, NEW p \in Products,
             worker'[w].at = "cart", worker'[w].currency = Currency[p]
      PROVE  carts'[worker'[w].cart].currency = Currency[p]
  <2>1. CASE worker'[w] = worker[w]
    <3>1. PICK d \in Carts : d = worker[w].cart /\ Exists(d)
      BY <1>3, <2>1, WorkerShapes DEF Base, RowsInv, Holding
    <3>2. Exists(d)'
      BY <1>3, <2>1, <3>1 DEF Base, RowsInv
    <3>3. carts[d].currency = Currency[p]
      BY <1>3, <2>1, <3>1 DEF MoneyInv
    <3>4. Priced(d)
      BY <3>2
    <3>5. QED
      BY <2>1, <3>1, <3>3, <3>4 DEF Priced
  <2>2. CASE worker'[w].currency = carts'[worker'[w].cart].currency
    BY <1>3, <2>2
  <2>3. QED
    BY <1>3, <2>1, <2>2
<1>4. QED
  BY <1>1, <1>2, <1>3

\* A step that writes neither carts nor orders, and reads no cart.
LEMMA MoneyElsewhere ==
    ASSUME Base, Base', MoneyInv, UNCHANGED carts,
           \A k \in Orders : orders'[k] = orders[k],
           \A w \in Workers : worker'[w] = worker[w] \/ worker'[w].at # "cart"
    PROVE  MoneyInv'
<1>1. \A c \in Carts : Exists(c)' => Priced(c)
  BY DEF Priced, Exists, Lines
<1>2. QED
  BY <1>1, MoneyStep

\* A request that rewrites the lines of one cart.
LEMMA MoneyRewritten ==
    ASSUME Base, Base', MoneyInv, NEW w \in Workers, NEW c \in Carts, NEW row,
           carts' = [carts EXCEPT ![c] = row],
           worker' = [worker EXCEPT ![w] = Idle],
           UNCHANGED orders,
           SameCurrency =>
               \/ \A p \in Products : row.currency = Currency[p]
               \/ Exists(c) /\ Lines(c) # {} /\ row.currency = carts[c].currency
    PROVE  MoneyInv'
<1>1. /\ \A d \in Carts : carts'[d] = IF d = c THEN row ELSE carts[d]
      /\ \A v \in Workers : worker'[v] = worker[v] \/ worker'[v].at # "cart"
  BY DEF Base, CartTypeOK, Idle
<1>2. SameCurrency => \A d \in Carts : Exists(d)' => Priced(d)
  BY <1>1 DEF Priced, Exists, Lines
<1>3. QED
  BY <1>1, <1>2, MoneyStep

\* Every step keeps carts in the shop's currency.
LEMMA StepMoneyInv == Base /\ MoneyInv /\ [CartNext]_cartVars => MoneyInv'
<1> SUFFICES ASSUME Base, MoneyInv, [CartNext]_cartVars PROVE MoneyInv'
    OBVIOUS
<1>0. Base'
  BY StepBase
<1> USE <1>0
<1>1. ASSUME NEW w \in Workers, UNCHANGED <<carts, orders>>,
             \A v \in Workers : v # w => worker'[v] = worker[v],
             worker'[w].at # "cart"
      PROVE  MoneyInv'
  BY <1>1, MoneyElsewhere
<1>2. ASSUME NEW w \in Workers, \/ EndRequest(w) \/ FinishCheckout(w)
                                \/ \E k \in Orders : ShowForm(w, k)
      PROVE  MoneyInv'
  <2>1. UNCHANGED <<carts, orders>> /\ worker' = [worker EXCEPT ![w] = Idle]
    BY <1>2 DEF EndRequest, FinishCheckout, ShowForm
  <2>2. QED
    BY <1>1, <2>1 DEF Base, CartTypeOK, Idle
<1>3. ASSUME NEW w \in Workers, NEW b \in Browsers, Request(w, b) PROVE MoneyInv'
  BY <1>1, <1>3 DEF Request, Base, CartTypeOK
<1>4. ASSUME NEW w \in Workers, NEW p \in Products, ReadLine(w, p) PROVE MoneyInv'
  BY <1>1, <1>4 DEF ReadLine, Base, CartTypeOK
<1>5. ASSUME NEW w \in Workers, NEW c \in Carts, FindCart(w, c) \/ CreateCart(w, c)
      PROVE  MoneyInv'
  <2>1. UNCHANGED orders
        /\ \A v \in Workers : worker'[v] = worker[v]
                              \/ worker'[v].currency = carts'[worker'[v].cart].currency
    <3> DEFINE next == [at |-> "cart", from |-> worker[w].from, seen |-> worker[w].seen,
                        cart |-> c, currency |-> carts'[c].currency]
    <3>1. UNCHANGED orders /\ worker' = [worker EXCEPT ![w] = next]
      BY <1>5 DEF FindCart, CreateCart, Hold
    <3>2. next.currency = carts'[c].currency /\ next.cart = c
      OBVIOUS
    <3> HIDE DEF next
    <3>3. QED
      BY <3>1, <3>2 DEF Base, CartTypeOK
  <2>2. \A d \in Carts : Exists(d)' => Priced(d)
    <3>1. CASE FindCart(w, c)
      BY <3>1 DEF FindCart, Priced, Exists, Lines
    <3>2. CASE CreateCart(w, c)
      <4>1. carts' = [carts EXCEPT ![c] = NewCart(worker[w].seen)] /\ ~Exists(c)
        BY <3>2 DEF CreateCart
      <4>2. \A d \in Carts : d # c => carts'[d] = carts[d]
        BY <4>1 DEF Base, CartTypeOK
      <4>3. carts'[c].lines = [p \in Products |-> 0]
        BY <4>1 DEF Base, CartTypeOK, NewCart
      <4>4. Lines(c)' = {}
        BY <4>3 DEF Lines
      <4>5. QED
        BY <4>1, <4>2, <4>4 DEF Priced, Exists, Lines
    <3>3. QED
      BY <1>5, <3>1, <3>2
  <2>3. QED
    BY <2>1, <2>2, MoneyStep
<1>6. ASSUME NEW w \in Workers, NEW p \in Products, NEW q \in 1 .. MaxQty, AddItem(w, p, q)
      PROVE  MoneyInv'
  <2> DEFINE c == worker[w].cart
  <2> DEFINE joins == Lines(c) = {} /\ worker[w].currency # Currency[p]
  <2> DEFINE row == [carts[c] EXCEPT !.lines[p] = @ + q, !.saved = @ \ {p},
                                     !.currency = IF joins THEN Currency[p] ELSE @]
  <2>1. worker[w].at = "cart" /\ c \in Carts /\ carts[c] \in CartRows
    BY <1>6, WorkerShapes DEF AddItem, Base, CartTypeOK, RowsInv, Holding, Exists
  <2>2. carts' = [carts EXCEPT ![c] = row] /\ worker' = [worker EXCEPT ![w] = Idle]
        /\ UNCHANGED orders /\ (Lines(c) = {} \/ worker[w].currency = Currency[p])
    BY <1>6 DEF AddItem
  <2>3. row.currency = IF joins THEN Currency[p] ELSE carts[c].currency
    <3> HIDE DEF joins
    <3>1. QED
      BY <2>1 DEF CartRows
  <2>4. SameCurrency => \A r \in Products : row.currency = Currency[r]
    <3> HIDE DEF row
    <3>1. QED
      BY <2>1, <2>2, <2>3 DEF MoneyInv, SameCurrency
  <2> HIDE DEF row, c
  <2>5. QED
    BY <2>1, <2>2, <2>4, MoneyRewritten
<1>7. ASSUME NEW w \in Workers, NEW p \in Products, NEW q \in 0 .. MaxQty, UpdateItem(w, p, q)
      PROVE  MoneyInv'
  <2> DEFINE c == worker[w].cart
  <2> DEFINE row == [carts[c] EXCEPT !.lines[p] = q,
                                     !.saved = IF q = 0 THEN @ \ {p} ELSE @]
  <2>1. c \in Carts /\ Exists(c) /\ carts[c] \in CartRows
    BY <1>7, WorkerShapes DEF UpdateItem, Base, CartTypeOK, RowsInv, Holding, Exists
  <2>2. carts' = [carts EXCEPT ![c] = row] /\ worker' = [worker EXCEPT ![w] = Idle]
        /\ UNCHANGED orders /\ Lines(c) # {}
    BY <1>7 DEF UpdateItem
  <2>3. row.currency = carts[c].currency
    BY <2>1 DEF CartRows
  <2> HIDE DEF row, c
  <2>4. QED
    BY <2>1, <2>2, <2>3, MoneyRewritten
<1>8. ASSUME NEW w \in Workers, NEW later \in BOOLEAN, MoveLine(w, later) PROVE MoneyInv'
  <2> DEFINE c == worker[w].cart
  <2> DEFINE line == worker[w].product
  <2> DEFINE row == [carts[c] EXCEPT !.lines[line] = worker[w].quantity,
                       !.saved = IF later THEN @ \cup {line} ELSE @ \ {line}]
  <2>1. c \in Carts /\ Exists(c) /\ carts[c] \in CartRows
    BY <1>8, WorkerShapes DEF MoveLine, Base, CartTypeOK, RowsInv, Moving, Exists
  <2>2. carts' = [carts EXCEPT ![c] = row] /\ worker' = [worker EXCEPT ![w] = Idle]
        /\ UNCHANGED orders /\ Lines(c) # {}
    BY <1>8 DEF MoveLine
  <2>3. row.currency = carts[c].currency
    BY <2>1 DEF CartRows
  <2> HIDE DEF row, c
  <2>4. QED
    BY <2>1, <2>2, <2>3, MoneyRewritten
<1>9. ASSUME NEW w \in Workers, NEW k \in Orders, NEW c \in Carts, Reorder(w, k, c)
      PROVE  MoneyInv'
  <2> DEFINE old == IF Exists(c) THEN carts[c] ELSE NewCart(worker[w].seen)
  <2> DEFINE again == {p \in Products : orders[k].lines[p] # 0}
  <2>1. PICK money \in Currencies :
          /\ \A p \in again : Currency[p] = money
          /\ carts' = [carts EXCEPT ![c] = [old EXCEPT
               !.lines = [p \in Products |-> old.lines[p] + orders[k].lines[p]],
               !.saved = @ \ again,
               !.currency = money]]
    BY <1>9 DEF Reorder
  <2> DEFINE row == [old EXCEPT
               !.lines = [p \in Products |-> old.lines[p] + orders[k].lines[p]],
               !.saved = @ \ again,
               !.currency = money]
  <2>2. worker' = [worker EXCEPT ![w] = Idle] /\ UNCHANGED orders /\ orders[k] # None
    BY <1>9 DEF Reorder
  <2>3. row.currency = money
    <3>1. worker[w] \in Opened
      BY <1>9, WorkerShapes DEF Reorder, Base
    <3>2. old \in CartRows
      BY <3>1, CartAssumption DEF NewCart, CartRows, Opened, Sessions, Currencies, Base,
            CartTypeOK, Exists
    <3> HIDE DEF old
    <3>3. QED
      BY <3>2 DEF CartRows
  <2>4. SameCurrency => \A p \in Products : row.currency = Currency[p]
    <3>1. SameCurrency => again # {}
      BY <2>2 DEF MoneyInv
    <3> HIDE DEF row, again
    <3>2. again \subseteq Products
      BY DEF again
    <3>3. QED
      BY <2>1, <2>3, <3>1, <3>2 DEF SameCurrency
  <2>5. carts' = [carts EXCEPT ![c] = row]
    BY <2>1
  <2> HIDE DEF row
  <2>6. QED
    BY <2>2, <2>4, <2>5, MoneyRewritten
<1>10. ASSUME NEW w \in Workers, Checkout(w) PROVE MoneyInv'
  <2> DEFINE k == worker[w].seen.form.order
  <2> DEFINE c == worker[w].seen.form.cart
  <2> DEFINE next == [at |-> "sold", from |-> worker[w].from, seen |-> worker[w].seen,
                      order |-> k]
  <2>1. worker' = [worker EXCEPT ![w] = next] /\ next.at = "sold"
    BY <1>10 DEF Checkout
  <2>2. c \in Carts /\ k \in Orders /\ Exists(c)
    <3>1. worker[w].seen \in Views /\ worker[w].seen.form # None
      BY <1>10 DEF Checkout, Views, Seeing
    <3>2. QED
      BY <3>1, FormCarts
  <2>3. CASE UNCHANGED <<carts, orders>>
    <3> HIDE DEF next
    <3>1. worker'[w].at # "cart" /\ \A v \in Workers : v # w => worker'[v] = worker[v]
      BY <2>1 DEF Base, CartTypeOK
    <3>2. QED
      BY <1>1, <2>3, <3>1
  <2>4. CASE ~UNCHANGED <<carts, orders>>
    <3> DEFINE sold == [p \in Products |-> IF p \in ForSale(c) THEN carts[c].lines[p] ELSE 0]
    <3>1. /\ orders' = [orders EXCEPT ![k] =
               [cart |-> c, user |-> worker[w].seen.user, visit |-> worker[w].seen.visit,
                live |-> TRUE, lines |-> sold]]
          /\ carts' = [carts EXCEPT ![c].active = FALSE]
          /\ ForSale(c) # {}
      BY <1>10, <2>4 DEF Checkout
    <3>2. \E p \in Products : sold[p] # 0
      BY <3>1 DEF ForSale, Lines
    <3>3. /\ orders'[k].lines = sold
          /\ \A j \in Orders : j # k => orders'[j] = orders[j]
      <4> HIDE DEF sold, k, c
      <4>1. QED
        BY <2>2, <3>1 DEF Base, CartTypeOK
    <3>4. \A d \in Carts : Exists(d)' => Priced(d)
      <4> HIDE DEF c
      <4>1. \A d \in Carts : d # c => carts'[d] = carts[d]
        BY <3>1 DEF Base, CartTypeOK
      <4>2. carts'[c].lines = carts[c].lines /\ carts'[c].currency = carts[c].currency
        BY <2>2, <3>1 DEF Base, CartTypeOK, CartRows, Exists
      <4>3. QED
        BY <2>2, <4>1, <4>2 DEF Priced, Exists, Lines
    <3>5. \A v \in Workers : worker'[v] = worker[v] \/ worker'[v].at # "cart"
      <4> HIDE DEF next
      <4>1. QED
        BY <2>1 DEF Base, CartTypeOK
    <3> HIDE DEF sold
    <3>6. QED
      BY <3>2, <3>3, <3>4, <3>5, MoneyStep
  <2>5. QED
    BY <2>3, <2>4
<1>11. ASSUME NEW k \in Orders, PaymentFails(k) PROVE MoneyInv'
  <2> DEFINE c == orders[k].cart
  <2>1. orders[k] # None /\ c \in Carts /\ carts[c] \in CartRows
    BY <1>11 DEF PaymentFails, Base, CartTypeOK, RowsInv, OrderRows, Exists
  <2>2. /\ orders' = [orders EXCEPT ![k].live = FALSE]
        /\ carts' = [carts EXCEPT ![c].active = TRUE]
        /\ UNCHANGED worker
    BY <1>11 DEF PaymentFails
  <2>3. \A j \in Orders : orders'[j] # None =>
          orders[j] # None /\ orders'[j].lines = orders[j].lines
    BY <2>1, <2>2 DEF Base, CartTypeOK, OrderRows
  <2> HIDE DEF c
  <2>4. \A d \in Carts : Exists(d)' => Priced(d)
    <3>1. \A d \in Carts : d # c => carts'[d] = carts[d]
      BY <2>2 DEF Base, CartTypeOK
    <3>2. carts'[c].lines = carts[c].lines /\ carts'[c].currency = carts[c].currency
      BY <2>1, <2>2 DEF Base, CartTypeOK, CartRows
    <3>3. QED
      BY <2>1, <3>1, <3>2, CartAssumption DEF Priced, Exists, Lines
  <2>5. QED
    BY <2>2, <2>3, <2>4, MoneyStep
<1>12. ASSUME NEW b \in Browsers, NEW k \in Keys,
              \/ FirstFactor(b, k) \/ SignOut(b, k) \/ \E u \in Users : SignIn(b, u, k)
       PROVE  MoneyInv'
  <2>1. UNCHANGED <<carts, orders, worker>>
    BY <1>12 DEF FirstFactor, SignOut, SignIn
  <2>2. QED
    BY <2>1, MoneyElsewhere
<1>13. CASE UNCHANGED cartVars
  <2>1. UNCHANGED <<carts, orders, worker>>
    BY <1>13 DEF cartVars
  <2>2. QED
    BY <2>1, MoneyElsewhere
<1>14. QED
  BY <1>2, <1>3, <1>4, <1>5, <1>6, <1>7, <1>8, <1>9, <1>10, <1>11, <1>12, <1>13 DEF CartNext

\* A cart holds one currency, however adding, taking out, ordering again and
\* reopening interleave, in a shop whose products share one.
THEOREM CartsKeepOneCurrency == CartSpec => []OneCurrency
<1>1. CartInit => MoneyInv
  BY DEF CartInit, MoneyInv, Exists, Idle
<1>2. MoneyInv => OneCurrency
  BY DEF MoneyInv, OneCurrency, SameCurrency, Lines
<1>3. QED
  BY <1>1, <1>2, CartInitBase, StepBase, StepMoneyInv, PTL DEF CartSpec

=============================================================================
