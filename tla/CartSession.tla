---------------------------- MODULE CartSession ----------------------------
(***************************************************************************)
(* Carts before checkout and the browser sessions they hang on:            *)
(* current_cart, add_item and update_item (apps/cart/services.py), the     *)
(* views around them (apps/cart/views.py), reordering                      *)
(* (apps/orders/services.py) and signing in and out (apps/accounts).       *)
(*                                                                         *)
(* A request loads the session once, then runs one transaction after       *)
(* another, and writes the whole session back when it answers; each of     *)
(* these is an action.  A session written back under a key that is gone    *)
(* is refused by the session store.                                        *)
(***************************************************************************)
EXTENDS Sequences, Integers

CONSTANTS
    Browsers,           \* each has one session at a time
    Users,              \* customers who can sign in
    Guest,              \* request.user and Cart.user when null
    Keys,               \* session keys, each drawn at most once
    Carts,              \* cart rows that can be created
    Orders,             \* checkout tokens, each names the order made under it
    Workers,            \* web workers
    Products,
    Currency,           \* Product.currency
    DefaultCurrency,    \* default of Cart.currency
    MaxQty,             \* units of one product in stock; a bound of the model
    None                \* absence of a cart, an order, a form or a key

Currencies == {Currency[p] : p \in Products} \cup {DefaultCurrency}

VARIABLES
    session,    \* the session of each browser
    drawn,      \* session keys in use now or before
    carts,      \* Cart rows with their lines
    recent,     \* carts by updated_at, the latest last
    issued,     \* checkout tokens handed out
    orders,     \* Order rows, by token
    worker      \* the request each worker is in the middle of

cartVars == <<session, drawn, carts, recent, issued, orders, worker>>

Buyers == Users \cup {Guest}
CheckoutForms == [order : Orders, cart : Carts]
Forms == CheckoutForms \cup {None}

\* "visit" is a history variable: the key under which the browser was last a
\* stranger.  Signing in changes the key within a visit.
Sessions == [key : Keys, visit : Keys, user : Buyers, form : Forms,
             orders : SUBSET Orders]

\* A line is in the cart when its quantity is not zero.
CartRows == [user : Buyers, key : Keys \cup {None}, visit : Keys,
             active : BOOLEAN, currency : Currencies,
             lines : [Products -> 0 .. MaxQty], saved : SUBSET Products]
OrderRows == [cart : Carts, user : Buyers, visit : Keys, live : BOOLEAN,
              lines : [Products -> 0 .. MaxQty]]

ASSUME CartAssumption ==
    /\ MaxQty \in Nat
    /\ Guest \notin Users
    /\ None \notin Keys
    /\ None \notin CheckoutForms
    /\ None \notin CartRows
    /\ None \notin OrderRows

Idle == [at |-> "idle"]
Opened == [at : {"open"}, from : Browsers, seen : Sessions]
Holding == [at : {"cart"}, from : Browsers, seen : Sessions, cart : Carts,
            currency : Currencies]
Moving == [at : {"move"}, cart : Carts, product : Products,
           quantity : 0 .. MaxQty]
Sold == [at : {"sold"}, from : Browsers, seen : Sessions, order : Orders]

CartTypeOK ==
    /\ session \in [Browsers -> Sessions]
    /\ drawn \subseteq Keys
    /\ carts \in [Carts -> CartRows \cup {None}]
    /\ issued \subseteq Orders
    /\ orders \in [Orders -> OrderRows \cup {None}]
    /\ worker \in [Workers -> Opened \cup Holding \cup Moving \cup Sold \cup {Idle}]

NewSession(k) == [key |-> k, visit |-> k, user |-> Guest, form |-> None, orders |-> {}]

CartInit ==
    /\ session \in [Browsers -> {NewSession(k) : k \in Keys}]
    /\ \A a, b \in Browsers : session[a].key = session[b].key => a = b
    /\ drawn = {session[b].key : b \in Browsers}
    /\ carts = [c \in Carts |-> None]
    /\ recent = <<>>
    /\ issued = {}
    /\ orders = [k \in Orders |-> None]
    /\ worker = [w \in Workers |-> Idle]

-----------------------------------------------------------------------------
(* Rows *)

Exists(c) == carts[c] # None
Lines(c) == {p \in Products : carts[c].lines[p] # 0}
ForSale(c) == Lines(c) \ carts[c].saved

\* Active carts of a customer, and the one with the latest updated_at.
UserCarts(u) == {c \in Carts : Exists(c) /\ carts[c].user = u /\ carts[c].active}
Newest(c, u) ==
    \E i \in DOMAIN recent :
        /\ recent[i] = c
        /\ c \in UserCarts(u)
        /\ \A j \in DOMAIN recent : j > i => recent[j] \notin UserCarts(u)

\* Carts with a session key; the key is unique among all rows.
KeyCarts(k) == {c \in Carts : Exists(c) /\ carts[c].key = k}

Touched(c) == Append(SelectSeq(recent, LAMBDA d : d # c), c)

NewCart(s) ==
    [user |-> s.user, key |-> IF s.user = Guest THEN s.key ELSE None,
     visit |-> s.visit, active |-> TRUE, currency |-> DefaultCurrency,
     lines |-> [p \in Products |-> 0], saved |-> {}]

\* The session is written back unless its key is gone.
SaveSession(r, form, shown) ==
    session' = IF session[r.from].key = r.seen.key
               THEN [session EXCEPT ![r.from] =
                       [r.seen EXCEPT !.form = form, !.orders = shown]]
               ELSE session

-----------------------------------------------------------------------------
(* Requests *)

Request(w, b) ==
    /\ worker[w] = Idle
    /\ worker' = [worker EXCEPT ![w] = [at |-> "open", from |-> b, seen |-> session[b]]]
    /\ UNCHANGED <<session, drawn, carts, recent, issued, orders>>

\* The answer of a request that changes nothing more: a page that was shown, a
\* refusal, an exception, a dead worker.
EndRequest(w) ==
    /\ worker[w] # Idle
    /\ worker' = [worker EXCEPT ![w] = Idle]
    /\ UNCHANGED <<session, drawn, carts, recent, issued, orders>>

Hold(w, c) ==
    worker' = [worker EXCEPT ![w] =
        [at |-> "cart", from |-> worker[w].from, seen |-> worker[w].seen,
         cart |-> c, currency |-> carts'[c].currency]]

\* current_cart.  Without a cart of its own a session gets a new one; a guest
\* whose key is on a cart that was checked out does not: the insert fails.  A
\* customer's session key is on no cart (NoCartToMerge), so the branch that
\* merges one is never taken.
FindCart(w, c) ==
    LET s == worker[w].seen IN
    /\ worker[w].at = "open"
    /\ \/ s.user = Guest /\ c \in KeyCarts(s.key) /\ carts[c].active
       \/ s.user # Guest /\ KeyCarts(s.key) = {} /\ Newest(c, s.user)
    /\ UNCHANGED carts
    /\ Hold(w, c)
    /\ UNCHANGED <<session, drawn, recent, issued, orders>>

CreateCart(w, c) ==
    LET s == worker[w].seen IN
    /\ worker[w].at = "open"
    /\ ~Exists(c)
    /\ KeyCarts(s.key) = {}
    /\ s.user # Guest => UserCarts(s.user) = {}
    /\ carts' = [carts EXCEPT ![c] = NewCart(s)]
    /\ recent' = Append(recent, c)
    /\ Hold(w, c)
    /\ UNCHANGED <<session, drawn, issued, orders>>

\* Faulty variant: the currency is set while the cart has its first line.
AddItemAfterLine(w, p, q) ==
    LET r == worker[w]
        c == r.cart
        joins == Lines(c) # {} /\ r.currency # Currency[p]
    IN
    /\ r.at = "cart"
    /\ carts[c].lines[p] + q <= MaxQty
    /\ carts' = [carts EXCEPT
         ![c].lines[p] = @ + q,
         ![c].saved = @ \ {p},
         ![c].currency = IF joins THEN Currency[p] ELSE @]
    /\ recent' = IF joins THEN Touched(c) ELSE recent
    /\ worker' = [worker EXCEPT ![w] = Idle]
    /\ UNCHANGED <<session, drawn, issued, orders>>

\* Faulty variant: only the units added are compared with the stock.
AddItemUnchecked(w, p, q) ==
    LET c == worker[w].cart IN
    /\ worker[w].at = "cart"
    /\ Lines(c) = {} \/ worker[w].currency = Currency[p]
    /\ carts' = [carts EXCEPT
         ![c].lines[p] = @ + q,
         ![c].saved = @ \ {p},
         ![c].currency = Currency[p]]
    /\ worker' = [worker EXCEPT ![w] = Idle]
    /\ UNCHANGED <<session, drawn, recent, issued, orders>>

\* add_item: compares with the currency the row had when it was read.
AddItem(w, p, q) ==
    LET r == worker[w]
        c == r.cart
        joins == Lines(c) = {} /\ r.currency # Currency[p]
    IN
    /\ r.at = "cart"
    /\ Lines(c) = {} \/ r.currency = Currency[p]
    /\ carts[c].lines[p] + q <= MaxQty
    /\ carts' = [carts EXCEPT
         ![c].lines[p] = @ + q,
         ![c].saved = @ \ {p},
         ![c].currency = IF joins THEN Currency[p] ELSE @]
    /\ recent' = IF joins THEN Touched(c) ELSE recent
    /\ worker' = [worker EXCEPT ![w] = Idle]
    /\ UNCHANGED <<session, drawn, issued, orders>>

\* update_item from the quantity field or the remove button; a line of no
\* units is deleted.
UpdateItem(w, p, q) ==
    LET c == worker[w].cart IN
    /\ worker[w].at = "cart"
    /\ p \in Lines(c)
    /\ carts' = [carts EXCEPT
         ![c].lines[p] = q,
         ![c].saved = IF q = 0 THEN @ \ {p} ELSE @]
    /\ worker' = [worker EXCEPT ![w] = Idle]
    /\ UNCHANGED <<session, drawn, recent, issued, orders>>

\* cart_save_for_later and cart_restore read the quantity first.
ReadLine(w, p) ==
    LET c == worker[w].cart IN
    /\ worker[w].at = "cart"
    /\ p \in Lines(c)
    /\ worker' = [worker EXCEPT ![w] =
         [at |-> "move", cart |-> c, product |-> p, quantity |-> carts[c].lines[p]]]
    /\ UNCHANGED <<session, drawn, carts, recent, issued, orders>>

MoveLine(w, later) ==
    LET c == worker[w].cart
        p == worker[w].product
    IN
    /\ worker[w].at = "move"
    /\ p \in Lines(c)
    /\ carts' = [carts EXCEPT
         ![c].lines[p] = worker[w].quantity,
         ![c].saved = IF later THEN @ \cup {p} ELSE @ \ {p}]
    /\ worker' = [worker EXCEPT ![w] = Idle]
    /\ UNCHANGED <<session, drawn, recent, issued, orders>>

\* reorder_order: all lines of an earlier order, into the cart as it is.
Reorder(w, k, c) ==
    LET s == worker[w].seen
        row == IF Exists(c) THEN carts[c] ELSE NewCart(s)
        again == {p \in Products : orders[k].lines[p] # 0}
        inCart == {p \in Products : row.lines[p] # 0}
    IN
    /\ worker[w].at = "open"
    /\ s.user # Guest
    /\ orders[k] # None
    /\ orders[k].user = s.user
    /\ IF UserCarts(s.user) = {} THEN ~Exists(c) ELSE Newest(c, s.user)
    /\ \A p \in again : row.lines[p] + orders[k].lines[p] <= MaxQty
    /\ \E money \in Currencies :
         /\ \A p \in again : Currency[p] = money
         /\ inCart # {} => money = row.currency
         /\ carts' = [carts EXCEPT ![c] = [row EXCEPT
              !.lines = [p \in Products |-> row.lines[p] + orders[k].lines[p]],
              !.saved = @ \ again,
              !.currency = money]]
         /\ recent' = IF Exists(c) /\ money = row.currency THEN recent ELSE Touched(c)
    /\ worker' = [worker EXCEPT ![w] = Idle]
    /\ UNCHANGED <<session, drawn, issued, orders>>

-----------------------------------------------------------------------------
(* Checkout *)

\* checkout, GET: a new token and the cart it is for go into the session.
ShowForm(w, k) ==
    LET r == worker[w] IN
    /\ r.at = "cart"
    /\ ForSale(r.cart) # {}
    /\ k \in Orders \ issued
    /\ issued' = issued \cup {k}
    /\ SaveSession(r, [order |-> k, cart |-> r.cart], r.seen.orders)
    /\ worker' = [worker EXCEPT ![w] = Idle]
    /\ UNCHANGED <<drawn, carts, recent, orders>>

\* checkout, POST: the transaction of _checkout, under the token and for the
\* cart of the session.  A repeated token returns the order there is.
Checkout(w) ==
    LET r == worker[w]
        k == r.seen.form.order
        c == r.seen.form.cart
    IN
    /\ r.at = "open"
    /\ r.seen.form # None
    /\ \/ /\ orders[k] # None
          /\ UNCHANGED <<carts, recent, orders>>
       \/ /\ orders[k] = None
          /\ carts[c].active
          /\ ForSale(c) # {}
          /\ orders' = [orders EXCEPT ![k] =
               [cart |-> c, user |-> r.seen.user, visit |-> r.seen.visit, live |-> TRUE,
                lines |-> [p \in Products |->
                             IF p \in ForSale(c) THEN carts[c].lines[p] ELSE 0]]]
          /\ carts' = [carts EXCEPT ![c].active = FALSE]
          /\ recent' = Touched(c)
    /\ worker' = [worker EXCEPT ![w] =
         [at |-> "sold", from |-> r.from, seen |-> r.seen, order |-> k]]
    /\ UNCHANGED <<session, drawn, issued>>

\* The end of that request: the form is dropped, a guest's order is noted.
FinishCheckout(w) ==
    LET r == worker[w] IN
    /\ r.at = "sold"
    /\ SaveSession(r, None, IF r.seen.user = Guest
                            THEN r.seen.orders \cup {r.order} ELSE r.seen.orders)
    /\ worker' = [worker EXCEPT ![w] = Idle]
    /\ UNCHANGED <<drawn, carts, recent, issued, orders>>

\* Faulty variant: a payment fails as often as it is told to.
PaymentFailsEachTime(k) ==
    /\ orders[k] # None
    /\ orders' = [orders EXCEPT ![k].live = FALSE]
    /\ carts' = [carts EXCEPT ![orders[k].cart].active = TRUE]
    /\ recent' = Touched(orders[k].cart)
    /\ UNCHANGED <<session, drawn, issued, worker>>

\* mark_payment_failed: the cart of the order is opened again.
PaymentFails(k) ==
    /\ orders[k] # None
    /\ orders[k].live
    /\ orders' = [orders EXCEPT ![k].live = FALSE]
    /\ carts' = [carts EXCEPT ![orders[k].cart].active = TRUE]
    /\ recent' = Touched(orders[k].cart)
    /\ UNCHANGED <<session, drawn, issued, worker>>

-----------------------------------------------------------------------------
(* Accounts *)

\* Faulty variant: what was in the session stays, whoever signs in.
SignInKeepsData(b, u, k) ==
    /\ k \in Keys \ drawn
    /\ drawn' = drawn \cup {k}
    /\ session[b].user # u
    /\ session' = [session EXCEPT ![b] =
         IF session[b].user = Guest
         THEN [@ EXCEPT !.key = k, !.user = u]
         ELSE [@ EXCEPT !.key = k, !.user = u, !.visit = k]]
    /\ UNCHANGED <<carts, recent, issued, orders, worker>>

\* Faulty variant: the session keeps its key.
SignInKeepsKey(b, u, k) ==
    /\ k \in Keys \ drawn
    /\ session[b].user # u
    /\ session' = [session EXCEPT ![b] = [@ EXCEPT !.user = u]]
    /\ UNCHANGED <<drawn, carts, recent, issued, orders, worker>>

\* login: a guest's session gets a new key and keeps its data; the session of
\* another customer is flushed.
SignIn(b, u, k) ==
    /\ k \in Keys \ drawn
    /\ drawn' = drawn \cup {k}
    /\ session[b].user # u
    /\ session' = [session EXCEPT ![b] =
         IF session[b].user = Guest
         THEN [@ EXCEPT !.key = k, !.user = u]
         ELSE [NewSession(k) EXCEPT !.user = u]]
    /\ UNCHANGED <<carts, recent, issued, orders, worker>>

\* The password was right and a code is asked for: the key changes already, also
\* that of a customer who is signed in.
FirstFactor(b, k) ==
    /\ k \in Keys \ drawn
    /\ drawn' = drawn \cup {k}
    /\ session' = [session EXCEPT ![b].key = k]
    /\ UNCHANGED <<carts, recent, issued, orders, worker>>

\* Faulty variant: the guest's orders stay in the session.
SignOutKeepsOrders(b, k) ==
    /\ k \in Keys \ drawn
    /\ drawn' = drawn \cup {k}
    /\ session[b].user # Guest
    /\ session' = [session EXCEPT ![b] = [NewSession(k) EXCEPT !.orders = session[b].orders]]
    /\ UNCHANGED <<carts, recent, issued, orders, worker>>

\* logout flushes the session.
SignOut(b, k) ==
    /\ k \in Keys \ drawn
    /\ drawn' = drawn \cup {k}
    /\ session[b].user # Guest
    /\ session' = [session EXCEPT ![b] = NewSession(k)]
    /\ UNCHANGED <<carts, recent, issued, orders, worker>>

CartNext ==
    \/ \E w \in Workers :
        \/ EndRequest(w) \/ Checkout(w) \/ FinishCheckout(w)
        \/ \E b \in Browsers : Request(w, b)
        \/ \E c \in Carts : FindCart(w, c) \/ CreateCart(w, c)
        \/ \E p \in Products, q \in 1 .. MaxQty : AddItem(w, p, q)
        \/ \E p \in Products, q \in 0 .. MaxQty : UpdateItem(w, p, q)
        \/ \E p \in Products : ReadLine(w, p)
        \/ \E later \in BOOLEAN : MoveLine(w, later)
        \/ \E k \in Orders : ShowForm(w, k)
        \/ \E k \in Orders, c \in Carts : Reorder(w, k, c)
    \/ \E k \in Orders : PaymentFails(k)
    \/ \E b \in Browsers, k \in Keys :
        \/ FirstFactor(b, k) \/ SignOut(b, k)
        \/ \E u \in Users : SignIn(b, u, k)

CartSpec == CartInit /\ [][CartNext]_cartVars

-----------------------------------------------------------------------------

\* "A cart holds one currency": in a shop whose products share one, every cart
\* with lines has it, however adding, taking out, ordering again and reopening
\* interleave.  (With products in two currencies two requests that both read the
\* empty cart put one of each into it.)
OneCurrency ==
    (\A p, q \in Products : Currency[p] = Currency[q]) =>
        \A c \in Carts : Exists(c) =>
            \A p \in Lines(c) : carts[c].currency = Currency[p]

\* An order is for the cart of its buyer, or for a guest's cart of the same
\* visit: the cart remembered with the checkout form outlives a sign-in but
\* never reaches the next person at the browser.
OrdersSellOwnCarts ==
    \A k \in Orders : orders[k] # None =>
        LET c == carts[orders[k].cart] IN
        IF c.user = Guest THEN c.visit = orders[k].visit ELSE c.user = orders[k].user

\* The guest orders a session may show were placed by a guest in that visit.
GuestOrdersStayHere ==
    \A b \in Browsers : \A k \in session[b].orders :
        orders[k] # None /\ orders[k].user = Guest /\ orders[k].visit = session[b].visit

\* However requests, forms and failed payments interleave, a cart is closed
\* exactly while one order on it is live.
ClosedForOneOrder ==
    /\ \A k, j \in Orders :
        orders[k] # None /\ orders[k].live /\ orders[j] # None /\ orders[j].live
            /\ orders[k].cart = orders[j].cart => k = j
    /\ \A c \in Carts : Exists(c) =>
        (~carts[c].active <=> \E k \in Orders :
            orders[k] # None /\ orders[k].live /\ orders[k].cart = c)

\* The key of a signed-in session is on no cart: current_cart never merges.
NoCartToMerge ==
    \A b \in Browsers : session[b].user # Guest => KeyCarts(session[b].key) = {}

=============================================================================
