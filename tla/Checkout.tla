------------------------------ MODULE Checkout ------------------------------
(***************************************************************************)
(* From the cart of a browser tab to a row in orders and its event:        *)
(* CartContext and the cart page of the frontend, createOrder of the       *)
(* gateway, CreateOrder of order-svc.  Calls take several steps, may fail  *)
(* at each, and may answer after the browser has given up or moved on.     *)
(* Other clients of the gateway send requests that no cart would.          *)
(***************************************************************************)
EXTENDS OrderPricing

CONSTANTS
    Nobody,         \* no restaurant, no order
    Requests,       \* what other clients send: records [restaurant, lines]
    MaxQuantity,    \* bound: how often one item is put in the cart
    MaxCalls,       \* bound: calls of createOrder
    MaxFaults       \* bound: failing steps and lost answers

ASSUME CheckoutBounds ==
    /\ MaxQuantity \in Nat \ {0} /\ MaxCalls \in Nat /\ MaxFaults \in Nat
    /\ Nobody \notin Restaurants

\* A request has a list of lines, whatever they name; a quantity is an int.
RequestLines == UNION {{req.lines[k] : k \in DOMAIN req.lines} : req \in Requests}

ASSUME RequestsAssumption ==
    /\ \A req \in Requests : req.lines \in Seq(RequestLines)
    /\ \A line \in RequestLines : line.quantity \in Int

VARIABLES
    cart,      \* CartContext: restaurantId and the quantities of items
    tab,       \* the page shown, isSubmitting and error of the cart page, token
    calls,     \* calls of createOrder, each with its step and who waits for it
    orders,    \* the rows of orders: call -> order
    created,   \* calls whose order.created was published
    faults

checkoutVars == <<cart, tab, calls, orders, created, faults>>

Pages == {"menu", "cart", "login", "orders", "order"}
Steps == {"user", "menu", "insert", "publish", "ok", "error"}
Waiting == {"page", "left", "nobody"}  \* the page that called, it is gone, answered

InCart == {i \in MenuItems : cart.items[i] > 0}
EmptyCart == [restaurant |-> Nobody, items |-> [i \in MenuItems |-> 0]]

-----------------------------------------------------------------------------
(***************************************************************************)
(* The cart.                                                               *)
(***************************************************************************)
\* Mutant: addItem sees the restaurant that setRestaurant has just set.
AddedToAny(i) ==
    [restaurant |-> Menu[i].restaurant, items |-> [cart.items EXCEPT ![i] = @ + 1]]

\* The button of a menu item: setRestaurant, then addItem, which still sees the
\* restaurant of the last rendering.
Added(i) ==
    [restaurant |-> Menu[i].restaurant,
     items |-> IF cart.restaurant \in {Nobody, Menu[i].restaurant}
               THEN [cart.items EXCEPT ![i] = @ + 1]
               ELSE [EmptyCart.items EXCEPT ![i] = 1]]

AddItem(i) ==
    /\ tab.page = "menu"
    /\ Menu[i].available \/ cart.items[i] > 0
    /\ cart.items[i] < MaxQuantity
    /\ cart' = Added(i)
    /\ UNCHANGED <<tab, calls, orders, created, faults>>

\* Less, more or none of an item; the restaurant stays when the last one goes.
UpdateQuantity(i, n) ==
    /\ cart.items[i] > 0
    /\ \/ tab.page = "menu" /\ n = cart.items[i] - 1
       \/ tab.page = "cart" /\ n \in {0, cart.items[i] - 1, cart.items[i] + 1}
    /\ n <= MaxQuantity
    /\ cart' = [cart EXCEPT !.items[i] = n]
    /\ UNCHANGED <<tab, calls, orders, created, faults>>

-----------------------------------------------------------------------------
(***************************************************************************)
(* The tab.  Leaving the cart page forgets isSubmitting and error, not the *)
(* call: its promise goes on, with the contexts that it closes over.       *)
(***************************************************************************)
Show(page) == [tab EXCEPT !.page = page, !.submitting = FALSE, !.failed = FALSE]

Leave(cs) == [c \in DOMAIN cs |->
                 IF cs[c].waits = "page" THEN [cs[c] EXCEPT !.waits = "left"] ELSE cs[c]]

\* The links of the header, and back and forward; a list of orders needs a token.
GoTo(page) ==
    /\ page \in {"menu", "cart", "login", "orders"} \ {tab.page}
    /\ page = "orders" => tab.token
    /\ tab' = Show(page)
    /\ calls' = Leave(calls)
    /\ UNCHANGED <<cart, orders, created, faults>>

\* A row of the list: any order that is stored, also one that another tab of the
\* customer has sent, and one whose order.created was never published.
OpenOrder(c) ==
    /\ tab.page = "orders" /\ tab.token
    /\ tab' = [Show("order") EXCEPT !.order = c]
    /\ UNCHANGED <<cart, calls, orders, created, faults>>

\* The login page, and the button of the header.
LogIn ==
    /\ tab.page = "login"
    /\ tab' = [Show("menu") EXCEPT !.token = TRUE]
    /\ UNCHANGED <<cart, calls, orders, created, faults>>

LogOut ==
    /\ tab.token
    /\ tab' = [Show("menu") EXCEPT !.token = FALSE]
    /\ calls' = Leave(calls)
    /\ UNCHANGED <<cart, orders, created, faults>>

\* The tab is loaded anew: only the token was in localStorage.
Reload ==
    /\ cart' = EmptyCart
    /\ tab' = Show(tab.page)
    /\ calls' = [c \in DOMAIN calls |-> [calls[c] EXCEPT !.waits = "nobody"]]
    /\ UNCHANGED <<orders, created, faults>>

NewCall(r, lines, waits) ==
    [restaurant |-> r, lines |-> lines, at |-> "user", waits |-> waits]

CartLines == LET items == SetToSeq(InCart)
             IN  [k \in DOMAIN items |-> Line(items[k], cart.items[items[k]])]

\* Mutant: the button is not disabled while the call is under way.
AlwaysEnabled == tab.page = "cart" /\ InCart # {}
ButtonEnabled == tab.page = "cart" /\ InCart # {} /\ ~tab.submitting

\* handleCheckout until its await.
PressCheckout ==
    /\ ButtonEnabled /\ cart.restaurant # Nobody
    /\ \/ ~tab.token /\ tab' = Show("login") /\ UNCHANGED calls
       \/ /\ tab.token /\ Len(calls) < MaxCalls
          /\ calls' = Append(calls, NewCall(cart.restaurant, CartLines, "page"))
          /\ tab' = [tab EXCEPT !.submitting = TRUE, !.failed = FALSE]
    /\ UNCHANGED <<cart, orders, created, faults>>

\* Some other client calls the gateway.
Send(req) ==
    /\ Len(calls) < MaxCalls
    /\ calls' = Append(calls, NewCall(req.restaurant, req.lines, "nobody"))
    /\ UNCHANGED <<cart, tab, orders, created, faults>>

-----------------------------------------------------------------------------
(***************************************************************************)
(* The call: authMiddleware and createOrder of the gateway, then           *)
(* CreateOrder of order-svc with its calls to user-svc and restaurant-svc, *)
(* its INSERT and its Publish.                                             *)
(***************************************************************************)
At(c, step) == calls[c].at = step
Goto(c, step) == calls' = [calls EXCEPT ![c].at = step]

\* A call, a statement or a publication fails, or the process dies.
Fault == faults < MaxFaults /\ faults' = faults + 1

\* The request has a restaurant and items, the token and the user are valid.
CheckUser(c) ==
    /\ At(c, "user")
    /\ \/ /\ Goto(c, IF calls[c].lines = <<>> THEN "error" ELSE "menu")
          /\ UNCHANGED faults
       \/ Goto(c, "error") /\ Fault
    /\ UNCHANGED <<cart, tab, orders, created>>

CheckMenu(c) ==
    /\ At(c, "menu")
    /\ \/ /\ Goto(c, IF ValidateMenu(calls[c].restaurant, calls[c].lines)
                        /\ QuantitiesOK(calls[c].restaurant, calls[c].lines)
                     THEN "insert" ELSE "error")
          /\ UNCHANGED faults
       \/ Goto(c, "error") /\ Fault
    /\ UNCHANGED <<cart, tab, orders, created>>

Inserted(c) ==
    orders' = [d \in DOMAIN orders \cup {c} |->
                  IF d = c THEN NewOrder(calls[c].restaurant, calls[c].lines) ELSE orders[d]]

\* repo.Create; the row may be there although an error is returned.
InsertOrder(c) ==
    /\ At(c, "insert")
    /\ \/ Inserted(c) /\ Goto(c, "publish") /\ UNCHANGED faults
       \/ (Inserted(c) \/ UNCHANGED orders) /\ Goto(c, "error") /\ Fault
    /\ UNCHANGED <<cart, tab, created>>

\* Mutant: the event gets an id of its own.
PublishedNew(c) == created' = created \cup {Len(calls) + 1}

Published(c) == created' = created \cup {c}

\* Mutant: the error of Publish is only logged.
PublishAndForget(c) ==
    /\ At(c, "publish")
    /\ \/ Published(c) /\ Goto(c, "ok") /\ UNCHANGED faults
       \/ UNCHANGED created /\ Goto(c, "ok") /\ Fault
    /\ UNCHANGED <<cart, tab, orders>>

\* Publish; the event may be there although an error is returned.
PublishCreated(c) ==
    /\ At(c, "publish")
    /\ \/ Published(c) /\ Goto(c, "ok") /\ UNCHANGED faults
       \/ (Published(c) \/ UNCHANGED created) /\ Goto(c, "error") /\ Fault
    /\ UNCHANGED <<cart, tab, orders>>

Work(c) == CheckUser(c) \/ CheckMenu(c) \/ InsertOrder(c) \/ PublishCreated(c)

-----------------------------------------------------------------------------
\* createOrder resolves: clearCart and router.push, whatever page is shown.
Succeed(c) ==
    /\ At(c, "ok") /\ calls[c].waits # "nobody"
    /\ cart' = EmptyCart
    /\ tab' = [Show("order") EXCEPT !.order = c]
    /\ calls' = Leave([calls EXCEPT ![c].waits = "nobody"])
    /\ UNCHANGED <<orders, created, faults>>

\* Mutant: only success ends the submission.
NotFinally(c) == IF calls[c].waits = "page" THEN [tab EXCEPT !.failed = TRUE] ELSE tab

\* setError and the finally of handleCheckout, if the page is still there.
Failed(c) == IF calls[c].waits = "page"
             THEN [tab EXCEPT !.failed = TRUE, !.submitting = FALSE] ELSE tab

\* createOrder rejects, because it was answered with an error ...
Fail(c) ==
    /\ At(c, "error") /\ calls[c].waits # "nobody"
    /\ tab' = Failed(c)
    /\ calls' = [calls EXCEPT ![c].waits = "nobody"]
    /\ UNCHANGED <<cart, orders, created, faults>>

\* ... or by a timeout of the gateway, while the call goes on or has succeeded.
GiveUp(c) ==
    /\ ~At(c, "error") /\ calls[c].waits # "nobody"
    /\ Fault
    /\ tab' = Failed(c)
    /\ calls' = [calls EXCEPT ![c].waits = "nobody"]
    /\ UNCHANGED <<cart, orders, created>>

-----------------------------------------------------------------------------
Init ==
    /\ cart = EmptyCart
    /\ tab = [page |-> "menu", submitting |-> FALSE, failed |-> FALSE,
              token |-> FALSE, order |-> 0]
    /\ calls = <<>>
    /\ orders = <<>>
    /\ created = {}
    /\ faults = 0

Customer ==
    \/ \E i \in MenuItems : AddItem(i)
    \/ \E i \in MenuItems, n \in 0..MaxQuantity : UpdateQuantity(i, n)
    \/ \E page \in Pages : GoTo(page)
    \/ \E c \in DOMAIN orders : OpenOrder(c)
    \/ LogIn
    \/ LogOut
    \/ Reload
    \/ PressCheckout

Next ==
    \/ Customer
    \/ \E req \in Requests : Send(req)
    \/ \E c \in DOMAIN calls : Work(c) \/ Succeed(c) \/ Fail(c) \/ GiveUp(c)

Spec == Init /\ [][Next]_checkoutVars

\* The servers go on with a call, and its answer arrives.
FairSpec ==
    /\ Spec
    /\ \A c \in 1..MaxCalls :
          WF_checkoutVars(c \in DOMAIN calls /\ (Work(c) \/ Succeed(c) \/ Fail(c)))

-----------------------------------------------------------------------------
\* Variables have their types; rows and events belong to calls.
CheckoutTypeOK ==
    /\ cart \in [restaurant : Restaurants \cup {Nobody}, items : [MenuItems -> 0..MaxQuantity]]
    /\ tab \in [page : Pages, submitting : BOOLEAN, failed : BOOLEAN, token : BOOLEAN,
                order : 0..MaxCalls]
    /\ Len(calls) <= MaxCalls
    /\ \A c \in DOMAIN calls : calls[c].at \in Steps /\ calls[c].waits \in Waiting
    /\ DOMAIN orders \subseteq DOMAIN calls /\ created \subseteq DOMAIN calls
    /\ faults \in 0..MaxFaults

\* The cart never mixes restaurants, in whatever order items of several
\* restaurants are added and removed.
CartOneRestaurant == \A i \in InCart : Menu[i].restaurant = cart.restaurant

\* Every order that is stored, by whoever it was sent, is what its request
\* asked for, at the prices of the menu.
OrderIsWhatWasAsked ==
    \A c \in DOMAIN orders : Honours(orders[c], calls[c].restaurant, calls[c].lines)

\* An order of which no service will ever hear, PENDING for good, is one whose
\* call is still to publish or has been answered with an error, whatever fails or
\* times out: nobody was told that it is placed, and no cart was emptied for it.
\* The customer may see it, in the list and on its page; but every order that a
\* page shows is stored, and so is every one that is announced.
PlacedIsAnnounced ==
    /\ \A c \in DOMAIN orders \ created : At(c, "publish") \/ At(c, "error")
    /\ tab.page = "order" => tab.order \in DOMAIN orders
    /\ created \subseteq DOMAIN orders

\* The button is disabled exactly while its page awaits an answer: one mounted
\* page never has two calls under way.
SubmitsOnce ==
    Cardinality({c \in DOMAIN calls : calls[c].waits = "page"})
      = (IF tab.submitting THEN 1 ELSE 0)

\* The button comes back, whatever fails.
SubmissionEnds == tab.submitting ~> ~tab.submitting
=============================================================================
