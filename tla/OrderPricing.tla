---------------------------- MODULE OrderPricing ----------------------------
(***************************************************************************)
(* How a request becomes an order: validateMenu of restaurant-svc answers  *)
(* with the rows of the menu, CreateOrder of order-svc joins them with the *)
(* quantities of the request.                                              *)
(* src/services/restaurant/internal/handler/handler.go,                    *)
(* src/services/order/internal/service/service.go.                         *)
(*                                                                         *)
(* Prices are natural numbers (cents); the code adds them as float64.      *)
(* Nothing in the code changes a menu after Seed: it is a constant.        *)
(***************************************************************************)
EXTENDS Integers, Sequences, FiniteSets, Functions, SequencesExt, TLC

CONSTANTS
    Restaurants,     \* the rows of restaurants
    Open,            \* those with is_open
    MenuItems,       \* the rows of menu_items
    Menu             \* menu item -> [restaurant, price, available]

ASSUME MenuAssumption ==
    /\ Open \subseteq Restaurants /\ IsFiniteSet(MenuItems)
    /\ Menu \in [MenuItems ->
                   [restaurant : Restaurants, price : Nat, available : BOOLEAN]]

\* A line of a request names an item by its id, which need not exist.
Line(i, n) == [item |-> i, quantity |-> n]
ItemIds(lines) == {lines[k].item : k \in DOMAIN lines}

-----------------------------------------------------------------------------
\* SELECT ... WHERE restaurant_id = $1 AND id = ANY ($2) AND available: a set
\* of rows, however often an id is asked for.
GetMenuItems(r, ids) ==
    {i \in MenuItems \cap ids : Menu[i].restaurant = r /\ Menu[i].available}

\* Mutant: it is enough that something was found.
FoundSome(r, lines) == GetMenuItems(r, ItemIds(lines)) # {}

FoundAll(r, lines) == Cardinality(GetMenuItems(r, ItemIds(lines))) = Len(lines)

\* The restaurant exists and is open; ids are asked for, and each is found.
ValidateMenu(r, lines) == r \in Open /\ Len(lines) > 0 /\ FoundAll(r, lines)

\* qtyMap[item.MenuItemID] = item.Quantity, line after line: the last one stays.
LastLine(lines, i) == Max({k \in DOMAIN lines : lines[k].item = i})
QtyMap(lines) == [i \in ItemIds(lines) |-> lines[LastLine(lines, i)].quantity]

QuantitiesOK(r, lines) ==
    \A i \in GetMenuItems(r, ItemIds(lines)) : QtyMap(lines)[i] > 0

PriceOf(quantities) ==
    FoldFunction(+, 0, [i \in DOMAIN quantities |-> Menu[i].price * quantities[i]])

\* The row that CreateOrder inserts.
NewOrder(r, lines) ==
    LET bought == [i \in GetMenuItems(r, ItemIds(lines)) |-> QtyMap(lines)[i]]
    IN  [restaurant |-> r, items |-> bought, total |-> PriceOf(bought)]

-----------------------------------------------------------------------------
\* What a request asks for, read as a customer would: the quantities of all
\* the lines that name an item, added up.
Asked(lines, i) ==
    FoldLeft(LAMBDA n, l : IF l.item = i THEN n + l.quantity ELSE n, 0, lines)

\* The total of the request.
Reckoned(lines) == FoldLeft(LAMBDA n, l : n + l.quantity * Menu[l.item].price, 0, lines)

\* The order is exactly the request, from an open restaurant that sells it.
Honours(order, r, lines) ==
    /\ order.restaurant = r /\ r \in Open
    /\ DOMAIN order.items = ItemIds(lines)
    /\ \A i \in ItemIds(lines) :
          /\ i \in MenuItems /\ Menu[i].restaurant = r /\ Menu[i].available
          /\ order.items[i] = Asked(lines, i) /\ order.items[i] > 0
    /\ order.total = Reckoned(lines)
=============================================================================
