----------------------------- MODULE MCCheckout -----------------------------
(***************************************************************************)
(* An open restaurant, whose second item is sold out, and a closed one;    *)
(* and the requests that a client other than the cart may send: no lines,  *)
(* lines that repeat an item, name an unknown one or one of another        *)
(* restaurant, and quantities of zero.                                     *)
(***************************************************************************)
EXTENDS Checkout

CONSTANTS r1, r2, pizza, gone, soup, unknown

MCRestaurants == {r1, r2}
MCOpen == {r1}
MCMenuItems == {pizza, gone, soup}
MCMenu == [i \in MCMenuItems |->
    CASE i = pizza -> [restaurant |-> r1, price |-> 5, available |-> TRUE]
      [] i = gone  -> [restaurant |-> r1, price |-> 2, available |-> FALSE]
      [] i = soup  -> [restaurant |-> r2, price |-> 7, available |-> TRUE]]

OneLine == [1..1 -> [item : {pizza, gone, unknown}, quantity : 0..2]]
Repeated == [1..2 -> [item : {pizza}, quantity : 1..2]]
Mixed == {<<Line(pizza, 2), Line(i, 1)>> : i \in {soup, gone, unknown}}

MCRequests ==
    [restaurant : {r1}, lines : {<<>>} \cup OneLine \cup Repeated \cup Mixed]
    \cup {[restaurant |-> r2, lines |-> <<Line(soup, 1)>>]}
=============================================================================
