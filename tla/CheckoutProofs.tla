---------------------------- MODULE CheckoutProofs ---------------------------
(***************************************************************************)
(* Theorems about Checkout, for any menu, cart and number of calls, of     *)
(* whatever clients: the cart is of one restaurant, a page awaits one      *)
(* call, and no order that is placed is left without its event.            *)
(***************************************************************************)
EXTENDS Checkout, FiniteSetTheorems, WellFoundedInduction, TLAPS

-----------------------------------------------------------------------------
(***************************************************************************)
(* Induction and folds.  The facts are stated of sets and functions, so    *)
(* that they can be cited: a set of numbers has a least element, one that  *)
(* has 0 and all successors is Nat, and a recursion over the subsets of a  *)
(* finite set has a solution.                                              *)
(***************************************************************************)
LEMMA LeastNumber ==
    ASSUME NEW T \in SUBSET Nat, T # {}
    PROVE  \E m \in T : \A k \in T : m <= k
  <1>1. PICK m \in T : \A y \in T : ~(<<y, m>> \in OpToRel(<, Nat))
    BY NatLessThanWellFounded, WFMin, Zenon
  <1>2. \A k \in T : ~(k < m)
    BY <1>1, Zenon DEF OpToRel
  <1> QED
    BY <1>2

\* To be a number it is enough to be in every set that counts up from 0.
LEMMA Induction ==
    ASSUME NEW T \in SUBSET Nat, 0 \in T, \A k \in T : k + 1 \in T
    PROVE  T = Nat
  <1> SUFFICES ASSUME Nat \ T # {} PROVE FALSE
    OBVIOUS
  <1>1. PICK m \in Nat \ T : \A k \in Nat \ T : m <= k
    BY LeastNumber
  <1>2. m - 1 \in T
    BY <1>1
  <1> QED
    BY <1>1, <1>2

\* The same up to a bound.
LEMMA InductionUpTo ==
    ASSUME NEW n \in Nat, NEW T, 0 \in T, \A k \in 0..n : k \in T /\ k < n => k + 1 \in T
    PROVE  0..n \subseteq T
  <1> DEFINE U == {k \in Nat : k <= n => k \in T}
  <1>1. U = Nat
    <2>1. 0 \in U /\ \A k \in U : k + 1 \in U
      OBVIOUS
    <2> HIDE DEF U
    <2>2. U \in SUBSET Nat
      BY DEF U
    <2> QED
      BY <2>1, <2>2, Induction
  <1> QED
    BY <1>1

LEMMA MaxIs ==
    ASSUME NEW n \in Nat, NEW T \in SUBSET (1..n), T # {}
    PROVE  Max(T) \in T /\ \A k \in T : k <= Max(T)
  <1> DEFINE U == {n - k : k \in T}
  <1>1. U \in SUBSET Nat /\ U # {}
    <2>1. \A k \in T : n - k \in Nat
      OBVIOUS
    <2>2. PICK k \in T : TRUE
      OBVIOUS
    <2>3. n - k \in U
      OBVIOUS
    <2> QED
      BY <2>1, <2>3
  <1>2. PICK m \in U : \A k \in U : m <= k
    BY <1>1, LeastNumber
  <1>3. PICK x \in T : m = n - x
    BY <1>2
  <1>4. \A k \in T : x >= k
    <2> TAKE k \in T
    <2>1. m <= n - k
      BY <1>2
    <2> QED
      BY <1>3, <2>1
  <1>5. \A k \in T : Max(T) >= k /\ Max(T) \in T
    BY <1>4 DEF Max
  <1> QED
    BY <1>5

\* g is the fold that takes chosen[T] from each set T.
IsFold(g, S, base, op, chosen) ==
    \A T \in SUBSET S :
       g[T] = IF T = {} THEN base ELSE op[chosen[T]][g[T \ {chosen[T]}]]

LEMMA FoldExists ==
    ASSUME NEW S, IsFiniteSet(S), NEW V, NEW base \in V, NEW op \in [S -> [V -> V]],
           NEW chosen, \A T \in (SUBSET S) \ {{}} : chosen[T] \in T
    PROVE  \E g \in [SUBSET S -> V] : IsFold(g, S, base, op, chosen)
  <1> DEFINE Upto(k) == {T \in SUBSET S : Cardinality(T) <= k}
             Solves(g, k) == 
                \A T \in Upto(k) :
                   g[T] = IF T = {} THEN base ELSE op[chosen[T]][g[T \ {chosen[T]}]]
             Ns == {k \in Nat : \E g \in [Upto(k) -> V] : Solves(g, k)}
  <1>1. \A T \in SUBSET S : IsFiniteSet(T) /\ Cardinality(T) \in Nat /\ Cardinality(T) <= Cardinality(S)
    BY FS_Subset, FS_CardinalityType
  <1>2. 0 \in Ns
    <2>1. \A T \in SUBSET S : Cardinality(T) <= 0 => T = {}
      BY <1>1, FS_EmptySet
    <2>2. Solves([T \in Upto(0) |-> base], 0)
      BY <2>1
    <2>3. [T \in Upto(0) |-> base] \in [Upto(0) -> V]
      OBVIOUS
    <2> HIDE DEF Upto, Solves
    <2> QED
      BY <2>2, <2>3
  <1>3. ASSUME NEW k \in Ns PROVE k + 1 \in Ns
    <2>1. PICK g \in [Upto(k) -> V] : Solves(g, k)
      BY <1>3
    <2> DEFINE h == [T \in Upto(k + 1) |->
                       IF T = {} THEN base ELSE op[chosen[T]][g[T \ {chosen[T]}]]]
    <2>2. ASSUME NEW T \in Upto(k + 1), T # {}
          PROVE  chosen[T] \in S /\ T \ {chosen[T]} \in Upto(k)
      <3>1. Cardinality(T \ {chosen[T]}) = Cardinality(T) - 1
        BY <1>1, <2>2, FS_RemoveElement
      <3> QED
        BY <1>1, <2>2, <3>1
    <2>3. h \in [Upto(k + 1) -> V]
      BY <2>2
    <2>4. \A T \in Upto(k) : T \in Upto(k + 1)
      BY <1>1
    <2>5. \A T \in Upto(k) : h[T] = g[T]
      BY <2>1, <2>4
    <2>6. ASSUME NEW T \in Upto(k + 1)
          PROVE  h[T] = IF T = {} THEN base ELSE op[chosen[T]][h[T \ {chosen[T]}]]
      BY <2>2, <2>5
    <2>7. Solves(h, k + 1)
      BY <2>6
    <2> HIDE DEF Upto, Solves, h
    <2> QED
      BY <2>3, <2>7
  <1>4. Cardinality(S) \in Ns
    <2>1. Ns \in SUBSET Nat
      OBVIOUS
    <2> HIDE DEF Ns
    <2> QED
      BY <1>1, <1>2, <1>3, <2>1, Induction
  <1>5. Upto(Cardinality(S)) = SUBSET S
    BY <1>1
  <1>6. PICK g \in [SUBSET S -> V] : Solves(g, Cardinality(S))
    BY <1>4, <1>5
  <1>7. IsFold(g, S, base, op, chosen)
    BY <1>5, <1>6 DEF IsFold
  <1> QED
    BY <1>7

-----------------------------------------------------------------------------
(***************************************************************************)
(* The folds of OrderPricing, line after line.                             *)
(***************************************************************************)
\* FoldLeft takes the last index first.
LEMMA LastIndex ==
    ASSUME NEW n \in Nat, NEW k \in 1..n
    PROVE  /\ 1..k \in SUBSET (1..n) /\ 1..k # {}
           /\ Max(1..k) = k /\ (1..k) \ {Max(1..k)} = 1..(k - 1)
  <1>1. 1..k \in SUBSET (1..n) /\ 1..k # {} /\ k \in 1..k
    OBVIOUS
  <1>2. Max(1..k) \in 1..k /\ k <= Max(1..k)
    BY <1>1, MaxIs
  <1> QED
    BY <1>1, <1>2

\* g is the fold from the left over the indices up to n.
FoldsLeft(g, n, V, base, op) ==
    /\ g[{}] = base
    /\ \A T \in (SUBSET (1..n)) \ {{}} :
          /\ Max(T) \in 1..n /\ g[T \ {Max(T)}] \in V
          /\ g[T] = op[Max(T)][g[T \ {Max(T)}]]

LEMMA LeftFoldExists ==
    ASSUME NEW n \in Nat, NEW V, NEW base \in V, NEW op \in [1..n -> [V -> V]]
    PROVE  \E g \in [SUBSET (1..n) -> V] : FoldsLeft(g, n, V, base, op)
  <1> DEFINE chosen == [T \in SUBSET (1..n) |-> Max(T)]
  <1>1. \A T \in (SUBSET (1..n)) \ {{}} : chosen[T] \in T
    BY MaxIs
  <1>2. IsFiniteSet(1..n)
    BY FS_Interval
  <1> HIDE DEF chosen
  <1>3. PICK g \in [SUBSET (1..n) -> V] : IsFold(g, 1..n, base, op, chosen)
    BY <1>1, <1>2, FoldExists
  <1>4. ASSUME NEW T \in SUBSET (1..n), T # {}
        PROVE  /\ Max(T) \in 1..n /\ g[T \ {Max(T)}] \in V
               /\ g[T] = op[Max(T)][g[T \ {Max(T)}]]
    <2>1. chosen[T] = Max(T)
      BY DEF chosen
    <2> QED
      BY <1>1, <1>3, <1>4, <2>1 DEF IsFold
  <1>5. g[{}] = base
    BY <1>3 DEF IsFold
  <1> QED
    BY <1>4, <1>5 DEF FoldsLeft

\* p takes the values of g along the indices.
Along(p, g, n) ==
    /\ p[0] = g[{}] /\ p[n] = g[1..n]
    /\ \A k \in 1..n : /\ p[k] = g[1..k] /\ 1..k \in (SUBSET (1..n)) \ {{}}
                       /\ Max(1..k) = k /\ p[k - 1] = g[(1..k) \ {Max(1..k)}]

LEMMA LeftFoldSteps ==
    ASSUME NEW n \in Nat, NEW g
    PROVE  \E p : Along(p, g, n)
  <1> DEFINE p == [k \in 0..n |-> g[1..k]]
  <1>1. 1..0 = {} /\ \A k \in 0..n : p[k] = g[1..k]
    OBVIOUS
  <1> HIDE DEF p
  <1>2. ASSUME NEW k \in 1..n
        PROVE  /\ p[k] = g[1..k] /\ 1..k \in (SUBSET (1..n)) \ {{}}
               /\ Max(1..k) = k /\ p[k - 1] = g[(1..k) \ {Max(1..k)}]
    <2>1. k \in 0..n /\ k - 1 \in 0..n
      OBVIOUS
    <2> QED
      BY <1>1, <2>1, LastIndex
  <1>3. p[0] = g[{}] /\ p[n] = g[1..n]
    BY <1>1
  <1> QED
    BY <1>2, <1>3 DEF Along

\* What a customer asks for of an item: p[k] after k lines.
AsksFor(p, n, lines, i) ==
    /\ p[0] = 0 /\ Asked(lines, i) = p[n]
    /\ \A k \in 1..n :
          p[k] = IF lines[k].item = i THEN p[k - 1] + lines[k].quantity ELSE p[k - 1]

LEMMA AskedSteps ==
    ASSUME NEW n \in Nat, NEW lines, DOMAIN lines = 1..n, NEW i,
           \A k \in 1..n : lines[k].quantity \in Int
    PROVE  \E p : AsksFor(p, n, lines, i)
  <1> DEFINE Step(k, v) == IF lines[k].item = i THEN v + lines[k].quantity ELSE v
             Value(g, T) == IF T = {} THEN 0 ELSE Step(Max(T), g[T \ {Max(T)}])
             op == [k \in 1..n |-> [v \in Int |-> Step(k, v)]]
  <1>1. \A k \in 1..n, v \in Int : Step(k, v) \in Int
    OBVIOUS
  <1>2. \E g : g = [T \in SUBSET (1..n) |-> Value(g, T)]
    <2> HIDE DEF Step
    <2>0. 0 \in Int
      OBVIOUS
    <2>1. op \in [1..n -> [Int -> Int]]
      BY <1>1
    <2> HIDE DEF op
    <2>2. PICK g \in [SUBSET (1..n) -> Int] : FoldsLeft(g, n, Int, 0, op)
      BY <2>0, <2>1, LeftFoldExists, Zenon
    <2>3. \A T \in SUBSET (1..n) : g[T] = Value(g, T)
      BY <2>2 DEF op, FoldsLeft
    <2> HIDE DEF Value
    <2> QED
      BY <2>2, <2>3
  <1>3. PICK g : g = [T \in SUBSET (1..n) |-> Value(g, T)] /\ Asked(lines, i) = g[1..n]
    BY <1>2 DEF Asked, FoldLeft, MapThenFoldSet
  <1>4. \A T \in SUBSET (1..n) : g[T] = Value(g, T)
    <2> HIDE DEF Value
    <2> QED
      BY <1>3
  <1> HIDE DEF Step
  <1>5. PICK p : Along(p, g, n)
    BY LeftFoldSteps
  <1>6. p[0] = 0 /\ \A k \in 1..n : p[k] = Step(k, p[k - 1])
    BY <1>4, <1>5 DEF Along
  <1> QED
    BY <1>3, <1>5, <1>6 DEF Step, Along, AsksFor

\* What a customer reckons: p[k] after k lines.
Reckons(p, n, lines) ==
    /\ p[0] = 0 /\ Reckoned(lines) = p[n]
    /\ \A k \in 1..n : p[k] = p[k - 1] + lines[k].quantity * Menu[lines[k].item].price

LEMMA TotalSteps ==
    ASSUME NEW n \in Nat, NEW lines, DOMAIN lines = 1..n,
           \A k \in 1..n : lines[k].quantity \in Int /\ Menu[lines[k].item].price \in Int
    PROVE  \E p : Reckons(p, n, lines)
  <1> DEFINE Step(k, v) == v + lines[k].quantity * Menu[lines[k].item].price
             Value(g, T) == IF T = {} THEN 0 ELSE Step(Max(T), g[T \ {Max(T)}])
             op == [k \in 1..n |-> [v \in Int |-> Step(k, v)]]
  <1>1. \A k \in 1..n, v \in Int : Step(k, v) \in Int
    OBVIOUS
  <1>2. \E g : g = [T \in SUBSET (1..n) |-> Value(g, T)]
    <2> HIDE DEF Step
    <2>0. 0 \in Int
      OBVIOUS
    <2>1. op \in [1..n -> [Int -> Int]]
      BY <1>1
    <2> HIDE DEF op
    <2>2. PICK g \in [SUBSET (1..n) -> Int] : FoldsLeft(g, n, Int, 0, op)
      BY <2>0, <2>1, LeftFoldExists, Zenon
    <2>3. \A T \in SUBSET (1..n) : g[T] = Value(g, T)
      BY <2>2 DEF op, FoldsLeft
    <2> HIDE DEF Value
    <2> QED
      BY <2>2, <2>3
  <1>3. PICK g : g = [T \in SUBSET (1..n) |-> Value(g, T)] /\ Reckoned(lines) = g[1..n]
    BY <1>2 DEF Reckoned, FoldLeft, MapThenFoldSet
  <1>4. \A T \in SUBSET (1..n) : g[T] = Value(g, T)
    <2> HIDE DEF Value
    <2> QED
      BY <1>3
  <1> HIDE DEF Step
  <1>5. PICK p : Along(p, g, n)
    BY LeftFoldSteps
  <1>6. p[0] = 0 /\ \A k \in 1..n : p[k] = Step(k, p[k - 1])
    BY <1>4, <1>5 DEF Along
  <1> QED
    BY <1>3, <1>5, <1>6 DEF Step, Along, Reckons

-----------------------------------------------------------------------------
\* g is the sum over the subsets of the domain of F.
Sums(g, F) ==
    g = [T \in SUBSET DOMAIN F |->
            IF T = {} THEN 0
            ELSE F[CHOOSE x \in T : TRUE] + g[T \ {CHOOSE x \in T : TRUE}]]

LEMMA FoldSums ==
    ASSUME NEW F, \E g : Sums(g, F)
    PROVE  \E g : Sums(g, F) /\ FoldFunction(+, 0, F) = g[DOMAIN F]
  BY Zenon DEF Sums, FoldFunction, FoldFunctionOnSet, MapThenFoldSet

\* In whatever order the elements are taken.
AddsUp(g, F, D) ==
    /\ g[{}] = 0
    /\ \A T \in SUBSET D : g[T] \in Int /\ \A x \in T : g[T] = F[x] + g[T \ {x}]

\* The sum over a set of items.
LEMMA SumOver ==
    ASSUME NEW D, IsFiniteSet(D), NEW F \in [D -> Int]
    PROVE  \E g : AddsUp(g, F, D) /\ FoldFunction(+, 0, F) = g[D]
  <1> DEFINE Chosen(T) == CHOOSE x \in T : TRUE
             Value(g, T) == IF T = {} THEN 0 ELSE F[Chosen(T)] + g[T \ {Chosen(T)}]
             op == [x \in D |-> [v \in Int |-> F[x] + v]]
             chosen == [T \in SUBSET D |-> Chosen(T)]
  <1>1. \A T : T # {} => Chosen(T) \in T
    OBVIOUS
  <1>2. \E g : g = [T \in SUBSET D |-> Value(g, T)]
    <2> HIDE DEF Chosen
    <2>1. op \in [D -> [Int -> Int]] /\ 0 \in Int
      OBVIOUS
    <2>2. \A T \in (SUBSET D) \ {{}} : chosen[T] \in T
      BY <1>1
    <2> HIDE DEF op, chosen
    <2>3. PICK g \in [SUBSET D -> Int] : IsFold(g, D, 0, op, chosen)
      BY <2>1, <2>2, FoldExists, Zenon
    <2>4. ASSUME NEW T \in SUBSET D PROVE g[T] = Value(g, T)
      <3>1. CASE T = {}
        BY <2>3, <3>1 DEF IsFold
      <3>2. CASE T # {}
        <4>1. chosen[T] = Chosen(T) /\ Chosen(T) \in D /\ T \ {Chosen(T)} \in SUBSET D
          BY <1>1, <3>2 DEF chosen
        <4>2. g[T \ {Chosen(T)}] \in Int
          BY <2>3, <4>1
        <4>3. g[T] = op[Chosen(T)][g[T \ {Chosen(T)}]]
          BY <2>3, <3>2, <4>1 DEF IsFold
        <4> QED
          BY <3>2, <4>1, <4>2, <4>3 DEF op
      <3> QED
        BY <3>1, <3>2
    <2> HIDE DEF Value
    <2> QED
      BY <2>3, <2>4
  <1>3. DOMAIN F = D
    OBVIOUS
  <1>4. PICK g : g = [T \in SUBSET D |-> Value(g, T)] /\ FoldFunction(+, 0, F) = g[D]
    <2>1. \A g : Sums(g, F) <=> g = [T \in SUBSET D |-> Value(g, T)]
      BY <1>3, Zenon DEF Sums
    <2> HIDE DEF Value
    <2>2. \E g : Sums(g, F) /\ FoldFunction(+, 0, F) = g[D]
      BY <1>2, <1>3, <2>1, FoldSums, Zenon
    <2> QED
      BY <2>1, <2>2, Zenon
  <1>5. \A T \in SUBSET D : g[T] = Value(g, T)
    <2> HIDE DEF Value
    <2> QED
      BY <1>4
  <1> HIDE DEF Chosen
  <1> DEFINE Adds(T) == g[T] \in Int /\ \A x \in T : g[T] = F[x] + g[T \ {x}]
             Ns == {k \in Nat : \A T \in SUBSET D : Cardinality(T) <= k => Adds(T)}
  <1>6. \A T \in SUBSET D : /\ IsFiniteSet(T) /\ Cardinality(T) \in Nat
                            /\ Cardinality(T) = 0 => T = {}
                            /\ \A x \in T : Cardinality(T \ {x}) = Cardinality(T) - 1
    BY FS_Subset, FS_CardinalityType, FS_RemoveElement, FS_EmptySet
  <1>7. g[{}] = 0
    BY <1>5
  <1>8. 0 \in Ns
    <2>1. \A T \in SUBSET D : Cardinality(T) <= 0 => T = {}
      BY <1>6
    <2>2. Adds({})
      BY <1>7
    <2> HIDE DEF Adds
    <2> QED
      BY <2>1, <2>2
  <1>9. ASSUME NEW k \in Ns PROVE k + 1 \in Ns
    <2> SUFFICES ASSUME NEW T \in SUBSET D, Cardinality(T) <= k + 1 PROVE Adds(T)
      OBVIOUS
    <2>1. CASE T = {}
      BY <1>7, <2>1
    <2>2. CASE T # {}
      <3> DEFINE y == Chosen(T)
                 rest == T \ {y}
      <3>1. y \in T /\ rest \in SUBSET D
        BY <1>1, <2>2
      <3>2. g[T] = F[y] + g[rest]
        BY <1>5, <2>2
      <3> HIDE DEF y
      <3>3. Cardinality(rest) <= k
        BY <1>6, <3>1
      <3>4. Adds(rest)
        BY <3>1, <3>3
      <3>5. F[y] \in Int /\ g[T] \in Int
        BY <3>1, <3>2, <3>4
      <3>6. ASSUME NEW x \in T PROVE g[T] = F[x] + g[T \ {x}]
        <4>1. CASE x = y
          BY <3>2, <4>1
        <4>2. CASE x # y
          <5> DEFINE both == T \ {x, y}
          <5>1. both = rest \ {x} /\ both = (T \ {x}) \ {y}
            OBVIOUS
          <5>2. x \in rest /\ y \in T \ {x} /\ T \ {x} \in SUBSET D /\ both \in SUBSET D
            BY <3>1, <4>2
          <5>3. Adds(T \ {x})
            <6>1. Cardinality(T \ {x}) <= k
              BY <1>6
            <6> QED
              BY <5>2, <6>1
          <5>4. Adds(both)
            <6>1. Cardinality(rest \ {x}) = Cardinality(rest) - 1 /\ Cardinality(rest) \in Nat
              BY <1>6, <3>1, <5>2
            <6>2. Cardinality(both) <= k
              <7> HIDE DEF both, rest
              <7> QED
                BY <3>3, <5>1, <6>1
            <6> QED
              BY <5>2, <6>2
          <5>5. g[rest] = F[x] + g[both] /\ g[T \ {x}] = F[y] + g[both]
            BY <3>4, <5>1, <5>2, <5>3
          <5>6. F[x] \in Int /\ g[both] \in Int
            BY <5>4
          <5> HIDE DEF both, rest
          <5> QED
            BY <3>2, <3>5, <5>5, <5>6
        <4> QED
          BY <4>1, <4>2
      <3> QED
        BY <3>5, <3>6
    <2> QED
      BY <2>1, <2>2
  <1>10. Ns = Nat
    <2>1. Ns \in SUBSET Nat
      OBVIOUS
    <2> HIDE DEF Ns
    <2> QED
      BY <1>8, <1>9, <2>1, Induction
  <1>11. \A T \in SUBSET D : Adds(T)
    <2> TAKE T \in SUBSET D
    <2>1. Cardinality(T) \in Ns /\ Cardinality(T) <= Cardinality(T)
      BY <1>6, <1>10
    <2> HIDE DEF Adds
    <2> QED
      BY <2>1
  <1>12. AddsUp(g, F, D)
    BY <1>7, <1>11 DEF AddsUp
  <1> QED
    BY <1>4, <1>12, Zenon

-----------------------------------------------------------------------------
\* What may be called: the restaurants and the lines of carts and of requests.
AnyLine == [item : MenuItems, quantity : Nat] \cup RequestLines
AnyRestaurant == Restaurants \cup {Nobody} \cup {req.restaurant : req \in Requests}

Call == [restaurant : AnyRestaurant, lines : Seq(AnyLine), at : Steps, waits : Waiting]

CheckoutTyped == CheckoutTypeOK /\ calls \in Seq(Call)

\* The calls whose answer the cart page awaits.
OnPage == {c \in DOMAIN calls : calls[c].waits = "page"}

\* Only the cart page submits, and awaits what it has submitted.
OneWaits ==
    IF tab.submitting THEN tab.page = "cart" /\ \E c : OnPage = {c} ELSE OnPage = {}

\* The steps before a call has its row.
Early == {"user", "menu", "insert"}

\* A call is at its last steps only after its row and its event.
CallsPlaced ==
    \A c \in DOMAIN calls :
        /\ calls[c].at \in Early => c \notin DOMAIN orders
        /\ calls[c].at = "publish" => c \in DOMAIN orders
        /\ calls[c].at = "ok" => c \in created

\* What is shown is stored, and what is announced too.
ShownIsStored ==
    /\ tab.page = "order" => tab.order \in DOMAIN orders
    /\ created \subseteq DOMAIN orders

\* The inductive invariant.
CheckoutInv == CheckoutTyped /\ CartOneRestaurant /\ OneWaits /\ CallsPlaced /\ ShownIsStored

-----------------------------------------------------------------------------
(***************************************************************************)
(* What the operators do to a list of calls.                               *)
(***************************************************************************)
\* Whoever waits on a page that goes waits there no longer.
LEMMA LeaveType ==
    ASSUME NEW cs \in Seq(Call)
    PROVE  /\ Leave(cs) \in Seq(Call) /\ DOMAIN Leave(cs) = DOMAIN cs /\ Len(Leave(cs)) = Len(cs)
           /\ \A c \in DOMAIN cs : /\ Leave(cs)[c].at = cs[c].at
                                   /\ Leave(cs)[c].waits # "page"
  <1>1. \A c \in DOMAIN cs : cs[c] \in Call
    OBVIOUS
  <1> DEFINE left(c) == IF cs[c].waits = "page" THEN [cs[c] EXCEPT !.waits = "left"] ELSE cs[c]
  <1>2. ASSUME NEW c \in DOMAIN cs
        PROVE  left(c) \in Call /\ left(c).at = cs[c].at /\ left(c).waits # "page"
    BY <1>1 DEF Call, Waiting
  <1>3. Leave(cs) = [c \in DOMAIN cs |-> left(c)]
    BY DEF Leave
  <1> HIDE DEF left
  <1>4. DOMAIN cs = 1..Len(cs) /\ Len(cs) \in Nat
    OBVIOUS
  <1>5. Leave(cs) \in Seq(Call) /\ Len(Leave(cs)) = Len(cs)
    BY <1>2, <1>3, <1>4
  <1> QED
    BY <1>2, <1>3, <1>5

\* One call changes, the others do not.
LEMMA OneCall ==
    ASSUME NEW cs \in Seq(Call), NEW c \in DOMAIN cs, NEW r \in Call
    PROVE  /\ [cs EXCEPT ![c] = r] \in Seq(Call)
           /\ DOMAIN [cs EXCEPT ![c] = r] = DOMAIN cs /\ Len([cs EXCEPT ![c] = r]) = Len(cs)
           /\ [cs EXCEPT ![c] = r][c] = r
           /\ \A d \in DOMAIN cs \ {c} : [cs EXCEPT ![c] = r][d] = cs[d]
  OBVIOUS

\* A call goes on with another step.
LEMMA GotoType ==
    ASSUME CheckoutTyped, NEW c \in DOMAIN calls, NEW step \in Steps, Goto(c, step)
    PROVE  /\ calls' \in Seq(Call) /\ DOMAIN calls' = DOMAIN calls /\ Len(calls') = Len(calls)
           /\ calls'[c].at = step
           /\ \A d \in DOMAIN calls \ {c} : calls'[d] = calls[d]
           /\ \A d \in DOMAIN calls : /\ calls'[d].waits = calls[d].waits
                                      /\ calls'[d].restaurant = calls[d].restaurant
                                      /\ calls'[d].lines = calls[d].lines
  <1> DEFINE r == [calls[c] EXCEPT !.at = step]
  <1>0. calls[c] \in Call /\ calls \in Seq(Call)
    BY DEF CheckoutTyped
  <1>1. /\ r \in Call /\ r.at = step /\ r.waits = calls[c].waits
        /\ r.restaurant = calls[c].restaurant /\ r.lines = calls[c].lines
    BY <1>0 DEF Call
  <1>2. calls' = [calls EXCEPT ![c] = r]
    BY <1>0 DEF Goto
  <1> HIDE DEF r
  <1> QED
    BY <1>0, <1>1, <1>2, OneCall

\* Nobody waits for a call any more.
LEMMA AnsweredType ==
    ASSUME CheckoutTyped, NEW c \in DOMAIN calls
    PROVE  LET cs == [calls EXCEPT ![c].waits = "nobody"]
           IN  /\ cs \in Seq(Call) /\ DOMAIN cs = DOMAIN calls /\ Len(cs) = Len(calls)
               /\ \A d \in DOMAIN calls : cs[d].at = calls[d].at
               /\ cs[c].waits = "nobody"
               /\ \A d \in DOMAIN calls \ {c} : cs[d] = calls[d]
  <1> DEFINE r == [calls[c] EXCEPT !.waits = "nobody"]
  <1>0. calls[c] \in Call /\ calls \in Seq(Call)
    BY DEF CheckoutTyped
  <1>1. r \in Call /\ r.at = calls[c].at /\ r.waits = "nobody"
    BY <1>0 DEF Call, Waiting
  <1>2. [calls EXCEPT ![c].waits = "nobody"] = [calls EXCEPT ![c] = r]
    BY <1>0
  <1> HIDE DEF r
  <1> DEFINE cs == [calls EXCEPT ![c] = r]
  <1>3. /\ cs \in Seq(Call) /\ DOMAIN cs = DOMAIN calls /\ Len(cs) = Len(calls)
        /\ cs[c] = r /\ \A d \in DOMAIN calls \ {c} : cs[d] = calls[d]
    BY <1>0, <1>1, OneCall
  <1> HIDE DEF cs
  <1>4. \A d \in DOMAIN calls : cs[d].at = calls[d].at
    BY <1>1, <1>3
  <1>5. [calls EXCEPT ![c].waits = "nobody"] = cs
    BY <1>2 DEF cs
  <1> QED
    BY <1>1, <1>3, <1>4, <1>5

\* A call begins.
LEMMA BeginType ==
    ASSUME CheckoutTyped, NEW r \in AnyRestaurant, NEW lines \in Seq(AnyLine),
           NEW waits \in Waiting, calls' = Append(calls, NewCall(r, lines, waits)),
           Len(calls) < MaxCalls
    PROVE  /\ calls' \in Seq(Call) /\ Len(calls') <= MaxCalls
           /\ DOMAIN calls' = DOMAIN calls \cup {Len(calls) + 1} /\ Len(calls) + 1 \notin DOMAIN calls
           /\ \A d \in DOMAIN calls : calls'[d] = calls[d]
           /\ calls'[Len(calls) + 1] = NewCall(r, lines, waits)
           /\ calls'[Len(calls) + 1].waits = waits /\ calls'[Len(calls) + 1].at = "user"
  <1>1. NewCall(r, lines, waits) \in Call /\ NewCall(r, lines, waits).waits = waits
        /\ NewCall(r, lines, waits).at = "user"
    BY DEF NewCall, Call, Steps
  <1>2. calls \in Seq(Call) /\ MaxCalls \in Nat
    BY CheckoutBounds DEF CheckoutTyped
  <1>3. /\ calls' \in Seq(Call) /\ Len(calls') = Len(calls) + 1 /\ Len(calls) \in Nat
        /\ \A d \in 1..Len(calls) : calls'[d] = calls[d]
        /\ calls'[Len(calls) + 1] = NewCall(r, lines, waits)
    BY <1>1, <1>2
  <1> QED
    BY <1>1, <1>2, <1>3

\* The lines of the cart are lines.
LEMMA CartLinesType ==
    ASSUME CheckoutTyped
    PROVE  CartLines \in Seq(AnyLine)
  <1>1. IsFiniteSet(InCart) /\ InCart \subseteq MenuItems
    BY MenuAssumption, FS_Subset DEF InCart
  <1> DEFINE n == Cardinality(InCart)
  <1>2. n \in Nat /\ ExistsBijection(1..n, InCart)
    BY <1>1, FS_CardinalityType
  <1>3. \E f \in [1..n -> InCart] : IsInjective(f)
    BY <1>2 DEF ExistsBijection, Bijection, Injection, Surjection, IsInjective
  <1>4. SetToSeq(InCart) \in [1..n -> InCart]
    BY <1>3 DEF SetToSeq
  <1> HIDE DEF n
  <1>5. \A i \in InCart : Line(i, cart.items[i]) \in AnyLine
    BY <1>1 DEF Line, AnyLine, CheckoutTyped, CheckoutTypeOK
  <1> DEFINE items == SetToSeq(InCart)
  <1>6. CartLines = [k \in DOMAIN items |-> Line(items[k], cart.items[items[k]])]
    BY DEF CartLines
  <1>7. DOMAIN items = 1..n /\ \A k \in 1..n : items[k] \in InCart
    BY <1>4
  <1> HIDE DEF items
  <1>8. \A k \in 1..n : CartLines[k] \in AnyLine
    BY <1>5, <1>6, <1>7
  <1> QED
    BY <1>2, <1>6, <1>7, <1>8

-----------------------------------------------------------------------------
(***************************************************************************)
(* The customer.                                                           *)
(***************************************************************************)
\* A step that leaves the calls where they are, and rows and events alone.
LEMMA StepsKept ==
    ASSUME CheckoutInv, DOMAIN calls' = DOMAIN calls,
           \A c \in DOMAIN calls : calls'[c].at = calls[c].at, UNCHANGED <<orders, created>>
    PROVE  CallsPlaced'
  BY DEF CheckoutInv, CallsPlaced

\* What the cart has is of its restaurant; another cart is as good if that holds.
LEMMA CartMoves ==
    ASSUME CheckoutInv, cart' \in [restaurant : Restaurants \cup {Nobody},
                                   items : [MenuItems -> 0..MaxQuantity]],
           \A i \in MenuItems : cart'.items[i] > 0 => Menu[i].restaurant = cart'.restaurant,
           UNCHANGED <<tab, calls, orders, created, faults>>
    PROVE  CheckoutInv'
  <1>1. CheckoutTyped'
    BY DEF CheckoutInv, CheckoutTyped, CheckoutTypeOK
  <1>2. CartOneRestaurant'
    BY DEF CartOneRestaurant, InCart
  <1>3. OneWaits' /\ CallsPlaced' /\ ShownIsStored'
    BY DEF CheckoutInv, OneWaits, OnPage, CallsPlaced, ShownIsStored
  <1> QED
    BY <1>1, <1>2, <1>3 DEF CheckoutInv

\* An item of another restaurant empties the cart first.
LEMMA AddItemKeeps ==
    ASSUME CheckoutInv, NEW i \in MenuItems, AddItem(i)
    PROVE  CheckoutInv'
  <1>0. /\ cart \in [restaurant : Restaurants \cup {Nobody}, items : [MenuItems -> 0..MaxQuantity]]
        /\ \A j \in MenuItems : cart.items[j] > 0 => Menu[j].restaurant = cart.restaurant
        /\ cart.items[i] < MaxQuantity /\ cart' = Added(i)
        /\ UNCHANGED <<tab, calls, orders, created, faults>>
    BY DEF CheckoutInv, CheckoutTyped, CheckoutTypeOK, CartOneRestaurant, InCart, AddItem
  <1>1. /\ \A j \in MenuItems : Menu[j].restaurant \in Restaurants
        /\ MaxQuantity \in Nat \ {0} /\ Nobody \notin Restaurants
    BY MenuAssumption, CheckoutBounds
  <1> DEFINE r == Menu[i].restaurant
  <1>2. CASE cart.restaurant \in {Nobody, r}
    <2> DEFINE items == [cart.items EXCEPT ![i] = @ + 1]
    <2>1. cart' = [restaurant |-> r, items |-> items]
      BY <1>0, <1>2 DEF Added
    <2>2. items \in [MenuItems -> 0..MaxQuantity]
      BY <1>0, <1>1
    <2>3. \A j \in MenuItems : items[j] > 0 => j = i \/ cart.items[j] > 0
      BY <1>0
    <2>4. \A j \in MenuItems : items[j] > 0 => Menu[j].restaurant = r
      BY <1>0, <1>1, <1>2, <2>3
    <2> HIDE DEF items
    <2> QED
      BY <1>0, <1>1, <2>1, <2>2, <2>4, CartMoves
  <1>3. CASE cart.restaurant \notin {Nobody, r}
    <2> DEFINE items == [EmptyCart.items EXCEPT ![i] = 1]
    <2>1. cart' = [restaurant |-> r, items |-> items]
      BY <1>0, <1>3 DEF Added
    <2>2. /\ items \in [MenuItems -> 0..MaxQuantity]
          /\ \A j \in MenuItems : items[j] > 0 => Menu[j].restaurant = r
      BY <1>1 DEF EmptyCart
    <2> HIDE DEF items
    <2> QED
      BY <1>0, <1>1, <2>1, <2>2, CartMoves
  <1> QED
    BY <1>2, <1>3

\* What was in the cart stays of its restaurant.
LEMMA UpdateQuantityKeeps ==
    ASSUME CheckoutInv, NEW i \in MenuItems, NEW n \in 0..MaxQuantity, UpdateQuantity(i, n)
    PROVE  CheckoutInv'
  <1>0. /\ cart \in [restaurant : Restaurants \cup {Nobody}, items : [MenuItems -> 0..MaxQuantity]]
        /\ \A j \in MenuItems : cart.items[j] > 0 => Menu[j].restaurant = cart.restaurant
        /\ cart.items[i] > 0 /\ cart' = [cart EXCEPT !.items[i] = n]
        /\ UNCHANGED <<tab, calls, orders, created, faults>>
    BY DEF CheckoutInv, CheckoutTyped, CheckoutTypeOK, CartOneRestaurant, InCart, UpdateQuantity
  <1> DEFINE items == [cart.items EXCEPT ![i] = n]
  <1>1. cart' = [restaurant |-> cart.restaurant, items |-> items]
    BY <1>0
  <1>2. /\ items \in [MenuItems -> 0..MaxQuantity]
        /\ \A j \in MenuItems : items[j] > 0 => cart.items[j] > 0
    BY <1>0
  <1> HIDE DEF items
  <1> QED
    BY <1>0, <1>1, <1>2, CartMoves

\* A page that is shown anew awaits nothing.
LEMMA ShowType ==
    ASSUME CheckoutTyped, NEW p \in Pages
    PROVE  /\ Show(p) \in [page : Pages, submitting : BOOLEAN, failed : BOOLEAN,
                           token : BOOLEAN, order : 0..MaxCalls]
           /\ Show(p).page = p /\ Show(p).submitting = FALSE /\ Show(p).order = tab.order
           /\ Show(p).token = tab.token /\ Show(p).failed = FALSE
  BY DEF CheckoutTyped, CheckoutTypeOK, Show

\* Another page is shown, which awaits none of the calls.
LEMMA PageMoves ==
    ASSUME CheckoutInv, NEW cs \in Seq(Call), calls' = cs, DOMAIN cs = DOMAIN calls,
           Len(cs) = Len(calls),
           \A c \in DOMAIN calls : cs[c].at = calls[c].at /\ cs[c].waits # "page",
           tab' \in [page : Pages, submitting : BOOLEAN, failed : BOOLEAN,
                     token : BOOLEAN, order : 0..MaxCalls],
           tab'.submitting = FALSE,
           tab'.page = "order" => tab'.order \in DOMAIN orders,
           cart' = cart \/ cart' = EmptyCart, UNCHANGED <<orders, created, faults>>
    PROVE  CheckoutInv'
  <1>1. EmptyCart \in [restaurant : Restaurants \cup {Nobody}, items : [MenuItems -> 0..MaxQuantity]]
    BY CheckoutBounds DEF EmptyCart
  <1>2. CheckoutTyped'
    <2>1. cart' \in [restaurant : Restaurants \cup {Nobody}, items : [MenuItems -> 0..MaxQuantity]]
      BY <1>1 DEF CheckoutInv, CheckoutTyped, CheckoutTypeOK
    <2>2. \A c \in DOMAIN calls' : calls'[c] \in Call
      OBVIOUS
    <2>3. \A c \in DOMAIN calls' : calls'[c].at \in Steps /\ calls'[c].waits \in Waiting
      BY <2>2 DEF Call
    <2> QED
      BY <2>1, <2>3 DEF CheckoutInv, CheckoutTyped, CheckoutTypeOK
  <1>3. CartOneRestaurant'
    <2>1. EmptyCart.items = [i \in MenuItems |-> 0]
      BY DEF EmptyCart
    <2> QED
      BY <2>1 DEF CheckoutInv, CartOneRestaurant, InCart
  <1>4. OneWaits'
    BY DEF OneWaits, OnPage
  <1>5. CallsPlaced'
    BY StepsKept
  <1>6. ShownIsStored'
    BY DEF CheckoutInv, ShownIsStored
  <1> QED
    BY <1>2, <1>3, <1>4, <1>5, <1>6 DEF CheckoutInv

\* The customer leaves for another page.
LEMMA GoToKeeps ==
    ASSUME CheckoutInv, NEW p \in Pages, GoTo(p)
    PROVE  CheckoutInv'
  <1>1. /\ p # "order" /\ tab' = Show(p) /\ calls' = Leave(calls)
        /\ UNCHANGED <<cart, orders, created, faults>> /\ CheckoutTyped /\ calls \in Seq(Call)
    BY DEF CheckoutInv, CheckoutTyped, GoTo
  <1> QED
    BY <1>1, ShowType, LeaveType, PageMoves

\* Only the cart page awaits a call: the list of orders does not.
LEMMA OpenOrderKeeps ==
    ASSUME CheckoutInv, NEW c \in DOMAIN orders, OpenOrder(c)
    PROVE  CheckoutInv'
  <1>0. /\ CheckoutTyped /\ OneWaits /\ calls \in Seq(Call) /\ tab.page = "orders"
        /\ tab' = [Show("order") EXCEPT !.order = c]
        /\ UNCHANGED <<cart, calls, orders, created, faults>>
    BY DEF CheckoutInv, CheckoutTyped, OpenOrder
  <1>1. \A d \in DOMAIN calls : calls[d].waits # "page"
    BY <1>0 DEF OneWaits, OnPage
  <1>2. /\ Show("order") \in [page : Pages, submitting : BOOLEAN, failed : BOOLEAN,
                              token : BOOLEAN, order : 0..MaxCalls]
        /\ Show("order").page = "order" /\ Show("order").submitting = FALSE
    BY <1>0, ShowType DEF Pages
  <1>3. c \in 0..MaxCalls
    BY <1>0, CheckoutBounds DEF CheckoutTyped, CheckoutTypeOK
  <1>4. /\ tab' \in [page : Pages, submitting : BOOLEAN, failed : BOOLEAN,
                     token : BOOLEAN, order : 0..MaxCalls]
        /\ tab'.page = "order" /\ tab'.submitting = FALSE /\ tab'.order = c
    BY <1>0, <1>2, <1>3
  <1> QED
    BY <1>0, <1>1, <1>4, PageMoves

\* Only the cart page awaits a call: the login page does not.
LEMMA LogInKeeps == ASSUME CheckoutInv, LogIn PROVE CheckoutInv'
  <1>0. CheckoutTyped /\ OneWaits /\ calls \in Seq(Call)
        /\ tab.page = "login" /\ tab' = [Show("menu") EXCEPT !.token = TRUE]
        /\ UNCHANGED <<cart, calls, orders, created, faults>>
    BY DEF CheckoutInv, CheckoutTyped, LogIn
  <1>1. \A c \in DOMAIN calls : calls[c].waits # "page"
    BY <1>0 DEF OneWaits, OnPage
  <1>2. /\ Show("menu") \in [page : Pages, submitting : BOOLEAN, failed : BOOLEAN,
                             token : BOOLEAN, order : 0..MaxCalls]
        /\ Show("menu").page = "menu" /\ Show("menu").submitting = FALSE
    BY <1>0, ShowType DEF Pages
  <1>3. /\ tab' \in [page : Pages, submitting : BOOLEAN, failed : BOOLEAN,
                     token : BOOLEAN, order : 0..MaxCalls]
        /\ tab'.page = "menu" /\ tab'.submitting = FALSE
    BY <1>0, <1>2
  <1> QED
    BY <1>0, <1>1, <1>3, PageMoves

\* The session ends, and with it the page.
LEMMA LogOutKeeps == ASSUME CheckoutInv, LogOut PROVE CheckoutInv'
  <1>0. CheckoutTyped /\ calls \in Seq(Call)
        /\ tab' = [Show("menu") EXCEPT !.token = FALSE] /\ calls' = Leave(calls)
        /\ UNCHANGED <<cart, orders, created, faults>>
    BY DEF CheckoutInv, CheckoutTyped, LogOut
  <1>1. /\ Show("menu") \in [page : Pages, submitting : BOOLEAN, failed : BOOLEAN,
                             token : BOOLEAN, order : 0..MaxCalls]
        /\ Show("menu").page = "menu" /\ Show("menu").submitting = FALSE
    BY <1>0, ShowType DEF Pages
  <1>2. /\ tab' \in [page : Pages, submitting : BOOLEAN, failed : BOOLEAN,
                     token : BOOLEAN, order : 0..MaxCalls]
        /\ tab'.page = "menu" /\ tab'.submitting = FALSE
    BY <1>0, <1>1
  <1> QED
    BY <1>0, <1>2, LeaveType, PageMoves

\* A reload forgets the cart and every call.
LEMMA ReloadKeeps == ASSUME CheckoutInv, Reload PROVE CheckoutInv'
  <1>0. /\ CheckoutTyped /\ calls \in Seq(Call) /\ tab' = Show(tab.page) /\ tab.page \in Pages
        /\ calls' = [c \in DOMAIN calls |-> [calls[c] EXCEPT !.waits = "nobody"]]
        /\ cart' = EmptyCart /\ UNCHANGED <<orders, created, faults>>
        /\ tab.page = "order" => tab.order \in DOMAIN orders
    BY DEF CheckoutInv, CheckoutTyped, CheckoutTypeOK, Reload, ShownIsStored
  <1> DEFINE gone(c) == [calls[c] EXCEPT !.waits = "nobody"]
  <1>1. ASSUME NEW c \in DOMAIN calls
        PROVE  gone(c) \in Call /\ gone(c).at = calls[c].at /\ gone(c).waits # "page"
    <2>1. calls[c] \in Call
      BY <1>0
    <2> QED
      BY <2>1 DEF Call, Waiting
  <1>2. calls' = [c \in DOMAIN calls |-> gone(c)]
    BY <1>0
  <1> HIDE DEF gone
  <1>3. DOMAIN calls = 1..Len(calls) /\ Len(calls) \in Nat
    BY <1>0
  <1>4. /\ calls' \in Seq(Call) /\ Len(calls') = Len(calls) /\ DOMAIN calls' = DOMAIN calls
        /\ \A c \in DOMAIN calls : calls'[c].at = calls[c].at /\ calls'[c].waits # "page"
    BY <1>1, <1>2, <1>3
  <1> QED
    BY <1>0, <1>4, ShowType, PageMoves

\* A call that begins is at its first step.
LEMMA BegunPlaced ==
    ASSUME CheckoutInv, NEW r \in AnyRestaurant, NEW lines \in Seq(AnyLine),
           NEW waits \in Waiting, calls' = Append(calls, NewCall(r, lines, waits)),
           Len(calls) < MaxCalls, UNCHANGED <<cart, orders, created, faults>>,
           tab' \in [page : Pages, submitting : BOOLEAN, failed : BOOLEAN,
                     token : BOOLEAN, order : 0..MaxCalls]
    PROVE  CheckoutTyped' /\ CartOneRestaurant' /\ CallsPlaced'
  <1>0. CheckoutTyped
    BY DEF CheckoutInv
  <1>1. /\ calls' \in Seq(Call) /\ Len(calls') <= MaxCalls
        /\ DOMAIN calls' = DOMAIN calls \cup {Len(calls) + 1}
        /\ \A d \in DOMAIN calls : calls'[d] = calls[d]
        /\ calls'[Len(calls) + 1].at = "user"
    BY <1>0, BeginType
  <1>2. \A c \in DOMAIN calls' : calls'[c].at \in Steps /\ calls'[c].waits \in Waiting
    <2>1. \A c \in DOMAIN calls' : calls'[c] \in Call
      BY <1>1
    <2> QED
      BY <2>1 DEF Call
  <1>3. CheckoutTyped'
    BY <1>0, <1>1, <1>2 DEF CheckoutTyped, CheckoutTypeOK
  <1>4. CallsPlaced'
    <2>1. Len(calls) + 1 \notin DOMAIN orders
      BY <1>0 DEF CheckoutTyped, CheckoutTypeOK
    <2>2. \A d \in DOMAIN calls : calls'[d].at = calls[d].at
      BY <1>1
    <2> QED
      BY <1>1, <2>1, <2>2 DEF CheckoutInv, CallsPlaced
  <1>5. CartOneRestaurant'
    BY DEF CheckoutInv, CartOneRestaurant, InCart
  <1> QED
    BY <1>3, <1>4, <1>5

\* The button is pressed: the page awaits the call that it makes, and no other.
LEMMA PressCheckoutKeeps == ASSUME CheckoutInv, PressCheckout PROVE CheckoutInv'
  <1>0. /\ CheckoutTyped /\ OneWaits /\ ShownIsStored /\ calls \in Seq(Call)
        /\ tab.page = "cart" /\ ~tab.submitting
        /\ cart.restaurant \in Restaurants
        /\ UNCHANGED <<cart, orders, created, faults>>
    BY DEF CheckoutInv, CheckoutTyped, CheckoutTypeOK, PressCheckout, ButtonEnabled
  <1>1. CASE tab' = Show("login") /\ UNCHANGED calls
    <2>1. \A c \in DOMAIN calls : calls[c].waits # "page"
      BY <1>0 DEF OneWaits, OnPage
    <2>2. /\ Show("login") \in [page : Pages, submitting : BOOLEAN, failed : BOOLEAN,
                                token : BOOLEAN, order : 0..MaxCalls]
          /\ Show("login").page = "login" /\ Show("login").submitting = FALSE
      BY <1>0, ShowType DEF Pages
    <2> QED
      BY <1>0, <1>1, <2>1, <2>2, PageMoves
  <1>2. CASE /\ Len(calls) < MaxCalls
             /\ calls' = Append(calls, NewCall(cart.restaurant, CartLines, "page"))
             /\ tab' = [tab EXCEPT !.submitting = TRUE, !.failed = FALSE]
    <2>1. /\ tab' \in [page : Pages, submitting : BOOLEAN, failed : BOOLEAN,
                       token : BOOLEAN, order : 0..MaxCalls]
          /\ tab'.page = "cart" /\ tab'.submitting
      BY <1>0, <1>2 DEF CheckoutTyped, CheckoutTypeOK
    <2>2. cart.restaurant \in AnyRestaurant /\ CartLines \in Seq(AnyLine) /\ "page" \in Waiting
      BY <1>0, CartLinesType DEF AnyRestaurant, Waiting
    <2>3. /\ DOMAIN calls' = DOMAIN calls \cup {Len(calls) + 1}
          /\ \A d \in DOMAIN calls : calls'[d] = calls[d]
          /\ calls'[Len(calls) + 1].waits = "page"
      BY <1>0, <1>2, <2>2, BeginType
    <2>4. CheckoutTyped' /\ CartOneRestaurant' /\ CallsPlaced'
      BY <1>0, <1>2, <2>1, <2>2, BegunPlaced
    <2>5. OnPage' = {Len(calls) + 1}
      BY <1>0, <2>3 DEF OneWaits, OnPage
    <2>6. OneWaits'
      BY <2>1, <2>5 DEF OneWaits
    <2>7. ShownIsStored'
      BY <1>0, <2>1 DEF ShownIsStored
    <2> QED
      BY <2>4, <2>6, <2>7 DEF CheckoutInv
  <1> QED
    BY <1>1, <1>2 DEF PressCheckout

\* Another client calls, for which no page waits.
LEMMA SendKeeps ==
    ASSUME CheckoutInv, NEW req \in Requests, Send(req)
    PROVE  CheckoutInv'
  <1>0. /\ CheckoutTyped /\ OneWaits /\ ShownIsStored /\ Len(calls) < MaxCalls
        /\ calls' = Append(calls, NewCall(req.restaurant, req.lines, "nobody"))
        /\ UNCHANGED <<cart, tab, orders, created, faults>>
    BY DEF CheckoutInv, Send
  <1>1. /\ req.restaurant \in AnyRestaurant /\ "nobody" \in Waiting /\ "nobody" # "page"
        /\ req.lines \in Seq(RequestLines)
    BY RequestsAssumption DEF AnyRestaurant, Waiting
  <1>2. req.lines \in Seq(AnyLine)
    BY <1>1 DEF AnyLine
  <1>3. tab' \in [page : Pages, submitting : BOOLEAN, failed : BOOLEAN,
                  token : BOOLEAN, order : 0..MaxCalls]
    BY <1>0 DEF CheckoutTyped, CheckoutTypeOK
  <1>4. /\ DOMAIN calls' = DOMAIN calls \cup {Len(calls) + 1}
        /\ \A d \in DOMAIN calls : calls'[d] = calls[d]
        /\ calls'[Len(calls) + 1].waits = "nobody"
    BY <1>0, <1>1, <1>2, BeginType
  <1>5. CheckoutTyped' /\ CartOneRestaurant' /\ CallsPlaced'
    BY <1>0, <1>1, <1>2, <1>3, BegunPlaced
  <1>6. OnPage' = OnPage
    BY <1>1, <1>4 DEF OnPage
  <1>7. OneWaits' /\ ShownIsStored'
    BY <1>0, <1>6 DEF OneWaits, ShownIsStored
  <1> QED
    BY <1>5, <1>7 DEF CheckoutInv

-----------------------------------------------------------------------------
(***************************************************************************)
(* The servers.                                                            *)
(***************************************************************************)
\* A fault is counted.
LEMMA FaultsType ==
    ASSUME CheckoutTyped, Fault \/ UNCHANGED faults
    PROVE  faults' \in 0..MaxFaults
  BY CheckoutBounds DEF CheckoutTyped, CheckoutTypeOK, Fault

\* A call goes on, when its row is stored before its event is published, and its
\* event published before it is answered.
LEMMA WorkMoves ==
    ASSUME CheckoutInv, NEW c \in DOMAIN calls, NEW step \in Steps, Goto(c, step),
           orders' = orders \/ DOMAIN orders' = DOMAIN orders \cup {c},
           step \in Early => orders' = orders /\ calls[c].at \in Early,
           created' = created \/ (created' = created \cup {c} /\ calls[c].at = "publish"),
           step = "publish" => c \in DOMAIN orders', step = "ok" => c \in created',
           Fault \/ UNCHANGED faults, UNCHANGED <<cart, tab>>
    PROVE  CheckoutInv'
  <1>0. CheckoutTyped /\ CallsPlaced /\ ShownIsStored /\ OneWaits
    BY DEF CheckoutInv
  <1>1. /\ calls' \in Seq(Call) /\ DOMAIN calls' = DOMAIN calls /\ Len(calls') = Len(calls)
        /\ calls'[c].at = step /\ \A d \in DOMAIN calls \ {c} : calls'[d] = calls[d]
        /\ \A d \in DOMAIN calls : calls'[d].waits = calls[d].waits
    BY <1>0, GotoType
  <1>2. DOMAIN orders \subseteq DOMAIN orders' /\ created \subseteq created'
    OBVIOUS
  <1>3. \A d \in DOMAIN calls' : calls'[d].at \in Steps /\ calls'[d].waits \in Waiting
    <2>1. \A d \in DOMAIN calls' : calls'[d] \in Call
      BY <1>1
    <2> QED
      BY <2>1 DEF Call
  <1>4. faults' \in 0..MaxFaults
    BY <1>0, FaultsType
  <1>5. CheckoutTyped'
    BY <1>0, <1>1, <1>3, <1>4 DEF CheckoutTyped, CheckoutTypeOK
  <1>6. CallsPlaced'
    BY <1>0, <1>1, <1>2 DEF CallsPlaced
  <1>7. OnPage' = OnPage
    BY <1>1 DEF OnPage
  <1>8. ShownIsStored'
    BY <1>0, <1>2 DEF ShownIsStored, CallsPlaced
  <1>9. OneWaits' /\ CartOneRestaurant'
    BY <1>7 DEF CheckoutInv, OneWaits, CartOneRestaurant, InCart
  <1> QED
    BY <1>5, <1>6, <1>8, <1>9 DEF CheckoutInv

\* The four steps of a call.
LEMMA WorkKeeps ==
    ASSUME CheckoutInv, NEW c \in DOMAIN calls, Work(c)
    PROVE  CheckoutInv'
  <1>0. /\ "menu" \in Steps /\ "insert" \in Steps /\ "publish" \in Steps /\ "ok" \in Steps
        /\ "error" \in Steps
    BY DEF Steps
  <1>1. CASE CheckUser(c)
    <2>1. /\ Goto(c, "menu") \/ Goto(c, "error")
          /\ (Fault \/ UNCHANGED faults) /\ UNCHANGED <<cart, tab, orders, created>>
          /\ calls[c].at \in Early
      BY <1>1 DEF CheckUser, At, Early
    <2> QED
      BY <1>0, <2>1, WorkMoves
  <1>2. CASE CheckMenu(c)
    <2>1. /\ Goto(c, "insert") \/ Goto(c, "error")
          /\ (Fault \/ UNCHANGED faults) /\ UNCHANGED <<cart, tab, orders, created>>
          /\ calls[c].at \in Early
      BY <1>2 DEF CheckMenu, At, Early
    <2> QED
      BY <1>0, <2>1, WorkMoves
  <1>3. CASE InsertOrder(c)
    <2>1. /\ \/ Inserted(c) /\ Goto(c, "publish")
             \/ (Inserted(c) \/ UNCHANGED orders) /\ Goto(c, "error")
          /\ Fault \/ UNCHANGED faults
          /\ UNCHANGED <<cart, tab, created>>
      BY <1>3 DEF InsertOrder
    <2>2. Inserted(c) => DOMAIN orders' = DOMAIN orders \cup {c}
      BY DEF Inserted
    <2>3. "publish" \notin Early /\ "error" \notin Early
      BY DEF Early
    <2> QED
      BY <1>0, <2>1, <2>2, <2>3, WorkMoves
  <1>4. CASE PublishCreated(c)
    <2>1. /\ \/ Published(c) /\ Goto(c, "ok")
             \/ (Published(c) \/ UNCHANGED created) /\ Goto(c, "error")
          /\ Fault \/ UNCHANGED faults
          /\ UNCHANGED <<cart, tab, orders>> /\ calls[c].at = "publish"
      BY <1>4 DEF PublishCreated, At
    <2>2. Published(c) => created' = created \cup {c}
      BY DEF Published
    <2>3. "ok" \notin Early /\ "error" \notin Early
      BY DEF Early
    <2> QED
      BY <1>0, <2>1, <2>2, <2>3, WorkMoves
  <1> QED
    BY <1>1, <1>2, <1>3, <1>4 DEF Work

-----------------------------------------------------------------------------
(***************************************************************************)
(* The answer.                                                             *)
(***************************************************************************)
\* An order is shown that was stored.
LEMMA SucceedKeeps ==
    ASSUME CheckoutInv, NEW c \in DOMAIN calls, Succeed(c)
    PROVE  CheckoutInv'
  <1> DEFINE cs == [calls EXCEPT ![c].waits = "nobody"]
  <1>0. /\ CheckoutTyped /\ c \in DOMAIN orders /\ cart' = EmptyCart
        /\ tab' = [Show("order") EXCEPT !.order = c] /\ calls' = Leave(cs)
        /\ UNCHANGED <<orders, created, faults>>
    BY DEF CheckoutInv, CallsPlaced, ShownIsStored, Succeed, At
  <1>1. /\ cs \in Seq(Call) /\ DOMAIN cs = DOMAIN calls /\ Len(cs) = Len(calls)
        /\ \A d \in DOMAIN calls : cs[d].at = calls[d].at
    BY <1>0, AnsweredType
  <1> HIDE DEF cs
  <1>2. /\ calls' \in Seq(Call) /\ DOMAIN calls' = DOMAIN calls /\ Len(calls') = Len(calls)
        /\ \A d \in DOMAIN calls : calls'[d].at = calls[d].at /\ calls'[d].waits # "page"
    BY <1>0, <1>1, LeaveType
  <1>3. /\ Show("order") \in [page : Pages, submitting : BOOLEAN, failed : BOOLEAN,
                              token : BOOLEAN, order : 0..MaxCalls]
        /\ Show("order").page = "order" /\ Show("order").submitting = FALSE
    BY <1>0, ShowType DEF Pages
  <1>4. c \in 0..MaxCalls
    BY <1>0, CheckoutBounds DEF CheckoutTyped, CheckoutTypeOK
  <1>5. /\ tab' \in [page : Pages, submitting : BOOLEAN, failed : BOOLEAN,
                     token : BOOLEAN, order : 0..MaxCalls]
        /\ tab'.page = "order" /\ tab'.submitting = FALSE /\ tab'.order = c
    BY <1>0, <1>3, <1>4
  <1> QED
    BY <1>0, <1>2, <1>5, PageMoves

\* The page stays and its call is over, or the call is no longer of a page.
LEMMA FailedMoves ==
    ASSUME CheckoutInv, NEW c \in DOMAIN calls, tab' = Failed(c),
           calls' = [calls EXCEPT ![c].waits = "nobody"],
           Fault \/ UNCHANGED faults, UNCHANGED <<cart, orders, created>>
    PROVE  CheckoutInv'
  <1>0. CheckoutTyped /\ CallsPlaced /\ ShownIsStored /\ OneWaits
    BY DEF CheckoutInv
  <1>1. /\ calls' \in Seq(Call) /\ DOMAIN calls' = DOMAIN calls /\ Len(calls') = Len(calls)
        /\ \A d \in DOMAIN calls : calls'[d].at = calls[d].at
        /\ calls'[c].waits = "nobody"
        /\ \A d \in DOMAIN calls \ {c} : calls'[d] = calls[d]
    BY <1>0, AnsweredType
  <1>2. /\ tab' \in [page : Pages, submitting : BOOLEAN, failed : BOOLEAN,
                     token : BOOLEAN, order : 0..MaxCalls]
        /\ tab'.page = tab.page /\ tab'.order = tab.order
        /\ tab'.submitting = IF calls[c].waits = "page" THEN FALSE ELSE tab.submitting
    <2>1. tab \in [page : Pages, submitting : BOOLEAN, failed : BOOLEAN,
                   token : BOOLEAN, order : 0..MaxCalls]
      BY <1>0 DEF CheckoutTyped, CheckoutTypeOK
    <2>2. CASE calls[c].waits = "page"
      <3>1. tab' = [tab EXCEPT !.failed = TRUE, !.submitting = FALSE]
        BY <2>2 DEF Failed
      <3> QED
        BY <2>1, <2>2, <3>1
    <2>3. CASE calls[c].waits # "page"
      <3>1. tab' = tab
        BY <2>3 DEF Failed
      <3> QED
        BY <2>1, <2>3, <3>1
    <2> QED
      BY <2>2, <2>3
  <1>3. OnPage' = OnPage \ {c}
    BY <1>1 DEF OnPage
  <1>4. OneWaits'
    <2>1. CASE calls[c].waits = "page"
      <3>1. c \in OnPage
        BY <2>1 DEF OnPage
      <3>2. OnPage = {c}
        BY <1>0, <3>1 DEF OneWaits
      <3> QED
        BY <1>2, <1>3, <2>1, <3>2 DEF OneWaits
    <2>2. CASE calls[c].waits # "page"
      <3>1. OnPage' = OnPage
        BY <1>3, <2>2 DEF OnPage
      <3> QED
        BY <1>0, <1>2, <2>2, <3>1 DEF OneWaits
    <2> QED
      BY <2>1, <2>2
  <1>5. \A d \in DOMAIN calls' : calls'[d].at \in Steps /\ calls'[d].waits \in Waiting
    <2>1. \A d \in DOMAIN calls' : calls'[d] \in Call
      BY <1>1
    <2> QED
      BY <2>1 DEF Call
  <1>6. CheckoutTyped'
    <2>1. faults' \in 0..MaxFaults
      BY <1>0, FaultsType
    <2> QED
      BY <1>0, <1>1, <1>2, <1>5, <2>1 DEF CheckoutTyped, CheckoutTypeOK
  <1>7. CallsPlaced'
    BY <1>1, StepsKept
  <1>8. ShownIsStored' /\ CartOneRestaurant'
    BY <1>2 DEF CheckoutInv, ShownIsStored, CartOneRestaurant, InCart
  <1> QED
    BY <1>4, <1>6, <1>7, <1>8 DEF CheckoutInv

-----------------------------------------------------------------------------
\* An empty cart, and nothing called.
LEMMA InitCheckout == Init => CheckoutInv
  <1> SUFFICES ASSUME Init PROVE CheckoutInv
    OBVIOUS
  <1>1. /\ cart = [restaurant |-> Nobody, items |-> [i \in MenuItems |-> 0]]
        /\ calls = <<>> /\ orders = <<>> /\ created = {}
    BY DEF Init, EmptyCart
  <1>2. CheckoutTyped
    BY <1>1, CheckoutBounds DEF Init, CheckoutTyped, CheckoutTypeOK, Pages
  <1>3. CartOneRestaurant
    BY <1>1 DEF CartOneRestaurant, InCart
  <1>4. OneWaits /\ CallsPlaced /\ ShownIsStored
    BY <1>1 DEF Init, OneWaits, OnPage, CallsPlaced, ShownIsStored
  <1> QED
    BY <1>2, <1>3, <1>4 DEF CheckoutInv

\* Every step keeps the invariant.
LEMMA NextCheckout == CheckoutInv /\ [Next]_checkoutVars => CheckoutInv'
  <1> SUFFICES ASSUME CheckoutInv, [Next]_checkoutVars PROVE CheckoutInv'
    OBVIOUS
  <1>1. CASE UNCHANGED checkoutVars
    <2>1. UNCHANGED <<cart, tab, calls, orders, created, faults>>
      BY <1>1 DEF checkoutVars
    <2> QED
      BY <2>1 DEF CheckoutInv, CheckoutTyped, CheckoutTypeOK, CartOneRestaurant, InCart,
                  OneWaits, OnPage, CallsPlaced, ShownIsStored
  <1>2. CASE Customer
    BY <1>2, AddItemKeeps, UpdateQuantityKeeps, GoToKeeps, OpenOrderKeeps, LogInKeeps,
       LogOutKeeps, ReloadKeeps, PressCheckoutKeeps DEF Customer
  <1>3. ASSUME NEW req \in Requests, Send(req) PROVE CheckoutInv'
    BY <1>3, SendKeeps
  <1>4. ASSUME NEW c \in DOMAIN calls, Work(c) \/ Succeed(c) PROVE CheckoutInv'
    BY <1>4, WorkKeeps, SucceedKeeps
  <1>5. ASSUME NEW c \in DOMAIN calls, Fail(c) \/ GiveUp(c) PROVE CheckoutInv'
    BY <1>5, FailedMoves DEF Fail, GiveUp
  <1> QED
    BY <1>1, <1>2, <1>3, <1>4, <1>5 DEF Next

\* The inductive invariant of the checkout.
THEOREM CheckoutIsInvariant == Spec => []CheckoutInv
  BY InitCheckout, NextCheckout, PTL DEF Spec

\* The types of the checkout's variables; rows and events belong to calls.
THEOREM CheckoutTypesHold == Spec => []CheckoutTypeOK
  <1>1. CheckoutInv => CheckoutTypeOK
    BY DEF CheckoutInv, CheckoutTyped
  <1> QED
    BY <1>1, CheckoutIsInvariant, PTL

\* The cart never mixes restaurants (setRestaurant and addItem, CartContext.tsx).
THEOREM CartIsOfOneRestaurant == Spec => []CartOneRestaurant
  <1>1. CheckoutInv => CartOneRestaurant
    BY DEF CheckoutInv
  <1> QED
    BY <1>1, CheckoutIsInvariant, PTL

\* An order that is stored and never announced has been answered with an error,
\* or is still to be published, so that nobody was told that it is placed; and
\* what a page shows is stored (CreateOrder, service.go of order-svc).
THEOREM PlacedOrdersAreAnnounced == Spec => []PlacedIsAnnounced
  <1>1. CheckoutInv => PlacedIsAnnounced
    <2> SUFFICES ASSUME CheckoutInv, NEW c \in DOMAIN orders \ created
                 PROVE  At(c, "publish") \/ At(c, "error")
      BY DEF CheckoutInv, ShownIsStored, PlacedIsAnnounced
    <2>1. c \in DOMAIN calls /\ calls[c].at \in Steps
      BY DEF CheckoutInv, CheckoutTyped, CheckoutTypeOK
    <2>2. calls[c].at \notin Early /\ calls[c].at # "ok"
      BY <2>1 DEF CheckoutInv, CallsPlaced
    <2> QED
      BY <2>1, <2>2 DEF Steps, Early, At
  <1> QED
    BY <1>1, CheckoutIsInvariant, PTL

\* A mounted cart page never has two calls under way (handleCheckout, page.tsx).
THEOREM PageSubmitsOnce == Spec => []SubmitsOnce
  <1>1. CheckoutInv => SubmitsOnce
    <2> SUFFICES ASSUME CheckoutInv PROVE Cardinality(OnPage) = IF tab.submitting THEN 1 ELSE 0
      BY DEF SubmitsOnce, OnPage
    <2> QED
      BY FS_EmptySet, FS_Singleton DEF CheckoutInv, OneWaits
  <1> QED
    BY <1>1, CheckoutIsInvariant, PTL

-----------------------------------------------------------------------------
(***************************************************************************)
(* What is stored.  That the quantities and the total are those that were  *)
(* asked for is a fact about folds, which the runs check; here is the rest *)
(* of what an order has to honour.                                         *)
(***************************************************************************)
Accepted(c) ==
    /\ ValidateMenu(calls[c].restaurant, calls[c].lines)
    /\ QuantitiesOK(calls[c].restaurant, calls[c].lines)

\* A row is stored only of an accepted call, as CreateOrder computes it.
StoredAreAccepted ==
    \A c \in DOMAIN calls :
        /\ calls[c].at = "insert" => Accepted(c)
        /\ c \in DOMAIN orders =>
              Accepted(c) /\ orders[c] = NewOrder(calls[c].restaurant, calls[c].lines)

\* A call that goes on keeps its request; only an accepted one is inserted.
LEMMA WorkAccepts ==
    ASSUME CheckoutInv, StoredAreAccepted, NEW c \in DOMAIN calls, NEW step \in Steps,
           Goto(c, step), step = "insert" => Accepted(c),
           UNCHANGED orders \/ (Inserted(c) /\ calls[c].at = "insert")
    PROVE  StoredAreAccepted'
  <1>1. /\ DOMAIN calls' = DOMAIN calls /\ calls'[c].at = step
        /\ \A d \in DOMAIN calls \ {c} : calls'[d] = calls[d]
        /\ \A d \in DOMAIN calls : /\ calls'[d].restaurant = calls[d].restaurant
                                   /\ calls'[d].lines = calls[d].lines
    BY GotoType DEF CheckoutInv
  <1>2. \A d \in DOMAIN calls : Accepted(d)' <=> Accepted(d)
    BY <1>1 DEF Accepted
  <1>3. \A d \in DOMAIN calls : d \in DOMAIN orders' =>
           Accepted(d) /\ orders'[d] = NewOrder(calls[d].restaurant, calls[d].lines)
    <2>1. CASE UNCHANGED orders
      BY <2>1 DEF StoredAreAccepted
    <2>2. CASE Inserted(c) /\ calls[c].at = "insert"
      BY <2>2 DEF StoredAreAccepted, Inserted
    <2> QED
      BY <2>1, <2>2
  <1> QED
    BY <1>1, <1>2, <1>3 DEF StoredAreAccepted

\* The calls that were there keep their steps and requests; a new one has no row.
LEMMA CallsAccepted ==
    ASSUME CheckoutInv, StoredAreAccepted, UNCHANGED orders,
           \A c \in DOMAIN calls' :
              \/ /\ c \in DOMAIN calls /\ calls'[c].at = calls[c].at
                 /\ calls'[c].restaurant = calls[c].restaurant /\ calls'[c].lines = calls[c].lines
              \/ c \notin DOMAIN calls /\ calls'[c].at = "user"
    PROVE  StoredAreAccepted'
  <1>1. DOMAIN orders \subseteq DOMAIN calls
    BY DEF CheckoutInv, CheckoutTyped, CheckoutTypeOK
  <1>2. \A c \in DOMAIN calls' \cap DOMAIN calls : Accepted(c)' <=> Accepted(c)
    BY DEF Accepted
  <1> QED
    BY <1>1, <1>2 DEF StoredAreAccepted

\* Who waits for a call says nothing of its request.
LEMMA WaitsKeepRequest ==
    ASSUME CheckoutTyped
    PROVE  /\ \A cs \in Seq(Call) : \A c \in DOMAIN cs :
                 /\ Leave(cs)[c].restaurant = cs[c].restaurant
                 /\ Leave(cs)[c].lines = cs[c].lines
           /\ \A c, d \in DOMAIN calls :
                 /\ [calls EXCEPT ![d].waits = "nobody"][c].restaurant = calls[c].restaurant
                 /\ [calls EXCEPT ![d].waits = "nobody"][c].lines = calls[c].lines
  <1>1. ASSUME NEW cs \in Seq(Call), NEW c \in DOMAIN cs
        PROVE  /\ Leave(cs)[c].restaurant = cs[c].restaurant
               /\ Leave(cs)[c].lines = cs[c].lines
    <2>1. cs[c] \in Call
      OBVIOUS
    <2>2. Leave(cs)[c] = IF cs[c].waits = "page" THEN [cs[c] EXCEPT !.waits = "left"] ELSE cs[c]
      BY DEF Leave
    <2> QED
      BY <2>1, <2>2 DEF Call
  <1>2. ASSUME NEW c \in DOMAIN calls, NEW d \in DOMAIN calls
        PROVE  /\ [calls EXCEPT ![d].waits = "nobody"][c].restaurant = calls[c].restaurant
               /\ [calls EXCEPT ![d].waits = "nobody"][c].lines = calls[c].lines
    <2>1. calls[c] \in Call /\ calls \in Seq(Call)
      BY DEF CheckoutTyped
    <2>2. [calls EXCEPT ![d].waits = "nobody"][c]
             = IF c = d THEN [calls[c] EXCEPT !.waits = "nobody"] ELSE calls[c]
      BY <2>1
    <2> QED
      BY <2>1, <2>2 DEF Call
  <1> QED
    BY <1>1, <1>2

\* Every step keeps it.
LEMMA NextAccepted == CheckoutInv /\ StoredAreAccepted /\ [Next]_checkoutVars => StoredAreAccepted'
  <1> SUFFICES ASSUME CheckoutInv, StoredAreAccepted, [Next]_checkoutVars
               PROVE  StoredAreAccepted'
    OBVIOUS
  <1>0. CheckoutTyped /\ calls \in Seq(Call)
    BY DEF CheckoutInv, CheckoutTyped
  <1>1. ASSUME UNCHANGED <<calls, orders>> PROVE StoredAreAccepted'
    BY <1>1 DEF StoredAreAccepted, Accepted
  <1>2. ASSUME calls' = Leave(calls), UNCHANGED orders PROVE StoredAreAccepted'
    <2>1. /\ DOMAIN calls' = DOMAIN calls
          /\ \A c \in DOMAIN calls : /\ calls'[c].at = calls[c].at
                                     /\ calls'[c].restaurant = calls[c].restaurant
                                     /\ calls'[c].lines = calls[c].lines
      BY <1>0, <1>2, LeaveType, WaitsKeepRequest
    <2> QED
      BY <1>2, <2>1, CallsAccepted
  <1>3. ASSUME NEW c \in DOMAIN calls, UNCHANGED orders,
               calls' \in {[calls EXCEPT ![c].waits = "nobody"],
                           Leave([calls EXCEPT ![c].waits = "nobody"])}
        PROVE  StoredAreAccepted'
    <2> DEFINE cs == [calls EXCEPT ![c].waits = "nobody"]
    <2>1. /\ cs \in Seq(Call) /\ DOMAIN cs = DOMAIN calls
          /\ \A d \in DOMAIN calls : /\ cs[d].at = calls[d].at
                                     /\ cs[d].restaurant = calls[d].restaurant
                                     /\ cs[d].lines = calls[d].lines
      BY <1>0, AnsweredType, WaitsKeepRequest
    <2>2. calls' = cs \/ calls' = Leave(cs)
      BY <1>3
    <2> HIDE DEF cs
    <2>3. /\ DOMAIN calls' = DOMAIN calls
          /\ \A d \in DOMAIN calls : /\ calls'[d].at = calls[d].at
                                     /\ calls'[d].restaurant = calls[d].restaurant
                                     /\ calls'[d].lines = calls[d].lines
      BY <1>0, <2>1, <2>2, LeaveType, WaitsKeepRequest
    <2> QED
      BY <1>3, <2>3, CallsAccepted
  <1>4. ASSUME NEW r \in AnyRestaurant, NEW lines \in Seq(AnyLine), NEW waits \in Waiting,
               Len(calls) < MaxCalls,
               calls' = Append(calls, NewCall(r, lines, waits)), UNCHANGED orders
        PROVE  StoredAreAccepted'
    <2>1. /\ DOMAIN calls' = DOMAIN calls \cup {Len(calls) + 1}
          /\ Len(calls) + 1 \notin DOMAIN calls
          /\ \A d \in DOMAIN calls : calls'[d] = calls[d]
          /\ calls'[Len(calls) + 1].at = "user"
      BY <1>0, <1>4, BeginType
    <2> QED
      BY <1>4, <2>1, CallsAccepted
  <1>5. ASSUME NEW c \in DOMAIN calls, Work(c) PROVE StoredAreAccepted'
    <2>0. {"menu", "insert", "publish", "ok", "error"} \subseteq Steps
      BY DEF Steps
    <2>1. CASE CheckUser(c)
      <3>1. (Goto(c, "menu") \/ Goto(c, "error")) /\ UNCHANGED orders
        BY <2>1 DEF CheckUser
      <3> QED
        BY <2>0, <3>1, WorkAccepts
    <2>2. CASE CheckMenu(c)
      <3>1. ((Goto(c, "insert") /\ Accepted(c)) \/ Goto(c, "error")) /\ UNCHANGED orders
        BY <2>2 DEF CheckMenu, Accepted
      <3> QED
        BY <2>0, <3>1, WorkAccepts
    <2>3. CASE InsertOrder(c)
      <3>1. /\ Goto(c, "publish") \/ Goto(c, "error")
            /\ UNCHANGED orders \/ (Inserted(c) /\ calls[c].at = "insert")
        BY <2>3 DEF InsertOrder, At
      <3> QED
        BY <2>0, <3>1, WorkAccepts
    <2>4. CASE PublishCreated(c)
      <3>1. (Goto(c, "ok") \/ Goto(c, "error")) /\ UNCHANGED orders
        BY <2>4 DEF PublishCreated
      <3> QED
        BY <2>0, <3>1, WorkAccepts
    <2> QED
      BY <1>5, <2>1, <2>2, <2>3, <2>4 DEF Work
  <1>6. CASE UNCHANGED checkoutVars
    BY <1>1, <1>6 DEF checkoutVars
  <1>7. CASE Customer
    <2>1. ASSUME NEW i \in MenuItems, AddItem(i) PROVE StoredAreAccepted'
      BY <1>1, <2>1 DEF AddItem
    <2>2. ASSUME NEW i \in MenuItems, NEW n \in 0..MaxQuantity, UpdateQuantity(i, n)
          PROVE  StoredAreAccepted'
      BY <1>1, <2>2 DEF UpdateQuantity
    <2>3. ASSUME NEW p \in Pages, GoTo(p) PROVE StoredAreAccepted'
      BY <1>2, <2>3 DEF GoTo
    <2>4. CASE LogIn
      BY <1>1, <2>4 DEF LogIn
    <2>5. CASE LogOut
      BY <1>2, <2>5 DEF LogOut
    <2>6. CASE Reload
      <3>1. /\ DOMAIN calls' = DOMAIN calls /\ UNCHANGED orders
            /\ \A c \in DOMAIN calls : calls'[c] = [calls[c] EXCEPT !.waits = "nobody"]
        BY <2>6 DEF Reload
      <3>2. ASSUME NEW c \in DOMAIN calls
            PROVE  /\ calls'[c].at = calls[c].at
                   /\ calls'[c].restaurant = calls[c].restaurant /\ calls'[c].lines = calls[c].lines
        <4>1. calls[c] \in Call
          BY <1>0
        <4> QED
          BY <3>1, <4>1 DEF Call
      <3> QED
        BY <3>1, <3>2, CallsAccepted
    <2>7. CASE PressCheckout
      <3>1. \/ UNCHANGED <<calls, orders>>
            \/ /\ Len(calls) < MaxCalls /\ UNCHANGED orders
               /\ calls' = Append(calls, NewCall(cart.restaurant, CartLines, "page"))
        BY <2>7 DEF PressCheckout
      <3>2. cart.restaurant \in AnyRestaurant /\ CartLines \in Seq(AnyLine) /\ "page" \in Waiting
        BY <1>0, CartLinesType DEF CheckoutTyped, CheckoutTypeOK, AnyRestaurant, Waiting
      <3> QED
        BY <1>1, <1>4, <3>1, <3>2
    <2>8. ASSUME NEW c \in DOMAIN orders, OpenOrder(c) PROVE StoredAreAccepted'
      BY <1>1, <2>8 DEF OpenOrder
    <2> QED
      BY <1>7, <2>1, <2>2, <2>3, <2>4, <2>5, <2>6, <2>7, <2>8 DEF Customer
  <1>8. ASSUME NEW req \in Requests, Send(req) PROVE StoredAreAccepted'
    <2>1. req.restaurant \in AnyRestaurant /\ "nobody" \in Waiting /\ req.lines \in Seq(RequestLines)
      BY RequestsAssumption DEF AnyRestaurant, Waiting
    <2>2. req.lines \in Seq(AnyLine)
      BY <2>1 DEF AnyLine
    <2> QED
      BY <1>4, <1>8, <2>1, <2>2 DEF Send
  <1>9. ASSUME NEW c \in DOMAIN calls, Succeed(c) \/ Fail(c) \/ GiveUp(c)
        PROVE  StoredAreAccepted'
    BY <1>3, <1>9 DEF Succeed, Fail, GiveUp
  <1> QED
    BY <1>5, <1>6, <1>7, <1>8, <1>9 DEF Next

\* If every line finds its item, no line repeats one, and all are of the restaurant:
\* the SELECT answers with a set of rows (validateMenu of restaurant-svc).
LEMMA EveryLineFound ==
    ASSUME NEW lines \in Seq(AnyLine), NEW r, FoundAll(r, lines)
    PROVE  /\ GetMenuItems(r, ItemIds(lines)) = ItemIds(lines)
           /\ \A j, k \in DOMAIN lines : lines[j].item = lines[k].item => j = k
  <1> DEFINE n == Len(lines)
             ids == ItemIds(lines)
             f == [k \in 1..n |-> lines[k].item]
  <1>1. n \in Nat /\ DOMAIN lines = 1..n
    OBVIOUS
  <1>2. ids = {lines[k].item : k \in 1..n}
    BY <1>1 DEF ItemIds
  <1>3. f \in Surjection(1..n, ids)
    BY <1>2 DEF Surjection
  <1>4. IsFiniteSet(1..n) /\ Cardinality(1..n) = n
    BY <1>1, FS_Interval
  <1> HIDE DEF n, ids, f
  <1>5. /\ IsFiniteSet(ids) /\ Cardinality(ids) <= n /\ Cardinality(ids) \in Nat
        /\ Cardinality(ids) = n => f \in Injection(1..n, ids)
    BY <1>3, <1>4, FS_Surjection, FS_CardinalityType
  <1>6. GetMenuItems(r, ids) \subseteq ids
    BY DEF GetMenuItems
  <1>7. Cardinality(GetMenuItems(r, ids)) = n
    BY DEF FoundAll, n, ids
  <1>8. /\ Cardinality(GetMenuItems(r, ids)) <= Cardinality(ids)
        /\ Cardinality(ids) = Cardinality(GetMenuItems(r, ids)) => ids = GetMenuItems(r, ids)
    BY <1>5, <1>6, FS_Subset
  <1>9. Cardinality(ids) = n
    BY <1>1, <1>5, <1>7, <1>8
  <1>10. GetMenuItems(r, ids) = ids /\ f \in Injection(1..n, ids)
    BY <1>5, <1>7, <1>8, <1>9
  <1>11. \A j, k \in 1..n : f[j] = f[k] => j = k
    BY <1>10 DEF Injection, IsInjective
  <1> QED
    BY <1>1, <1>10, <1>11 DEF f, ids

\* What CreateOrder stores is what was asked for: no line repeats an item, so that
\* qtyMap has the quantity of each, and the sum over the rows of the menu is the
\* sum over the lines.
LEMMA OrderIsTheRequest ==
    ASSUME NEW lines \in Seq(AnyLine), NEW r, ValidateMenu(r, lines), QuantitiesOK(r, lines)
    PROVE  Honours(NewOrder(r, lines), r, lines)
  <1> DEFINE n == Len(lines)
             ids == ItemIds(lines)
             qty == QtyMap(lines)
             bought == [i \in ids |-> qty[i]]
  <1>1. n \in Nat /\ DOMAIN lines = 1..n
    OBVIOUS
  <1>2. /\ GetMenuItems(r, ids) = ids
        /\ \A j, k \in 1..n : lines[j].item = lines[k].item => j = k
    BY <1>1, EveryLineFound DEF ValidateMenu
  <1>3. \A k \in 1..n : lines[k].quantity \in Int
    <2>1. \A k \in 1..n : lines[k] \in AnyLine
      OBVIOUS
    <2> QED
      BY <2>1, RequestsAssumption DEF AnyLine
  <1>4. ids = {lines[k].item : k \in 1..n}
    BY <1>1 DEF ItemIds
  <1>5. \A i \in ids : i \in MenuItems /\ Menu[i].restaurant = r /\ Menu[i].available /\ qty[i] > 0
    BY <1>2 DEF GetMenuItems, QuantitiesOK
  <1>6. NewOrder(r, lines) = [restaurant |-> r, items |-> bought, total |-> PriceOf(bought)]
    BY <1>2 DEF NewOrder
  <1>7. \A k \in 1..n : /\ lines[k].item \in ids /\ Menu[lines[k].item].price \in Int
                       /\ lines[k].item \in MenuItems
    BY <1>4, <1>5, MenuAssumption
  <1>8. \A k \in 1..n : qty[lines[k].item] = lines[k].quantity
    <2> TAKE k \in 1..n
    <2>1. {j \in DOMAIN lines : lines[j].item = lines[k].item} = {k}
      BY <1>1, <1>2
    <2>2. {k} \in SUBSET (1..n) /\ {k} # {}
      OBVIOUS
    <2>3. Max({k}) = k
      BY <1>1, <2>2, MaxIs
    <2>4. LastLine(lines, lines[k].item) = k
      BY <2>1, <2>3 DEF LastLine
    <2> QED
      BY <1>7, <2>4 DEF QtyMap
  <1> HIDE DEF n, ids, qty
  <1>9. \A k \in 1..n : Asked(lines, lines[k].item) = lines[k].quantity
    <2> TAKE k \in 1..n
    <2>0. PICK p : AsksFor(p, n, lines, lines[k].item)
      BY <1>1, <1>3, AskedSteps, Zenon
    <2>1. /\ p[0] = 0 /\ Asked(lines, lines[k].item) = p[n]
          /\ \A j \in 1..n :
                p[j] = IF lines[j].item = lines[k].item
                       THEN p[j - 1] + lines[j].quantity ELSE p[j - 1]
      BY <2>0 DEF AsksFor
    <2> DEFINE sofar(j) == IF j < k THEN 0 ELSE lines[k].quantity
               T == {j \in 0..n : p[j] = sofar(j)}
    <2>2. 0 \in T
      BY <1>1, <2>1
    <2>3. ASSUME NEW j \in 0..n, j \in T, j < n PROVE j + 1 \in T
      <3>1. j + 1 \in 1..n /\ (j + 1) - 1 = j /\ p[j] = sofar(j)
        BY <1>1, <2>3
      <3>2. p[j + 1] = IF lines[j + 1].item = lines[k].item
                       THEN p[j] + lines[j + 1].quantity ELSE p[j]
        BY <2>1, <3>1
      <3>3. lines[j + 1].item = lines[k].item <=> j + 1 = k
        BY <1>2, <3>1
      <3>4. CASE j + 1 = k
        BY <1>1, <1>3, <3>1, <3>2, <3>4
      <3>5. CASE j + 1 # k
        BY <1>1, <3>1, <3>2, <3>3, <3>5
      <3> QED
        BY <3>4, <3>5
    <2>4. n \in T
      <3> HIDE DEF T
      <3>1. 0..n \subseteq T
        BY <1>1, <2>2, <2>3, InductionUpTo
      <3> QED
        BY <1>1, <3>1
    <2> QED
      BY <1>1, <2>1, <2>4
  <1>10. PriceOf(bought) = Reckoned(lines)
    <2> DEFINE F == [i \in ids |-> Menu[i].price * bought[i]]
               upto == [j \in 0..n |-> {lines[m].item : m \in 1..j}]
    <2>1. IsFiniteSet(ids)
      BY <1>5, MenuAssumption, FS_Subset
    <2>2. F \in [ids -> Int] /\ \A k \in 1..n : F[lines[k].item] = Menu[lines[k].item].price * lines[k].quantity
      <3>1. \A k \in 1..n : F[lines[k].item] = Menu[lines[k].item].price * lines[k].quantity
        BY <1>7, <1>8
      <3>2. \A k \in 1..n : Menu[lines[k].item].price * lines[k].quantity \in Int
        BY <1>3, <1>7
      <3> QED
        BY <1>4, <3>1, <3>2
    <2>3. PriceOf(bought) = FoldFunction(+, 0, F)
      BY DEF PriceOf
    <2> HIDE DEF F
    <2> HIDE DEF bought
    <2>4. PICK g : AddsUp(g, F, ids) /\ PriceOf(bought) = g[ids]
      BY <2>1, <2>2, <2>3, SumOver, Zenon
    <2>5. PICK p : Reckons(p, n, lines)
      BY <1>1, <1>3, <1>7, TotalSteps, Zenon
    <2> DEFINE T == {j \in 0..n : p[j] = g[upto[j]]}
    <2>6. 0 \in T
      <3>1. upto[0] = {}
        BY <1>1
      <3> HIDE DEF upto
      <3>2. p[0] = g[upto[0]]
        BY <2>4, <2>5, <3>1 DEF AddsUp, Reckons
      <3> QED
        BY <1>1, <3>2
    <2>7. ASSUME NEW j \in 0..n, j \in T, j < n PROVE j + 1 \in T
      <3> DEFINE x == lines[j + 1].item
      <3>1. j + 1 \in 1..n /\ (j + 1) - 1 = j /\ p[j] = g[upto[j]]
        BY <1>1, <2>7
      <3>2. /\ upto[j + 1] \in SUBSET ids /\ upto[j] \in SUBSET ids
            /\ x \in upto[j + 1] /\ upto[j + 1] \ {x} = upto[j]
        <4>1. 1..(j + 1) = 1..j \cup {j + 1} /\ 1..(j + 1) \subseteq 1..n /\ j + 1 \notin 1..j
          BY <1>1, <3>1
        <4>2. \A m \in 1..j : lines[m].item # x
          BY <1>2, <4>1
        <4>3. /\ upto[j] = {lines[m].item : m \in 1..j}
              /\ upto[j + 1] = {lines[m].item : m \in 1..(j + 1)}
          BY <1>1, <3>1
        <4> QED
          BY <1>4, <4>1, <4>2, <4>3
      <3> HIDE DEF upto
      <3>3. g[upto[j + 1]] = F[x] + g[upto[j]]
        <4>1. g[upto[j + 1]] = F[x] + g[upto[j + 1] \ {x}]
          BY <2>4, <3>2, Zenon DEF AddsUp
        <4> QED
          BY <3>2, <4>1, Zenon
      <3>4. p[j + 1] = p[j] + lines[j + 1].quantity * Menu[x].price
        BY <2>5, <3>1 DEF Reckons
      <3>5. F[x] = Menu[x].price * lines[j + 1].quantity
        BY <2>2, <3>1
      <3>6. /\ Menu[x].price \in Int /\ lines[j + 1].quantity \in Int /\ g[upto[j]] \in Int
        BY <1>3, <1>7, <2>4, <3>1, <3>2 DEF AddsUp
      <3>7. p[j + 1] = g[upto[j + 1]]
        <4> HIDE DEF x
        <4> QED
          BY <3>1, <3>3, <3>4, <3>5, <3>6
      <3> QED
        BY <1>1, <3>1, <3>7
    <2>8. n \in T
      <3> HIDE DEF T
      <3>1. 0..n \subseteq T
        BY <1>1, <2>6, <2>7, InductionUpTo
      <3> QED
        BY <1>1, <3>1
    <2>9. upto[n] = ids
      BY <1>1, <1>4
    <2> HIDE DEF upto
    <2> QED
      BY <2>4, <2>5, <2>8, <2>9 DEF Reckons
  <1>11. \A i \in ids : bought[i] = Asked(lines, i)
    BY <1>4, <1>8, <1>9
  <1>12. r \in Open
    BY DEF ValidateMenu
  <1>13. DOMAIN bought = ids /\ \A i \in ids : bought[i] = qty[i]
    OBVIOUS
  <1> HIDE DEF bought
  <1> QED
    BY <1>5, <1>6, <1>10, <1>11, <1>12, <1>13 DEF Honours, ids

\* Every order that is stored, by whoever it was sent, is what its request asked
\* for, at the prices of the menu (service.go, handler.go).
THEOREM OrdersAreAsAsked == Spec => []OrderIsWhatWasAsked
  <1>1. Init => StoredAreAccepted
    BY DEF Init, StoredAreAccepted
  <1>2. CheckoutInv /\ StoredAreAccepted => OrderIsWhatWasAsked
    <2> SUFFICES ASSUME CheckoutInv, StoredAreAccepted, NEW c \in DOMAIN orders
                 PROVE  Honours(orders[c], calls[c].restaurant, calls[c].lines)
      BY DEF OrderIsWhatWasAsked
    <2>1. c \in DOMAIN calls /\ calls[c] \in Call
      BY DEF CheckoutInv, CheckoutTyped, CheckoutTypeOK
    <2>2. calls[c].lines \in Seq(AnyLine)
      BY <2>1 DEF Call
    <2>3. /\ ValidateMenu(calls[c].restaurant, calls[c].lines)
          /\ QuantitiesOK(calls[c].restaurant, calls[c].lines)
          /\ orders[c] = NewOrder(calls[c].restaurant, calls[c].lines)
      BY <2>1 DEF StoredAreAccepted, Accepted
    <2> QED
      BY <2>2, <2>3, OrderIsTheRequest
  <1> QED
    BY <1>1, <1>2, CheckoutIsInvariant, NextAccepted, PTL DEF Spec

=============================================================================
