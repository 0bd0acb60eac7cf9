------------------------- MODULE ResourceBudgetsProofs -------------------------
(***************************************************************************)
(* The books of a budget scope, for any number of calls, any amounts and   *)
(* any crashes.  First sums over finite sets, which the balance of the     *)
(* books is about; then that every change of the record keeps it balanced; *)
(* then every step of the writers.                                         *)
(***************************************************************************)
EXTENDS ResourceBudgets, FiniteSetTheorems, WellFoundedInduction, TLAPS

-----------------------------------------------------------------------------
(* Sums                                                                     *)

Before == {p \in Nat \X Nat : p[1] < p[2]}

\* Induction over the naturals, for a set in the place of a predicate.
LEMMA Inductive ==
  ASSUME NEW S, 0 \in S, \A n \in Nat : n \in S => n + 1 \in S
  PROVE  Nat \subseteq S
<1>1. SUFFICES ASSUME Nat \ S # {} PROVE FALSE
  OBVIOUS
<1>2. OpToRel(<, Nat) = Before
  BY DEF OpToRel, Before
<1>3. PICK x \in Nat \ S : \A y \in Nat \ S : <<y, x>> \notin Before
  BY <1>1, <1>2, NatLessThanWellFounded, WFMin
<1>4. x # 0 /\ x - 1 \in Nat
  BY <1>3
<1>5. <<x - 1, x>> \in Before
  <2>1. <<x - 1, x>> \in Nat \X Nat /\ <<x - 1, x>>[1] = x - 1 /\ <<x - 1, x>>[2] = x
    BY <1>3, <1>4
  <2>2. x - 1 < x
    BY <1>3, <1>4
  <2> QED
    BY <2>1, <2>2 DEF Before
<1>6. x - 1 \in S
  BY <1>3, <1>4, <1>5
<1>7. (x - 1) + 1 = x
  BY <1>3
<1> QED
  BY <1>3, <1>4, <1>6, <1>7

Pick(s) == CHOOSE x \in s : TRUE

\* h gives the sum of g over each subset of T, one element at a time.
SumsUp(h, g, T) ==
  h = [s \in SUBSET T |-> IF s = {} THEN 0 ELSE g[Pick(s)] + h[s \ {Pick(s)}]]

Sum(g, T) == (CHOOSE h : SumsUp(h, g, T))[T]

\* The sums exist: they do for the subsets of n elements, for every n.
LEMMA SumsExist ==
  ASSUME NEW g, NEW T, IsFiniteSet(T)
  PROVE  \E h : SumsUp(h, g, T)
<1> DEFINE Small(n) == {s \in SUBSET T : Cardinality(s) <= n}
           Partial(n, h) == h = [s \in Small(n) |->
                              IF s = {} THEN 0 ELSE g[Pick(s)] + h[s \ {Pick(s)}]]
           Good == {n \in Nat : \E h : Partial(n, h)}
<1>1. \A s \in SUBSET T : IsFiniteSet(s) /\ Cardinality(s) \in Nat
  BY FS_Subset, FS_CardinalityType
<1>2. \A s \in SUBSET T : s # {} =>
        /\ Pick(s) \in s /\ s \ {Pick(s)} \in SUBSET T
        /\ Cardinality(s \ {Pick(s)}) = Cardinality(s) - 1
  BY <1>1, FS_RemoveElement DEF Pick
<1>3. 0 \in Good
  <2>1. \A s \in Small(0) : s = {}
    BY <1>1, FS_EmptySet
  <2>2. PICK h : h = [s \in Small(0) |-> 0]
    OBVIOUS
  <2>3. Partial(0, h)
    BY <2>1, <2>2
  <2> QED
    BY <2>3
<1>4. ASSUME NEW n \in Nat, n \in Good PROVE n + 1 \in Good
  <2>1. PICK h : Partial(n, h)
    BY <1>4
  <2>2. PICK k : k = [s \in Small(n + 1) |->
                        IF s = {} THEN 0 ELSE g[Pick(s)] + h[s \ {Pick(s)}]]
    OBVIOUS
  <2>3. \A s \in Small(n) : s \in Small(n + 1) /\ k[s] = h[s]
    <3>1. Small(n) \subseteq Small(n + 1)
      BY <1>1
    <3> QED
      BY <2>1, <2>2, <3>1
  <2>4. \A s \in Small(n + 1) : s # {} => s \ {Pick(s)} \in Small(n)
    BY <1>1, <1>2
  <2>5. Partial(n + 1, k)
    BY <2>2, <2>3, <2>4
  <2> HIDE DEF Partial
  <2> QED
    BY <2>5
<1> HIDE DEF Good
<1>5. Cardinality(T) \in Good
  BY <1>1, <1>3, <1>4, Inductive
<1> USE DEF Good
<1>6. PICK h : Partial(Cardinality(T), h)
  BY <1>5
<1>7. Small(Cardinality(T)) = SUBSET T
  BY FS_Subset
<1> QED
  BY <1>6, <1>7 DEF SumsUp

\* They do not depend on what lies outside the set that is summed up.
LEMMA SumsAgree ==
  ASSUME NEW g1, NEW g2, NEW h1, NEW h2, NEW T1, NEW T2, NEW T,
         SumsUp(h1, g1, T1), SumsUp(h2, g2, T2),
         T \subseteq T1, T \subseteq T2, IsFiniteSet(T), \A x \in T : g1[x] = g2[x]
  PROVE  h1[T] = h2[T]
<1> DEFINE Good == {n \in Nat : \A s \in SUBSET T : Cardinality(s) = n => h1[s] = h2[s]}
<1>1. \A s \in SUBSET T : IsFiniteSet(s) /\ Cardinality(s) \in Nat
  BY FS_Subset, FS_CardinalityType
<1>2. \A s \in SUBSET T : s # {} =>
        /\ Pick(s) \in s /\ s \ {Pick(s)} \in SUBSET T
        /\ Cardinality(s \ {Pick(s)}) = Cardinality(s) - 1
  BY <1>1, FS_RemoveElement DEF Pick
<1>3. \A s \in SUBSET T :
        /\ h1[s] = IF s = {} THEN 0 ELSE g1[Pick(s)] + h1[s \ {Pick(s)}]
        /\ h2[s] = IF s = {} THEN 0 ELSE g2[Pick(s)] + h2[s \ {Pick(s)}]
  <2> SUFFICES ASSUME NEW s \in SUBSET T
               PROVE  /\ h1[s] = IF s = {} THEN 0 ELSE g1[Pick(s)] + h1[s \ {Pick(s)}]
                      /\ h2[s] = IF s = {} THEN 0 ELSE g2[Pick(s)] + h2[s \ {Pick(s)}]
    OBVIOUS
  <2>1. s \in SUBSET T1 /\ s \in SUBSET T2
    OBVIOUS
  <2> QED
    BY <2>1 DEF SumsUp
<1>4. 0 \in Good
  BY <1>1, <1>3, FS_EmptySet
<1>5. ASSUME NEW n \in Nat, n \in Good PROVE n + 1 \in Good
  <2> SUFFICES ASSUME NEW s \in SUBSET T, Cardinality(s) = n + 1 PROVE h1[s] = h2[s]
    OBVIOUS
  <2>1. s # {}
    BY FS_EmptySet
  <2>2. h1[s \ {Pick(s)}] = h2[s \ {Pick(s)}]
    BY <1>2, <1>5, <2>1
  <2> QED
    BY <1>2, <1>3, <2>1, <2>2
<1> HIDE DEF Good
<1>6. Cardinality(T) \in Good
  BY <1>1, <1>4, <1>5, Inductive
<1> USE DEF Good
<1> QED
  BY <1>6

LEMMA SumIsSum ==
  ASSUME NEW g, NEW T, IsFiniteSet(T)
  PROVE  SumsUp(CHOOSE h : SumsUp(h, g, T), g, T)
BY SumsExist

LEMMA SumCongruence ==
  ASSUME NEW g1, NEW g2, NEW T, IsFiniteSet(T), \A x \in T : g1[x] = g2[x]
  PROVE  Sum(g1, T) = Sum(g2, T)
BY SumIsSum, SumsAgree DEF Sum

LEMMA SumEmpty ==
  ASSUME NEW g
  PROVE  Sum(g, {}) = 0
BY SumIsSum, FS_EmptySet DEF Sum, SumsUp

LEMMA SumPick ==
  ASSUME NEW g, NEW T, IsFiniteSet(T), T # {}
  PROVE  Sum(g, T) = g[Pick(T)] + Sum(g, T \ {Pick(T)})
<1> DEFINE h == CHOOSE h : SumsUp(h, g, T)
           rest == T \ {Pick(T)}
           k == CHOOSE k : SumsUp(k, g, rest)
<1>1. IsFiniteSet(rest)
  BY FS_RemoveElement
<1>2. SumsUp(h, g, T) /\ SumsUp(k, g, rest)
  BY <1>1, SumIsSum
<1>3. h[T] = g[Pick(T)] + h[rest]
  BY <1>2 DEF SumsUp
<1>4. h[rest] = k[rest]
  BY <1>1, <1>2, SumsAgree
<1> QED
  BY <1>3, <1>4 DEF Sum

\* The sum of integers is one, and of naturals a natural.
LEMMA SumType ==
  ASSUME NEW g, NEW T, IsFiniteSet(T), \A x \in T : g[x] \in Nat
  PROVE  Sum(g, T) \in Nat
<1> DEFINE Good == {n \in Nat : \A s \in SUBSET T : Cardinality(s) = n => Sum(g, s) \in Nat}
<1>1. \A s \in SUBSET T : IsFiniteSet(s) /\ Cardinality(s) \in Nat
  BY FS_Subset, FS_CardinalityType
<1>2. \A s \in SUBSET T : s # {} =>
        /\ Pick(s) \in s /\ s \ {Pick(s)} \in SUBSET T
        /\ Cardinality(s \ {Pick(s)}) = Cardinality(s) - 1
  BY <1>1, FS_RemoveElement DEF Pick
<1>3. 0 \in Good
  <2>1. \A s \in SUBSET T : Cardinality(s) = 0 => s = {}
    BY <1>1, FS_EmptySet
  <2> QED
    BY <2>1, SumEmpty
<1>4. ASSUME NEW n \in Nat, n \in Good PROVE n + 1 \in Good
  <2> SUFFICES ASSUME NEW s \in SUBSET T, Cardinality(s) = n + 1 PROVE Sum(g, s) \in Nat
    OBVIOUS
  <2>1. s # {}
    BY FS_EmptySet
  <2>2. Sum(g, s \ {Pick(s)}) \in Nat /\ g[Pick(s)] \in Nat
    BY <1>2, <1>4, <2>1
  <2>3. Sum(g, s) = g[Pick(s)] + Sum(g, s \ {Pick(s)})
    BY <1>1, <2>1, SumPick
  <2> QED
    BY <2>2, <2>3
<1> HIDE DEF Good
<1>5. Cardinality(T) \in Good
  BY <1>1, <1>3, <1>4, Inductive
<1> USE DEF Good
<1> QED
  BY <1>5

\* Any element may be taken out first.
LEMMA SumRemove ==
  ASSUME NEW g, NEW T, IsFiniteSet(T), \A x \in T : g[x] \in Nat, NEW a \in T
  PROVE  Sum(g, T) = g[a] + Sum(g, T \ {a})
<1> DEFINE Splits(s) == \A x \in s : Sum(g, s) = g[x] + Sum(g, s \ {x})
           Good == {n \in Nat : \A s \in SUBSET T : Cardinality(s) = n => Splits(s)}
<1>1. \A s \in SUBSET T : IsFiniteSet(s) /\ Cardinality(s) \in Nat
  BY FS_Subset, FS_CardinalityType
<1>2. \A s \in SUBSET T : \A x \in s :
        s \ {x} \in SUBSET T /\ Cardinality(s \ {x}) = Cardinality(s) - 1
  BY <1>1, FS_RemoveElement
<1>3. 0 \in Good
  BY <1>1, FS_EmptySet
<1>4. ASSUME NEW n \in Nat, n \in Good PROVE n + 1 \in Good
  <2> SUFFICES ASSUME NEW s \in SUBSET T, Cardinality(s) = n + 1, NEW x \in s
               PROVE  Sum(g, s) = g[x] + Sum(g, s \ {x})
    OBVIOUS
  <2>1. PICK p : p = Pick(s)
    OBVIOUS
  <2>2. p \in s
    BY <2>1 DEF Pick
  <2>3. Sum(g, s) = g[p] + Sum(g, s \ {p})
    BY <1>1, <2>1, <2>2, SumPick
  <2>4. CASE p = x
    BY <2>3, <2>4
  <2>5. CASE p # x
    <3>1. Splits(s \ {p}) /\ Splits(s \ {x})
      BY <1>2, <1>4, <2>2
    <3>2. Sum(g, s \ {p}) = g[x] + Sum(g, (s \ {p}) \ {x})
      BY <2>5, <3>1
    <3>3. Sum(g, s \ {x}) = g[p] + Sum(g, (s \ {x}) \ {p})
      BY <2>2, <2>5, <3>1
    <3>4. (s \ {p}) \ {x} = (s \ {x}) \ {p}
      OBVIOUS
    <3>5. Sum(g, (s \ {x}) \ {p}) \in Nat /\ g[x] \in Nat /\ g[p] \in Nat
      <4>1. (s \ {x}) \ {p} \in SUBSET T
        OBVIOUS
      <4> QED
        BY <1>1, <2>2, <4>1, SumType
    <3> QED
      BY <2>3, <3>2, <3>3, <3>4, <3>5
  <2> QED
    BY <2>4, <2>5
<1> HIDE DEF Good
<1>5. Cardinality(T) \in Good
  BY <1>1, <1>3, <1>4, Inductive
<1> USE DEF Good
<1> QED
  BY <1>5

LEMMA SumAdd ==
  ASSUME NEW g, NEW T, IsFiniteSet(T), NEW a, a \notin T, \A x \in T \cup {a} : g[x] \in Nat
  PROVE  Sum(g, T \cup {a}) = g[a] + Sum(g, T)
<1>1. IsFiniteSet(T \cup {a}) /\ (T \cup {a}) \ {a} = T
  BY FS_AddElement
<1> QED
  BY <1>1, SumRemove

-----------------------------------------------------------------------------
(* The record                                                               *)

ChargedIn(b) == {c \in Calls : b.usage[c] # None}
Excess(b) == [c \in Calls |-> SubtractFloor(b.usage[c], Grant)]

\* A record whose counters are what they should be, under the limit l.
Balanced(b, l) ==
  /\ b \in Books
  /\ IsFiniteSet(Held(b)) /\ IsFiniteSet(ChargedIn(b))
  /\ ChargedIn(b) = {c \in Calls : b.state[c] = "SETTLED"}
  /\ b.reserved = Grant * Cardinality(Held(b))
  /\ b.consumed = Sum(b.usage, ChargedIn(b))
  /\ b.consumed + b.reserved <= l + Sum(Excess(b), ChargedIn(b))

LEMMA Multiples ==
  ASSUME NEW g \in Nat, NEW m \in Nat, NEW n \in Nat, n <= m
  PROVE  /\ g * m \in Nat /\ g * n \in Nat /\ g * n <= g * m
         /\ g * m - g * n = g * (m - n)
         /\ g * (m + 1) = g * m + g
<1>1. g * m - g * n = g * (m - n)
  OBVIOUS
<1>2. g * (m - n) \in Nat
  OBVIOUS
<1> QED
  BY <1>1, <1>2

\* What may be left of a use is a natural number.
LEMMA ExcessType ==
  ASSUME NEW b \in Books
  PROVE  /\ \A c \in ChargedIn(b) : b.usage[c] \in Nat /\ Excess(b)[c] \in Nat
         /\ \A c \in ChargedIn(b) : Excess(b)[c] = SubtractFloor(b.usage[c], Grant)
BY AmountsAssumption DEF ChargedIn, Excess, SubtractFloor, Books

LEMMA SumsAreNatural ==
  ASSUME NEW b \in Books, IsFiniteSet(ChargedIn(b))
  PROVE  Sum(b.usage, ChargedIn(b)) \in Nat /\ Sum(Excess(b), ChargedIn(b)) \in Nat
BY ExcessType, SumType

\* Ending reservations gives back exactly what they held.
LEMMA EndForms ==
  ASSUME NEW l \in Nat, NEW b, Balanced(b, l), NEW S, S \subseteq Held(b), NEW state \in ReservationStates,
         state # "RESERVED", NEW e, e = End(b, S, state)
  PROVE  /\ e \in Books /\ e.consumed = b.consumed /\ e.usage = b.usage
         /\ e.state = [c \in Calls |-> IF c \in S THEN state ELSE b.state[c]]
         /\ Held(e) = Held(b) \ S /\ IsFiniteSet(Held(e)) /\ IsFiniteSet(S)
         /\ e.reserved = Grant * Cardinality(Held(e))
         /\ e.reserved = b.reserved - Grant * Cardinality(S)
         /\ Grant * Cardinality(S) \in Nat
<1>1. b \in Books /\ IsFiniteSet(Held(b)) /\ b.reserved = Grant * Cardinality(Held(b))
  BY DEF Balanced
<1>2. /\ IsFiniteSet(S) /\ Cardinality(S) \in Nat /\ Cardinality(Held(b)) \in Nat
      /\ Cardinality(S) <= Cardinality(Held(b))
      /\ IsFiniteSet(Held(b) \ S)
      /\ Cardinality(Held(b) \ S) = Cardinality(Held(b)) - Cardinality(S)
  <2>1. PICK held : held = Held(b)
    OBVIOUS
  <2>2. held \cap S = S /\ IsFiniteSet(held) /\ S \subseteq held
    BY <1>1, <2>1
  <2>3. IsFiniteSet(S) /\ Cardinality(S) <= Cardinality(held)
    BY <2>2, FS_Subset
  <2>4. Cardinality(S) \in Nat /\ Cardinality(held) \in Nat
    BY <2>2, <2>3, FS_CardinalityType
  <2>5. IsFiniteSet(held \ S) /\ Cardinality(held \ S) = Cardinality(held) - Cardinality(held \cap S)
    BY <2>2, FS_Difference
  <2> QED
    BY <2>1, <2>2, <2>3, <2>4, <2>5
<1>3. PICK r : r = SubtractFloor(b.reserved, Grant * Cardinality(S))
  OBVIOUS
<1>4. PICK s : s = [c \in Calls |-> IF c \in S THEN state ELSE b.state[c]]
  OBVIOUS
<1>5. e = [b EXCEPT !.reserved = r, !.state = s]
  BY <1>3, <1>4 DEF End
<1>6. /\ r = Grant * Cardinality(Held(b) \ S) /\ r \in Nat
      /\ r = b.reserved - Grant * Cardinality(S)
      /\ Grant * Cardinality(S) \in Nat
  BY <1>1, <1>2, <1>3, AmountsAssumption, Multiples DEF SubtractFloor
<1>7. s \in [Calls -> ReservationStates \cup {None}]
  BY <1>1, <1>4 DEF Books
<1>8. /\ e \in Books /\ e.consumed = b.consumed /\ e.usage = b.usage
      /\ e.state = s /\ e.reserved = r
  BY <1>1, <1>5, <1>6, <1>7 DEF Books
<1>9. Held(e) = Held(b) \ S
  BY <1>4, <1>8 DEF Held
<1> QED
  BY <1>2, <1>4, <1>6, <1>8, <1>9

\* Expired or revoked, a reservation leaves the record balanced.
LEMMA EndBalanced ==
  ASSUME NEW l \in Nat, NEW b, Balanced(b, l), NEW S, S \subseteq Held(b), NEW state \in {"EXPIRED", "REVOKED"},
         NEW e, e = End(b, S, state)
  PROVE  /\ Balanced(e, l) /\ e.usage = b.usage
         /\ \A c \in Calls : b.state[c] = None => e.state[c] = None
         /\ e.consumed + e.reserved <= b.consumed + b.reserved
<1>1. state \in ReservationStates /\ state # "RESERVED" /\ state # "SETTLED"
  BY DEF ReservationStates
<1>2. /\ e \in Books /\ e.consumed = b.consumed /\ e.usage = b.usage
      /\ e.state = [c \in Calls |-> IF c \in S THEN state ELSE b.state[c]]
      /\ Held(e) = Held(b) \ S /\ IsFiniteSet(Held(e))
      /\ e.reserved = Grant * Cardinality(Held(e))
      /\ e.reserved = b.reserved - Grant * Cardinality(S)
      /\ Grant * Cardinality(S) \in Nat
  BY <1>1, EndForms
<1>3. ChargedIn(e) = ChargedIn(b) /\ Excess(e) = Excess(b)
  BY <1>2 DEF ChargedIn, Excess
<1>4. ChargedIn(e) = {c \in Calls : e.state[c] = "SETTLED"}
  BY <1>1, <1>2, <1>3 DEF Balanced, Held
<1>5. e.consumed + e.reserved <= b.consumed + b.reserved
  BY <1>2 DEF Balanced, Books
<1>6. \A c \in Calls : b.state[c] = None => e.state[c] = None
  BY <1>2, NoneAssumption DEF Held, ReservationStates
<1>7. e.consumed + e.reserved <= l + Sum(Excess(e), ChargedIn(e))
  <2>1. PICK x \in Nat : x = Sum(Excess(b), ChargedIn(b))
    BY SumsAreNatural DEF Balanced
  <2>2. b.consumed + b.reserved <= l + x /\ b \in Books
    BY <2>1 DEF Balanced
  <2>3. e.consumed + e.reserved <= l + x
    BY <1>2, <1>5, <2>2 DEF Books
  <2> QED
    BY <1>3, <2>1, <2>3
<1>8. e.consumed = Sum(e.usage, ChargedIn(e))
  BY <1>2, <1>3 DEF Balanced
<1>9. IsFiniteSet(ChargedIn(e))
  BY <1>3 DEF Balanced
<1>10. Balanced(e, l)
  BY <1>2, <1>4, <1>7, <1>8, <1>9 DEF Balanced
<1> QED
  BY <1>2, <1>5, <1>6, <1>10

\* To reserve what is not exhausted leaves the record balanced.
LEMMA ReserveBalanced ==
  ASSUME NEW l \in Nat, NEW b, Balanced(b, l), NEW c \in Calls, b.state[c] = None,
         b.consumed + b.reserved + Grant <= l, NEW e, e = Reserve(b, c)
  PROVE  /\ Balanced(e, l) /\ e.usage = b.usage
         /\ \A d \in Calls : d # c => e.state[d] = b.state[d]
<1>1. b \in Books /\ IsFiniteSet(Held(b)) /\ b.reserved = Grant * Cardinality(Held(b))
  BY DEF Balanced
<1>2. PICK r : r = b.reserved + Grant
  OBVIOUS
<1>3. PICK s : s = [b.state EXCEPT ![c] = "RESERVED"]
  OBVIOUS
<1>4. e = [b EXCEPT !.reserved = r, !.state = s]
  BY <1>1, <1>2, <1>3 DEF Reserve, Books
<1>5. r \in Nat /\ s \in [Calls -> ReservationStates \cup {None}]
  BY <1>1, <1>2, <1>3, AmountsAssumption DEF Books, ReservationStates
<1>6. /\ e \in Books /\ e.consumed = b.consumed /\ e.usage = b.usage
      /\ e.state = s /\ e.reserved = r
  BY <1>1, <1>4, <1>5 DEF Books
<1>7. s[c] = "RESERVED" /\ \A d \in Calls : d # c => s[d] = b.state[d]
  BY <1>1, <1>3 DEF Books
<1>8. b.state[c] # "RESERVED" /\ b.state[c] # "SETTLED"
  BY NoneAssumption DEF ReservationStates
<1>9. Held(e) = Held(b) \cup {c} /\ c \notin Held(b)
  BY <1>6, <1>7, <1>8 DEF Held
<1>10. IsFiniteSet(Held(e)) /\ e.reserved = Grant * Cardinality(Held(e))
  <2>1. PICK held : held = Held(b)
    OBVIOUS
  <2>2. IsFiniteSet(held \cup {c}) /\ Cardinality(held \cup {c}) = Cardinality(held) + 1
    BY <1>1, <1>9, <2>1, FS_AddElement
  <2>3. Cardinality(held) \in Nat
    BY <1>1, <2>1, FS_CardinalityType
  <2>4. Grant * (Cardinality(held) + 1) = Grant * Cardinality(held) + Grant
    BY <2>3, AmountsAssumption, Multiples
  <2> QED
    BY <1>1, <1>2, <1>6, <1>9, <2>1, <2>2, <2>4
<1>11. ChargedIn(e) = ChargedIn(b) /\ Excess(e) = Excess(b)
  BY <1>6 DEF ChargedIn, Excess
<1>12. ChargedIn(e) = {d \in Calls : e.state[d] = "SETTLED"}
  BY <1>6, <1>7, <1>8, <1>11 DEF Balanced
<1>13. e.consumed + e.reserved <= l + Sum(Excess(e), ChargedIn(e))
  <2>1. PICK x \in Nat : x = Sum(Excess(b), ChargedIn(b))
    BY SumsAreNatural DEF Balanced
  <2>2. e.consumed + e.reserved <= l + x
    BY <1>1, <1>2, <1>6, <2>1, AmountsAssumption DEF Books
  <2> QED
    BY <1>11, <2>1, <2>2
<1>14. e.consumed = Sum(e.usage, ChargedIn(e)) /\ IsFiniteSet(ChargedIn(e))
  BY <1>6, <1>11 DEF Balanced
<1>15. Balanced(e, l)
  BY <1>6, <1>10, <1>12, <1>13, <1>14 DEF Balanced
<1> QED
  BY <1>6, <1>7, <1>15

\* To settle a reservation charges the call with what it used.
LEMMA SettleBalanced ==
  ASSUME NEW l \in Nat, NEW b, Balanced(b, l), NEW c \in Calls, b.state[c] = "RESERVED",
         NEW actual \in Nat, NEW e, e = Settle(b, c, actual)
  PROVE  /\ Balanced(e, l) /\ c \notin ChargedIn(b)
         /\ \A d \in Calls : d # c => e.state[d] = b.state[d] /\ e.usage[d] = b.usage[d]
<1>1. b \in Books /\ IsFiniteSet(Held(b)) /\ IsFiniteSet(ChargedIn(b))
      /\ ChargedIn(b) = {d \in Calls : b.state[d] = "SETTLED"}
  BY DEF Balanced
<1>2. {c} \subseteq Held(b) /\ c \notin ChargedIn(b)
  BY <1>1 DEF Held
<1>3. PICK f : f = End(b, {c}, "SETTLED")
  OBVIOUS
<1>4. /\ f \in Books /\ f.consumed = b.consumed /\ f.usage = b.usage
      /\ f.state = [d \in Calls |-> IF d \in {c} THEN "SETTLED" ELSE b.state[d]]
      /\ Held(f) = Held(b) \ {c} /\ IsFiniteSet(Held(f))
      /\ f.reserved = Grant * Cardinality(Held(f))
      /\ f.reserved = b.reserved - Grant * Cardinality({c})
  <2>1. "SETTLED" \in ReservationStates
    BY DEF ReservationStates
  <2>2. PICK S : S = {c}
    OBVIOUS
  <2>3. S \subseteq Held(b) /\ f = End(b, S, "SETTLED")
    BY <1>2, <1>3, <2>2
  <2>4. /\ f \in Books /\ f.consumed = b.consumed /\ f.usage = b.usage
        /\ f.state = [d \in Calls |-> IF d \in S THEN "SETTLED" ELSE b.state[d]]
        /\ Held(f) = Held(b) \ S /\ IsFiniteSet(Held(f))
        /\ f.reserved = Grant * Cardinality(Held(f))
        /\ f.reserved = b.reserved - Grant * Cardinality(S)
    BY <2>1, <2>3, EndForms
  <2>5. Held(b) \ S = Held(b) \ {c} /\ Cardinality(S) = Cardinality({c})
        /\ \A d \in Calls : d \in S <=> d \in {c}
    BY <2>2
  <2>6. [d \in Calls |-> IF d \in S THEN "SETTLED" ELSE b.state[d]]
          = [d \in Calls |-> IF d \in {c} THEN "SETTLED" ELSE b.state[d]]
    BY <2>5
  <2> QED
    BY <2>4, <2>5, <2>6
<1>5. f.reserved = b.reserved - Grant
  <2>1. Cardinality({c}) = 1
    BY FS_Singleton
  <2>2. f.reserved = b.reserved - Grant * 1
    BY <1>4, <2>1
  <2> QED
    BY <2>2, AmountsAssumption
<1>6. PICK n : n = b.consumed + actual
  OBVIOUS
<1>7. PICK u : u = [b.usage EXCEPT ![c] = actual]
  OBVIOUS
<1>8. e = [f EXCEPT !.consumed = n, !.usage = u]
  BY <1>3, <1>4, <1>6, <1>7 DEF Settle, Books
<1>9. n \in Nat /\ u \in [Calls -> Nat \cup {None}]
  BY <1>1, <1>6, <1>7 DEF Books
<1>10. /\ e \in Books /\ e.consumed = n /\ e.usage = u
       /\ e.state = f.state /\ e.reserved = f.reserved
  BY <1>4, <1>8, <1>9 DEF Books
<1>11. u[c] = actual /\ \A d \in Calls : d # c => u[d] = b.usage[d]
  BY <1>1, <1>7 DEF Books
<1>12. Held(e) = Held(f)
  BY <1>10 DEF Held
<1>13. ChargedIn(e) = ChargedIn(b) \cup {c}
  BY <1>10, <1>11, NoneAssumption DEF ChargedIn
<1>14. ChargedIn(e) = {d \in Calls : e.state[d] = "SETTLED"}
  BY <1>1, <1>4, <1>10, <1>13
<1>15. IsFiniteSet(ChargedIn(e))
  BY <1>1, <1>13, FS_AddElement
<1>16. PICK T : T = ChargedIn(b)
  OBVIOUS
<1>17. Sum(e.usage, T) = b.consumed
  <2>1. \A d \in T : e.usage[d] = b.usage[d]
    BY <1>2, <1>10, <1>11, <1>16 DEF ChargedIn
  <2>2. Sum(e.usage, T) = Sum(b.usage, T)
    BY <1>1, <1>16, <2>1, SumCongruence
  <2> QED
    BY <1>16, <2>2 DEF Balanced
<1>18. e.consumed = Sum(e.usage, ChargedIn(e))
  <2>1. \A d \in T \cup {c} : e.usage[d] \in Nat
    BY <1>10, <1>13, <1>16, ExcessType
  <2>2. Sum(e.usage, T \cup {c}) = e.usage[c] + Sum(e.usage, T)
    BY <1>1, <1>2, <1>16, <2>1, SumAdd
  <2> QED
    BY <1>1, <1>6, <1>10, <1>11, <1>13, <1>16, <1>17, <2>2 DEF Books
<1>19. Sum(Excess(e), ChargedIn(e)) = SubtractFloor(actual, Grant) + Sum(Excess(b), T)
  <2>1. PICK x : x = Excess(e)
    OBVIOUS
  <2>2. PICK y : y = Excess(b)
    OBVIOUS
  <2>3. \A d \in T \cup {c} : x[d] \in Nat
    BY <1>10, <1>13, <1>16, <2>1, ExcessType
  <2>4. Sum(x, T \cup {c}) = x[c] + Sum(x, T)
    BY <1>1, <1>2, <1>16, <2>3, SumAdd
  <2>5. \A d \in T : x[d] = y[d]
    BY <1>2, <1>10, <1>11, <1>16, <2>1, <2>2 DEF ChargedIn, Excess
  <2>6. Sum(x, T) = Sum(y, T)
    BY <1>1, <1>16, <2>5, SumCongruence
  <2>7. x[c] = SubtractFloor(actual, Grant)
    BY <1>10, <1>11, <2>1 DEF Excess
  <2> QED
    BY <1>13, <1>16, <2>1, <2>2, <2>4, <2>6, <2>7
<1>20. e.consumed + e.reserved <= l + Sum(Excess(e), ChargedIn(e))
  <2>1. PICK x \in Nat : x = Sum(Excess(b), T)
    BY <1>16, SumsAreNatural DEF Balanced
  <2>2. b.consumed + b.reserved <= l + x
    BY <1>16, <2>1 DEF Balanced
  <2>3. PICK y \in Nat : y = SubtractFloor(actual, Grant) /\ actual - Grant <= y
    BY AmountsAssumption DEF SubtractFloor
  <2>4. b.consumed \in Nat /\ b.reserved \in Nat
    BY <1>1 DEF Books
  <2>5. e.consumed + e.reserved = b.consumed + b.reserved + actual - Grant
    BY <1>5, <1>6, <1>10, <2>4, AmountsAssumption
  <2>6. e.consumed + e.reserved <= l + (y + x)
    BY <2>2, <2>3, <2>4, <2>5, AmountsAssumption
  <2> QED
    BY <1>19, <2>1, <2>3, <2>6
<1>21. Balanced(e, l)
  BY <1>4, <1>10, <1>12, <1>14, <1>15, <1>18, <1>20 DEF Balanced
<1> QED
  BY <1>2, <1>4, <1>10, <1>11, <1>21

LEMMA EmptyBalanced ==
  ASSUME NEW l \in Nat
  PROVE  Balanced(EmptyBooks, l)
<1>1. EmptyBooks \in Books
  BY DEF EmptyBooks, Books
<1>2. Held(EmptyBooks) = {} /\ ChargedIn(EmptyBooks) = {}
      /\ {c \in Calls : EmptyBooks.state[c] = "SETTLED"} = {}
  BY NoneAssumption DEF EmptyBooks, Held, ChargedIn, ReservationStates
<1>3. IsFiniteSet({}) /\ Cardinality({}) = 0
  BY FS_EmptySet
<1>4. Sum(EmptyBooks.usage, {}) = 0 /\ Sum(Excess(EmptyBooks), {}) = 0
  BY SumEmpty
<1>5. EmptyBooks.reserved = 0 /\ EmptyBooks.consumed = 0 /\ Grant * 0 = 0
  BY AmountsAssumption DEF EmptyBooks
<1> QED
  BY <1>1, <1>2, <1>3, <1>4, <1>5 DEF Balanced

-----------------------------------------------------------------------------
(* The writers                                                              *)

AtUse == {"ran", "settling", "queued", "delivering", "delivered", "recovering"}
AtUpdate == {"reserving", "revoking", "settling", "delivering"}
AtOutbox == {"queued", "delivering", "delivered"}

BooksKept ==
  /\ Balanced(books, limit)
  /\ \A c \in Calls : call[c] = "idle" => books.state[c] = None

\* An update under way is balanced itself, and undoes no charge unless the
\* record has moved since.
UpdatesKept ==
  \A w \in Writers : update[w] # None =>
    /\ Balanced(update[w].next, limit)
    /\ \A c \in Calls : call[c] = "idle" => update[w].next.state[c] = None
    /\ ~update[w].moved => \A c \in Charged : update[w].next.usage[c] = books.usage[c]

CallsKept ==
  \A c \in Calls : /\ call[c] \in AtUse => used[c] # None
                   /\ call[c] \in AtUpdate => update[c] # None
                   /\ call[c] \in AtOutbox => c \in Tools

BooksInv == TypeOK /\ BooksKept /\ UpdatesKept /\ CallsKept

NoneStarts == \A c \in Calls : call'[c] = "idle" => call[c] = "idle"

\* The record and the updates after a step that touches neither.
LEMMA Untouched ==
  ASSUME BooksInv, NoneStarts, UNCHANGED <<limit, books, update>>
  PROVE  BooksKept' /\ UpdatesKept'
<1>1. BooksKept'
  BY DEF BooksInv, BooksKept, NoneStarts
<1>2. Charged' = Charged
  BY DEF Charged
<1>3. UpdatesKept'
  BY <1>2 DEF BooksInv, UpdatesKept, NoneStarts
<1> QED
  BY <1>1, <1>3

LEMMA ChargedForms == Charged = ChargedIn(books)
BY DEF Charged, ChargedIn

\* An update begins, from what the record is now.
LEMMA Begun ==
  ASSUME BooksInv, NoneStarts, NEW w \in Writers, NEW next, BeginUpdate(w, next),
         UNCHANGED <<limit, books>>, Balanced(next, limit),
         \A c \in Calls : call'[c] = "idle" => next.state[c] = None,
         \A c \in Charged : next.usage[c] = books.usage[c]
  PROVE  /\ BooksKept' /\ UpdatesKept' /\ update' \in [Writers -> Updates \cup {None}]
         /\ update'[w] # None
         /\ \A v \in Writers : update[v] # None => update'[v] # None
<1>1. PICK u : u = [next |-> next, moved |-> FALSE]
  OBVIOUS
<1>2. u \in Updates /\ u # None /\ u.next = next /\ u.moved = FALSE
  <2>1. next \in Books
    BY DEF Balanced
  <2>2. u \in Updates
    BY <1>1, <2>1 DEF Updates
  <2>3. u.next = next /\ u.moved = FALSE
    BY <1>1
  <2> QED
    BY <2>2, <2>3, NoneAssumption
<1>3. update \in [Writers -> Updates \cup {None}] /\ update' = [update EXCEPT ![w] = u]
  BY <1>1 DEF BooksInv, TypeOK, BeginUpdate
<1>4. update'[w] = u /\ \A v \in Writers : v # w => update'[v] = update[v]
  BY <1>3
<1>5. BooksKept'
  BY DEF BooksInv, BooksKept, NoneStarts
<1>6. Charged' = Charged
  BY DEF Charged
<1>7. UpdatesKept'
  <2> SUFFICES ASSUME NEW v \in Writers, update'[v] # None
               PROVE  /\ Balanced(update'[v].next, limit')
                      /\ \A c \in Calls : call'[c] = "idle" => update'[v].next.state[c] = None
                      /\ ~update'[v].moved =>
                           \A c \in Charged' : update'[v].next.usage[c] = books'.usage[c]
    BY DEF UpdatesKept
  <2>1. CASE v = w
    BY <1>2, <1>4, <1>6, <2>1
  <2>2. CASE v # w
    BY <1>4, <1>6, <2>2 DEF BooksInv, UpdatesKept, NoneStarts
  <2> QED
    BY <2>1, <2>2
<1> QED
  BY <1>2, <1>3, <1>4, <1>5, <1>7

\* A write leaves the record what the update had made of it.
LEMMA Written ==
  ASSUME BooksInv, NoneStarts, NEW w \in Writers, update[w] # None,
         Write(w, update[w].next), UNCHANGED limit
  PROVE  /\ BooksKept' /\ UpdatesKept' /\ update' \in [Writers -> Updates \cup {None}]
         /\ books' \in Books
         /\ \A v \in Writers : v # w => (update[v] # None => update'[v] # None)
<1>1. update \in [Writers -> Updates \cup {None}]
  BY DEF BooksInv, TypeOK
<1>2. books' = update[w].next
      /\ update' = [v \in Writers |-> IF v = w \/ update[v] = None THEN None
                                      ELSE [update[v] EXCEPT !.moved = TRUE]]
  BY DEF Write
<1>3. BooksKept'
  BY <1>2 DEF BooksInv, BooksKept, UpdatesKept, NoneStarts
<1>4. books' \in Books
  BY <1>3 DEF BooksKept, Balanced
<1>5. \A v \in Writers : v = w \/ update[v] = None => update'[v] = None
  BY <1>2
<1>6. ASSUME NEW v \in Writers, v # w, update[v] # None
      PROVE  /\ update'[v] \in Updates /\ update'[v] # None
             /\ update'[v].next = update[v].next /\ update'[v].moved
  <2>1. PICK u : u = update[v]
    OBVIOUS
  <2>2. u \in Updates /\ update'[v] = [u EXCEPT !.moved = TRUE]
    BY <1>1, <1>2, <1>6, <2>1
  <2> QED
    BY <2>1, <2>2, NoneAssumption DEF Updates
<1>7. UpdatesKept'
  <2> SUFFICES ASSUME NEW v \in Writers, update'[v] # None
               PROVE  /\ Balanced(update'[v].next, limit')
                      /\ \A c \in Calls : call'[c] = "idle" => update'[v].next.state[c] = None
                      /\ ~update'[v].moved =>
                           \A c \in Charged' : update'[v].next.usage[c] = books'.usage[c]
    BY DEF UpdatesKept
  <2>1. v # w /\ update[v] # None
    BY <1>5
  <2> QED
    BY <1>6, <2>1 DEF BooksInv, UpdatesKept, NoneStarts
<1>8. update' \in [Writers -> Updates \cup {None}]
  <2>1. \A v \in Writers : update'[v] \in Updates \cup {None}
    BY <1>5, <1>6
  <2> QED
    BY <1>2, <2>1
<1> QED
  BY <1>3, <1>4, <1>6, <1>7, <1>8

\* The transaction of an update, which writes or gives up.
LEMMA Ended ==
  ASSUME BooksInv, NoneStarts, NEW w \in Writers, update[w] # None, EndUpdate(w),
         UNCHANGED limit
  PROVE  /\ BooksKept' /\ UpdatesKept' /\ update' \in [Writers -> Updates \cup {None}]
         /\ books' \in Books
         /\ \A v \in Writers : v # w => (update[v] # None => update'[v] # None)
<1>1. CASE IsUnchanged(w)
  BY <1>1, Written DEF EndUpdate
<1>2. CASE ~IsUnchanged(w)
  <2>1. update \in [Writers -> Updates \cup {None}] /\ books \in Books
    BY DEF BooksInv, TypeOK
  <2>2. update' = [update EXCEPT ![w] = None] /\ books' = books
    BY <1>2 DEF EndUpdate
  <2>3. update'[w] = None /\ \A v \in Writers : v # w => update'[v] = update[v]
    BY <2>1, <2>2
  <2>4. BooksKept'
    BY <2>2 DEF BooksInv, BooksKept, NoneStarts
  <2>5. Charged' = Charged
    BY <2>2 DEF Charged
  <2>6. UpdatesKept'
    BY <2>2, <2>3, <2>5 DEF BooksInv, UpdatesKept, NoneStarts
  <2> QED
    BY <2>1, <2>2, <2>3, <2>4, <2>6
<1> QED
  BY <1>1, <1>2

LEMMA Went ==
  ASSUME BooksInv, NEW c \in Calls, NEW stage \in Stages, stage # "idle", Goto(c, stage)
  PROVE  /\ call' \in [Calls -> Stages] /\ call'[c] = stage /\ NoneStarts
         /\ \A d \in Calls : d # c => call'[d] = call[d]
BY DEF BooksInv, TypeOK, Goto, NoneStarts

\* A call that goes to another stage takes none of the others with it.
LEMMA OthersStay ==
  ASSUME BooksInv, NEW c \in Calls, NEW stage \in Stages, stage # "idle", Goto(c, stage),
         \A d \in Writers : d # c => (update[d] # None => update'[d] # None),
         \A d \in Calls : d # c => used'[d] = used[d],
         stage \in AtUse => used'[c] # None,
         stage \in AtUpdate => update'[c] # None,
         stage \in AtOutbox => c \in Tools
  PROVE  CallsKept'
<1> SUFFICES ASSUME NEW d \in Calls
             PROVE  /\ call'[d] \in AtUse => used'[d] # None
                    /\ call'[d] \in AtUpdate => update'[d] # None
                    /\ call'[d] \in AtOutbox => d \in Tools
  BY DEF CallsKept
<1>1. CASE d = c
  BY <1>1, Went
<1>2. CASE d # c
  <2>1. call'[d] = call[d] /\ used'[d] = used[d] /\ (update[d] # None => update'[d] # None)
    BY <1>2, Went DEF Writers
  <2> QED
    BY <2>1 DEF BooksInv, CallsKept
<1> QED
  BY <1>1, <1>2

\* What the record allows the steps of a call: it may be reserved, ended or
\* settled.
LEMMA ExpiredBalanced ==
  ASSUME BooksInv, NEW b, b = ExpireReservations(books)
  PROVE  /\ Balanced(b, limit) /\ b.usage = books.usage
         /\ \A c \in Calls : books.state[c] = None => b.state[c] = None
<1>1. limit \in Nat /\ Balanced(books, limit)
  BY AmountsAssumption DEF BooksInv, BooksKept, TypeOK
<1>2. PICK S : S = Held(books) \cap overdue
  OBVIOUS
<1>3. S \subseteq Held(books) /\ b = End(books, S, "EXPIRED")
  BY <1>2 DEF ExpireReservations
<1> QED
  BY <1>1, <1>3, EndBalanced

LEMMA RevokedBalanced ==
  ASSUME BooksInv, NEW c \in Calls, NEW b, b = Revoke(books, c)
  PROVE  /\ Balanced(b, limit) /\ b.usage = books.usage
         /\ \A d \in Calls : books.state[d] = None => b.state[d] = None
<1>1. limit \in Nat /\ Balanced(books, limit)
  BY AmountsAssumption DEF BooksInv, BooksKept, TypeOK
<1>2. PICK S : S = {c} \cap Held(books)
  OBVIOUS
<1>3. S \subseteq Held(books) /\ b = End(books, S, "REVOKED")
  BY <1>2 DEF Revoke
<1> QED
  BY <1>1, <1>3, EndBalanced

\* A call that is to be settled for what it may have used.
LEMMA SettlementBegins ==
  ASSUME BooksInv, NEW c \in Calls, CanSettle(c), NEW actual \in Nat, NEW stage \in Stages,
         stage # "idle", Goto(c, stage), BeginUpdate(c, Settle(books, c, actual)),
         UNCHANGED <<limit, books>>
  PROVE  /\ BooksKept' /\ UpdatesKept' /\ update' \in [Writers -> Updates \cup {None}]
         /\ update'[c] # None
         /\ \A v \in Writers : update[v] # None => update'[v] # None
<1>1. limit \in Nat /\ Balanced(books, limit) /\ books.state[c] = "RESERVED"
  BY AmountsAssumption DEF BooksInv, BooksKept, TypeOK, CanSettle
<1>2. PICK b : b = Settle(books, c, actual)
  OBVIOUS
<1>3. /\ Balanced(b, limit) /\ c \notin Charged
      /\ \A d \in Calls : d # c => b.state[d] = books.state[d] /\ b.usage[d] = books.usage[d]
  BY <1>1, <1>2, SettleBalanced, ChargedForms
<1>4. NoneStarts /\ call'[c] # "idle"
  BY Went
<1>5. \A d \in Calls : call'[d] = "idle" => b.state[d] = None
  BY <1>3, <1>4 DEF BooksInv, BooksKept, NoneStarts
<1>6. \A d \in Charged : b.usage[d] = books.usage[d]
  BY <1>3 DEF Charged
<1>7. c \in Writers
  BY DEF Writers
<1> QED
  BY <1>2, <1>3, <1>4, <1>5, <1>6, <1>7, Begun

LEMMA InitBooksInv == Init => BooksInv
<1> SUFFICES ASSUME Init PROVE BooksInv
  OBVIOUS
<1>1. limit \in Nat
  BY AmountsAssumption DEF Init
<1>2. Balanced(books, limit)
  BY <1>1, EmptyBalanced DEF Init
<1>3. TypeOK
  <2>1. books \in Books
    BY <1>2 DEF Balanced
  <2> QED
    BY <2>1 DEF Init, TypeOK, Stages
<1>4. BooksKept
  BY <1>2 DEF Init, BooksKept, EmptyBooks
<1>5. UpdatesKept
  BY DEF Init, UpdatesKept
<1>6. CallsKept
  BY DEF Init, CallsKept, AtUse, AtUpdate, AtOutbox
<1> QED
  BY <1>3, <1>4, <1>5, <1>6 DEF BooksInv

LEMMA BeginReserveStep ==
  ASSUME BooksInv, NEW c \in Calls, BeginReserve(c)
  PROVE  BooksInv'
<1>1. PICK b : b = ExpireReservations(books)
  OBVIOUS
<1>2. CASE Exhausted(b)
  <2>1. Goto(c, "refused") /\ UNCHANGED <<limit, books, update, used>>
    BY <1>1, <1>2 DEF BeginReserve
  <2>2. "refused" \in Stages /\ "refused" \notin AtUse \cup AtUpdate \cup AtOutbox
    BY DEF Stages, AtUse, AtUpdate, AtOutbox
  <2>3. call' \in [Calls -> Stages] /\ NoneStarts
    BY <2>1, <2>2, Went
  <2>4. BooksKept' /\ UpdatesKept'
    BY <2>1, <2>3, Untouched
  <2>5. CallsKept'
    BY <2>1, <2>2, OthersStay
  <2>6. TypeOK'
    BY <2>1, <2>3 DEF BooksInv, TypeOK, BeginReserve
  <2> QED
    BY <2>4, <2>5, <2>6 DEF BooksInv
<1>3. CASE ~Exhausted(b)
  <2>1. Goto(c, "reserving") /\ BeginUpdate(c, Reserve(b, c)) /\ UNCHANGED <<limit, books, used>>
    BY <1>1, <1>3 DEF BeginReserve
  <2>2. "reserving" \in Stages /\ "reserving" \notin AtUse \cup AtOutbox
    BY DEF Stages, AtUse, AtOutbox
  <2>3. call' \in [Calls -> Stages] /\ NoneStarts /\ call'[c] = "reserving"
    BY <2>1, <2>2, Went
  <2>4. PICK e : e = Reserve(b, c)
    OBVIOUS
  <2>5. /\ Balanced(b, limit) /\ b.usage = books.usage
        /\ \A d \in Calls : books.state[d] = None => b.state[d] = None
    BY <1>1, ExpiredBalanced
  <2>6. b.state[c] = None
    BY <2>5 DEF BooksInv, BooksKept, BeginReserve
  <2>7. limit \in Nat /\ b \in Books
    BY <2>5, AmountsAssumption DEF BooksInv, TypeOK, Balanced
  <2>8. b.consumed + b.reserved + Grant <= limit
    BY <1>3, <2>7, AmountsAssumption DEF Exhausted, Books
  <2>9. /\ Balanced(e, limit) /\ e.usage = b.usage
        /\ \A d \in Calls : d # c => e.state[d] = b.state[d]
    BY <2>4, <2>5, <2>6, <2>7, <2>8, ReserveBalanced
  <2>10. \A d \in Calls : call'[d] = "idle" => e.state[d] = None
    BY <2>3, <2>5, <2>9 DEF BooksInv, BooksKept, NoneStarts
  <2>11. /\ BooksKept' /\ UpdatesKept' /\ update' \in [Writers -> Updates \cup {None}]
         /\ update'[c] # None
         /\ \A v \in Writers : update[v] # None => update'[v] # None
    <3>1. c \in Writers
      BY DEF Writers
    <3>2. \A d \in Charged : e.usage[d] = books.usage[d]
      BY <2>5, <2>9
    <3> QED
      BY <2>1, <2>3, <2>4, <2>9, <2>10, <3>1, <3>2, Begun
  <2>12. CallsKept'
    BY <2>1, <2>2, <2>11, OthersStay
  <2>13. TypeOK'
    BY <2>1, <2>3, <2>11 DEF BooksInv, TypeOK, BeginReserve
  <2> QED
    BY <2>11, <2>12, <2>13 DEF BooksInv
<1> QED
  BY <1>2, <1>3

\* The transactions of a call's updates, which differ in where it goes next.
LEMMA EndStep ==
  ASSUME BooksInv, NEW c \in Calls, call[c] \in AtUpdate, EndUpdate(c),
         NEW stage \in Stages, stage # "idle", Goto(c, stage), stage \notin AtUpdate,
         stage \in AtUse => call[c] \in AtUse, stage \in AtOutbox => c \in Tools,
         UNCHANGED <<limit, overdue, used, listed, crashes, starts>>,
         tries' \in [Tools -> Nat]
  PROVE  BooksInv'
<1>1. c \in Writers /\ update[c] # None
  BY DEF Writers, BooksInv, CallsKept
<1>2. call' \in [Calls -> Stages] /\ NoneStarts
  BY Went
<1>3. /\ BooksKept' /\ UpdatesKept' /\ update' \in [Writers -> Updates \cup {None}]
      /\ books' \in Books
      /\ \A v \in Writers : v # c => (update[v] # None => update'[v] # None)
  BY <1>1, <1>2, Ended
<1>4. stage \in AtUse => used'[c] # None
  BY DEF BooksInv, CallsKept
<1>5. CallsKept'
  BY <1>3, <1>4, OthersStay
<1>6. TypeOK'
  BY <1>2, <1>3 DEF BooksInv, TypeOK
<1> QED
  BY <1>3, <1>5, <1>6 DEF BooksInv

\* Steps of a call that touch neither the record nor the updates.
LEMMA PlainStep ==
  ASSUME BooksInv, NEW c \in Calls, UNCHANGED <<limit, books, update, overdue, listed, crashes, starts>>,
         NEW stage \in Stages, stage # "idle", Goto(c, stage), stage \notin AtUpdate,
         stage \in AtUse => used'[c] # None, stage \in AtOutbox => c \in Tools,
         used' \in [Calls -> Actuals \cup {None}], \A d \in Calls : d # c => used'[d] = used[d],
         tries' \in [Tools -> Nat]
  PROVE  BooksInv'
<1>1. call' \in [Calls -> Stages] /\ NoneStarts
  BY Went
<1>2. BooksKept' /\ UpdatesKept'
  BY <1>1, Untouched
<1>3. CallsKept'
  BY OthersStay
<1>4. TypeOK'
  BY <1>1 DEF BooksInv, TypeOK
<1> QED
  BY <1>2, <1>3, <1>4 DEF BooksInv

\* Settlement begins, whoever begins it.
LEMMA SettleStep ==
  ASSUME BooksInv, NEW c \in Calls, CanSettle(c), NEW actual \in Nat,
         NEW stage \in {"settling", "delivering"}, stage = "delivering" => c \in Tools,
         Goto(c, stage), BeginUpdate(c, Settle(books, c, actual)), used[c] # None,
         UNCHANGED <<limit, books, overdue, used, tries, listed, crashes, starts>>
  PROVE  BooksInv'
<1>1. /\ stage \in Stages /\ stage # "idle"
      /\ (stage \in AtOutbox => c \in Tools)
  BY DEF Stages, AtOutbox
<1>2. call' \in [Calls -> Stages]
  BY <1>1, Went
<1>3. /\ BooksKept' /\ UpdatesKept' /\ update' \in [Writers -> Updates \cup {None}]
      /\ update'[c] # None
      /\ \A v \in Writers : update[v] # None => update'[v] # None
  BY <1>1, SettlementBegins
<1>4. CallsKept'
  BY <1>1, <1>3, OthersStay
<1>5. TypeOK'
  BY <1>2, <1>3 DEF BooksInv, TypeOK
<1> QED
  BY <1>3, <1>4, <1>5 DEF BooksInv

LEMMA CallSteps ==
  ASSUME BooksInv, NEW c \in Calls
  PROVE  /\ EndReserve(c) => BooksInv'
         /\ BeginDeny(c) => BooksInv'
         /\ EndDeny(c) => BooksInv'
         /\ Run(c) => BooksInv'
         /\ BeginSettle(c) => BooksInv'
         /\ EndSettle(c) => BooksInv'
         /\ BeginDeliver(c) => BooksInv'
         /\ EndDeliver(c) => BooksInv'
         /\ Acknowledge(c) => BooksInv'
         /\ BeginReconcile(c) => BooksInv'
         /\ Elapse(c) => BooksInv'
<1> USE DEF Stages, AtUse, AtUpdate, AtOutbox
<1>0. TypeOK /\ used \in [Calls -> Actuals \cup {None}] /\ tries \in [Tools -> Nat]
      /\ (call[c] \in AtUse => used[c] \in Nat /\ used[c] # None)
      /\ (call[c] \in AtOutbox => c \in Tools)
  BY AmountsAssumption DEF BooksInv, TypeOK, CallsKept
<1>1. ASSUME EndReserve(c) PROVE BooksInv'
  <2>1. PICK stage \in {"running", "refused"} : Goto(c, stage)
    BY <1>1 DEF EndReserve
  <2>2. call[c] = "reserving" /\ EndUpdate(c)
        /\ UNCHANGED <<limit, overdue, used, tries, listed, crashes, starts>>
    BY <1>1 DEF EndReserve
  <2> QED
    BY <1>0, <2>1, <2>2, EndStep
<1>2. ASSUME BeginDeny(c) PROVE BooksInv'
  <2>1. /\ call[c] = "running" /\ Goto(c, "revoking") /\ BeginUpdate(c, Revoke(books, c))
        /\ UNCHANGED <<limit, books, overdue, used, tries, listed, crashes, starts>>
    BY <1>2 DEF BeginDeny
  <2>2. call' \in [Calls -> Stages] /\ NoneStarts
    BY <2>1, Went
  <2>3. PICK b : b = Revoke(books, c)
    OBVIOUS
  <2>4. /\ Balanced(b, limit) /\ b.usage = books.usage
        /\ \A d \in Calls : books.state[d] = None => b.state[d] = None
    BY <2>3, RevokedBalanced
  <2>5. \A d \in Calls : call'[d] = "idle" => b.state[d] = None
    BY <2>2, <2>4 DEF BooksInv, BooksKept, NoneStarts
  <2>6. /\ BooksKept' /\ UpdatesKept' /\ update' \in [Writers -> Updates \cup {None}]
        /\ update'[c] # None
        /\ \A v \in Writers : update[v] # None => update'[v] # None
    <3>1. c \in Writers
      BY DEF Writers
    <3>2. \A d \in Charged : b.usage[d] = books.usage[d]
      BY <2>4
    <3> QED
      BY <2>1, <2>2, <2>3, <2>4, <2>5, <3>1, <3>2, Begun
  <2>7. CallsKept'
    BY <2>1, <2>6, OthersStay
  <2>8. TypeOK'
    BY <1>0, <2>1, <2>2, <2>6 DEF TypeOK
  <2> QED
    BY <2>6, <2>7, <2>8 DEF BooksInv
<1>3. ASSUME EndDeny(c) PROVE BooksInv'
  <2>1. /\ call[c] = "revoking" /\ EndUpdate(c) /\ Goto(c, "refused")
        /\ UNCHANGED <<limit, overdue, used, tries, listed, crashes, starts>>
    BY <1>3 DEF EndDeny
  <2> QED
    BY <1>0, <2>1, EndStep
<1>4. ASSUME Run(c) PROVE BooksInv'
  <2>1. PICK actual \in Actuals : used' = [used EXCEPT ![c] = actual]
    BY <1>4 DEF Run
  <2>2. /\ Goto(c, "ran")
        /\ UNCHANGED <<limit, books, update, overdue, tries, listed, crashes, starts>>
    BY <1>4 DEF Run
  <2>3. used' \in [Calls -> Actuals \cup {None}] /\ used'[c] = actual
        /\ \A d \in Calls : d # c => used'[d] = used[d]
    BY <1>0, <2>1
  <2>4. actual # None
    BY AmountsAssumption, NoneAssumption
  <2> QED
    BY <1>0, <2>2, <2>3, <2>4, PlainStep
<1>5. ASSUME BeginSettle(c) PROVE BooksInv'
  <2>1. call[c] = "ran"
        /\ UNCHANGED <<limit, books, overdue, used, tries, listed, crashes, starts>>
    BY <1>5 DEF BeginSettle
  <2>2. CASE CanSettle(c)
    <3>1. Goto(c, "settling") /\ BeginUpdate(c, Settle(books, c, used[c]))
      BY <1>5, <2>2 DEF BeginSettle
    <3> QED
      BY <1>0, <2>1, <2>2, <3>1, SettleStep
  <2>3. CASE ~CanSettle(c)
    <3>1. Goto(c, Unsettled(c)) /\ UNCHANGED update
      BY <1>5, <2>3 DEF BeginSettle
    <3>2. PICK stage \in {"queued", "unsettled"} : Goto(c, stage) /\ (stage = "queued" => c \in Tools)
      BY <3>1 DEF Unsettled
    <3> QED
      BY <1>0, <2>1, <3>1, <3>2, PlainStep
  <2> QED
    BY <2>2, <2>3
<1>6. ASSUME EndSettle(c) PROVE BooksInv'
  <2>1. /\ call[c] = "settling" /\ EndUpdate(c)
        /\ UNCHANGED <<limit, overdue, used, tries, listed, crashes, starts>>
    BY <1>6 DEF EndSettle
  <2>2. PICK stage \in {"over", "queued", "unsettled"} :
          Goto(c, stage) /\ (stage = "queued" => c \in Tools)
    BY <1>6 DEF EndSettle, Unsettled
  <2> QED
    BY <1>0, <2>1, <2>2, EndStep
<1>7. ASSUME BeginDeliver(c) PROVE BooksInv'
  <2>1. c \in Tools /\ call[c] = "queued"
        /\ UNCHANGED <<limit, books, overdue, used, listed, crashes, starts>>
    BY <1>7 DEF BeginDeliver
  <2>2. CASE CanSettle(c)
    <3>1. Goto(c, "delivering") /\ BeginUpdate(c, Settle(books, c, used[c])) /\ UNCHANGED tries
      BY <1>7, <2>2 DEF BeginDeliver
    <3> QED
      BY <1>0, <2>1, <2>2, <3>1, SettleStep
  <2>3. CASE ~CanSettle(c)
    <3>1. PICK stage \in {"over", "queued", "dead"} : Goto(c, stage)
      BY <1>7, <2>3 DEF BeginDeliver, Undelivered
    <3>2. tries' = [tries EXCEPT ![c] = @ + 1] /\ UNCHANGED update
      BY <1>7, <2>3 DEF BeginDeliver
    <3>3. tries' \in [Tools -> Nat]
      BY <1>0, <2>1, <3>2
    <3> QED
      BY <1>0, <2>1, <3>1, <3>2, <3>3, PlainStep
  <2> QED
    BY <2>2, <2>3
<1>8. ASSUME EndDeliver(c) PROVE BooksInv'
  <2>1. /\ call[c] = "delivering" /\ EndUpdate(c) /\ tries' = [tries EXCEPT ![c] = @ + 1]
        /\ UNCHANGED <<limit, overdue, used, listed, crashes, starts>>
    BY <1>8 DEF EndDeliver
  <2>2. PICK stage \in {"delivered", "queued", "dead"} : Goto(c, stage)
    BY <1>8 DEF EndDeliver, Undelivered
  <2>3. c \in Tools
    BY <1>0, <2>1
  <2>4. tries' \in [Tools -> Nat]
    BY <1>0, <2>1, <2>3
  <2> QED
    BY <2>1, <2>2, <2>3, <2>4, EndStep
<1>9. ASSUME Acknowledge(c) PROVE BooksInv'
  <2>1. Goto(c, "over")
        /\ UNCHANGED <<limit, books, update, overdue, used, tries, listed, crashes, starts>>
    BY <1>9 DEF Acknowledge
  <2> QED
    BY <1>0, <2>1, PlainStep
<1>10. ASSUME BeginReconcile(c) PROVE BooksInv'
  <2>1. call[c] = "recovering"
        /\ UNCHANGED <<limit, books, overdue, used, tries, listed, crashes, starts>>
    BY <1>10 DEF BeginReconcile
  <2>2. CASE CanSettle(c)
    <3>1. Goto(c, "settling") /\ BeginUpdate(c, Settle(books, c, Grant))
      BY <1>10, <2>2 DEF BeginReconcile
    <3> QED
      BY <1>0, <2>1, <2>2, <3>1, SettleStep, AmountsAssumption
  <2>3. CASE ~CanSettle(c)
    <3>1. Goto(c, "over") /\ UNCHANGED update
      BY <1>10, <2>3 DEF BeginReconcile
    <3> QED
      BY <1>0, <2>1, <3>1, PlainStep
  <2> QED
    BY <2>2, <2>3
<1>11. ASSUME Elapse(c) PROVE BooksInv'
  <2>1. overdue' = overdue \cup {c}
        /\ UNCHANGED <<limit, books, update, call, used, tries, listed, crashes, starts>>
    BY <1>11 DEF Elapse
  <2>2. NoneStarts
    BY <2>1 DEF NoneStarts
  <2>3. BooksKept' /\ UpdatesKept'
    BY <2>1, <2>2, Untouched
  <2>4. CallsKept' /\ TypeOK'
    BY <1>0, <2>1 DEF BooksInv, CallsKept, TypeOK
  <2> QED
    BY <2>3, <2>4 DEF BooksInv
<1> QED
  BY <1>1, <1>2, <1>3, <1>4, <1>5, <1>6, <1>7, <1>8, <1>9, <1>10, <1>11

\* The updates of the operator and of a process that starts: no call moves.
LEMMA OtherWriters ==
  ASSUME BooksInv, NEW w \in {Operator, Starter}, UNCHANGED <<limit, call, used>>,
         \A v \in Writers : v # w => (update[v] # None => update'[v] # None)
  PROVE  CallsKept' /\ NoneStarts
<1>1. \A c \in Calls : c \in Writers /\ c # w
  BY WritersAssumption DEF Writers
<1> QED
  BY <1>1 DEF BooksInv, CallsKept, NoneStarts

LEMMA OtherSteps ==
  ASSUME BooksInv
  PROVE  /\ ListExpired => BooksInv'
         /\ BeginRelease => BooksInv'
         /\ EndRelease => BooksInv'
         /\ BeginRegister => BooksInv'
         /\ RegisterPolicy => BooksInv'
         /\ Crash => BooksInv'
<1>0. TypeOK /\ Operator \in Writers /\ Starter \in Writers
  BY DEF BooksInv, Writers
<1>1. ASSUME ListExpired PROVE BooksInv'
  <2>1. /\ listed' = Held(books) \cap overdue
        /\ UNCHANGED <<limit, books, update, overdue, call, used, tries, crashes, starts>>
    BY <1>1 DEF ListExpired
  <2>2. NoneStarts /\ listed' \subseteq Calls
    BY <1>0, <2>1 DEF NoneStarts, TypeOK
  <2>3. BooksKept' /\ UpdatesKept'
    BY <2>1, <2>2, Untouched
  <2>4. CallsKept' /\ TypeOK'
    BY <1>0, <2>1, <2>2 DEF BooksInv, CallsKept, TypeOK
  <2> QED
    BY <2>3, <2>4 DEF BooksInv
<1>2. ASSUME BeginRelease PROVE BooksInv'
  <2>1. PICK c \in listed : listed' = listed \ {c} /\ BeginUpdate(Operator, Revoke(books, c))
    BY <1>2 DEF BeginRelease
  <2>2. UNCHANGED <<limit, books, overdue, call, used, tries, crashes, starts>> /\ c \in Calls
    BY <1>0, <1>2 DEF BeginRelease, TypeOK
  <2>3. PICK b : b = Revoke(books, c)
    OBVIOUS
  <2>4. /\ Balanced(b, limit) /\ b.usage = books.usage
        /\ \A d \in Calls : books.state[d] = None => b.state[d] = None
    BY <2>2, <2>3, RevokedBalanced
  <2>5. NoneStarts
    BY <2>2 DEF NoneStarts
  <2>6. \A d \in Calls : call'[d] = "idle" => b.state[d] = None
    BY <2>4, <2>5 DEF BooksInv, BooksKept, NoneStarts
  <2>7. \A d \in Charged : b.usage[d] = books.usage[d]
    BY <2>4
  <2>8. /\ BooksKept' /\ UpdatesKept' /\ update' \in [Writers -> Updates \cup {None}]
        /\ \A v \in Writers : update[v] # None => update'[v] # None
    BY <1>0, <2>1, <2>2, <2>3, <2>4, <2>5, <2>6, <2>7, Begun
  <2>9. CallsKept'
    BY <2>2, <2>8, OtherWriters
  <2>10. TypeOK'
    BY <1>0, <2>1, <2>2, <2>8 DEF TypeOK
  <2> QED
    BY <2>8, <2>9, <2>10 DEF BooksInv
<1>3. ASSUME EndRelease PROVE BooksInv'
  <2>1. /\ update[Operator] # None /\ EndUpdate(Operator) /\ listed' \in {listed, {}}
        /\ UNCHANGED <<limit, overdue, call, used, tries, crashes, starts>>
    BY <1>3 DEF EndRelease
  <2>2. NoneStarts
    BY <2>1 DEF NoneStarts
  <2>3. /\ BooksKept' /\ UpdatesKept' /\ update' \in [Writers -> Updates \cup {None}]
        /\ books' \in Books
        /\ \A v \in Writers : v # Operator => (update[v] # None => update'[v] # None)
    BY <1>0, <2>1, <2>2, Ended
  <2>4. CallsKept'
    BY <2>1, <2>3, OtherWriters
  <2>5. TypeOK'
    BY <1>0, <2>1, <2>3 DEF TypeOK
  <2> QED
    BY <2>3, <2>4, <2>5 DEF BooksInv
<1>4. ASSUME BeginRegister PROVE BooksInv'
  <2>1. /\ BeginUpdate(Starter, books) /\ starts' = starts + 1
        /\ UNCHANGED <<limit, books, overdue, call, used, tries, listed, crashes>>
    BY <1>4 DEF BeginRegister
  <2>2. NoneStarts
    BY <2>1 DEF NoneStarts
  <2>3. Balanced(books, limit) /\ \A d \in Calls : call'[d] = "idle" => books.state[d] = None
    BY <2>2 DEF BooksInv, BooksKept, NoneStarts
  <2>4. PICK b : b = books
    OBVIOUS
  <2>5. /\ BooksKept' /\ UpdatesKept' /\ update' \in [Writers -> Updates \cup {None}]
        /\ \A v \in Writers : update[v] # None => update'[v] # None
    BY <1>0, <2>1, <2>2, <2>3, <2>4, Begun
  <2>6. CallsKept'
    BY <2>1, <2>5, OtherWriters
  <2>7. TypeOK'
    BY <1>0, <2>1, <2>5 DEF TypeOK
  <2> QED
    BY <2>5, <2>6, <2>7 DEF BooksInv
<1>5. ASSUME RegisterPolicy PROVE BooksInv'
  <2>1. /\ update[Starter] # None /\ Write(Starter, update[Starter].next)
        /\ UNCHANGED <<limit, overdue, call, used, tries, listed, crashes, starts>>
    BY <1>5 DEF RegisterPolicy
  <2>2. NoneStarts
    BY <2>1 DEF NoneStarts
  <2>3. /\ BooksKept' /\ UpdatesKept' /\ update' \in [Writers -> Updates \cup {None}]
        /\ books' \in Books
        /\ \A v \in Writers : v # Starter => (update[v] # None => update'[v] # None)
    BY <1>0, <2>1, <2>2, Written
  <2>4. CallsKept'
    BY <2>1, <2>3, OtherWriters
  <2>5. TypeOK'
    BY <1>0, <2>1, <2>3 DEF TypeOK
  <2> QED
    BY <2>3, <2>4, <2>5 DEF BooksInv
<1>6. ASSUME Crash PROVE BooksInv'
  <2>1. /\ crashes' = crashes + 1 /\ listed' = {}
        /\ call' = [c \in Calls |-> AfterCrash(c)]
        /\ update' = [w \in Writers |-> IF w = Starter THEN update[w] ELSE None]
        /\ UNCHANGED <<limit, books, overdue, used, tries, starts>>
    BY <1>6 DEF Crash
  <2>2. ASSUME NEW c \in Calls
        PROVE  \/ call'[c] = "interrupted"
               \/ call'[c] = "recovering" /\ used[c] # None
               \/ call'[c] = "queued" /\ call[c] \in AtOutbox
               \/ call'[c] = call[c] /\ call[c] \in Stages \ AtUpdate
    <3>1. call[c] \in Stages /\ (call[c] \in AtUse => used[c] # None) /\ c \in Steps \cup Tools
      BY <1>0 DEF BooksInv, TypeOK, CallsKept, Calls
    <3>2. call'[c] = AfterCrash(c)
      BY <2>1
    <3>3. CASE call[c] \in {"reserving", "running", "revoking"}
      BY <3>2, <3>3 DEF AfterCrash
    <3>4. CASE call[c] \in {"ran", "settling"} /\ c \in Tools
      BY <3>2, <3>4 DEF AfterCrash
    <3>5. CASE call[c] \notin {"reserving", "running", "revoking"}
               /\ ~(call[c] \in {"ran", "settling"} /\ c \in Tools) /\ c \in Steps /\ used[c] # None
      <4>1. ~(call[c] \in {"ran", "settling"} /\ c \in Tools) /\ c \in Steps /\ used[c] # None
        BY <3>5
      <4>2. call[c] \notin {"reserving", "running", "revoking"}
        BY <3>5
      <4>3. c \notin Tools /\ call[c] \notin {"delivering", "delivered"}
        BY <4>1, WritersAssumption DEF BooksInv, CallsKept, AtOutbox
      <4>4. AfterCrash(c) = "recovering"
        BY <4>1, <4>2, <4>3 DEF AfterCrash
      <4> QED
        BY <3>2, <4>1, <4>4
    <3>6. CASE call[c] \notin {"reserving", "running", "revoking"}
               /\ ~(call[c] \in {"ran", "settling"} /\ c \in Tools) /\ ~(c \in Steps /\ used[c] # None)
      <4>1. CASE call[c] \in {"delivering", "delivered"}
        BY <3>2, <3>6, <4>1 DEF AfterCrash, AtOutbox
      <4>2. CASE call[c] \notin {"delivering", "delivered"}
        <5>1. call'[c] = call[c]
          BY <3>2, <3>6, <4>2 DEF AfterCrash
        <5>2. call[c] # "settling"
          BY <3>1, <3>6 DEF AtUse
        <5> QED
          BY <3>1, <3>6, <4>2, <5>1, <5>2 DEF AtUpdate
      <4> QED
        BY <4>1, <4>2
    <3> QED
      BY <3>3, <3>4, <3>5, <3>6
  <2>3. NoneStarts
    BY <2>2 DEF NoneStarts
  <2>4. call' \in [Calls -> Stages]
    <3>1. \A c \in Calls : call'[c] \in Stages
      BY <2>2 DEF Stages
    <3> QED
      BY <2>1, <3>1
  <2>5. BooksKept'
    BY <2>1, <2>3 DEF BooksInv, BooksKept, NoneStarts
  <2>6. Charged' = Charged
    BY <2>1 DEF Charged
  <2>7. \A w \in Writers : update'[w] # None => update'[w] = update[w]
    BY <2>1
  <2>8. UpdatesKept'
    BY <2>1, <2>3, <2>6, <2>7 DEF BooksInv, UpdatesKept, NoneStarts
  <2>9. CallsKept'
    <3> SUFFICES ASSUME NEW c \in Calls
                 PROVE  /\ call'[c] \in AtUse => used'[c] # None
                        /\ call'[c] \in AtUpdate => update'[c] # None
                        /\ call'[c] \in AtOutbox => c \in Tools
      BY DEF CallsKept
    <3>1. /\ call[c] \in AtUse => used[c] # None
          /\ call[c] \in AtOutbox => c \in Tools
      BY DEF BooksInv, CallsKept
    <3> QED
      BY <2>1, <2>2, <3>1 DEF AtUse, AtUpdate, AtOutbox
  <2>10. TypeOK'
    <3>1. update' \in [Writers -> Updates \cup {None}]
      BY <1>0, <2>1 DEF TypeOK
    <3> QED
      BY <1>0, <2>1, <2>4, <3>1 DEF TypeOK
  <2> QED
    BY <2>5, <2>8, <2>9, <2>10 DEF BooksInv
<1> QED
  BY <1>1, <1>2, <1>3, <1>4, <1>5, <1>6

LEMMA StepBooksInv == BooksInv /\ [Next]_vars => BooksInv'
<1> SUFFICES ASSUME BooksInv, [Next]_vars PROVE BooksInv'
  OBVIOUS
<1>1. CASE UNCHANGED vars
  <2>1. UNCHANGED <<limit, books, update, overdue, call, used, tries, listed, crashes, starts>>
    BY <1>1 DEF vars
  <2>2. NoneStarts
    BY <2>1 DEF NoneStarts
  <2>3. BooksKept' /\ UpdatesKept'
    BY <2>1, <2>2, Untouched
  <2>4. CallsKept' /\ TypeOK'
    BY <2>1 DEF BooksInv, CallsKept, TypeOK
  <2> QED
    BY <2>3, <2>4 DEF BooksInv
<1>2. ASSUME NEW c \in Calls,
             BeginReserve(c) \/ EndReserve(c) \/ Run(c) \/ BeginSettle(c)
             \/ EndSettle(c) \/ BeginDeny(c) \/ EndDeny(c) \/ BeginDeliver(c)
             \/ EndDeliver(c) \/ Acknowledge(c) \/ BeginReconcile(c) \/ Elapse(c)
      PROVE  BooksInv'
  BY <1>2, BeginReserveStep, CallSteps
<1>3. CASE ListExpired \/ BeginRelease \/ EndRelease \/ BeginRegister \/ RegisterPolicy \/ Crash
  BY <1>3, OtherSteps
<1> QED
  BY <1>1, <1>2, <1>3 DEF Next

-----------------------------------------------------------------------------
(* The theorems                                                             *)

\* The record, the updates under way and the calls stay as described above.
LEMMA BooksInvariance == Spec => []BooksInv
BY InitBooksInv, StepBooksInv, PTL DEF Spec

\* Every variable keeps its type; so does every update under way.
THEOREM BudgetTypeCorrectness == Spec => []TypeOK
<1>1. BooksInv => TypeOK
  BY DEF BooksInv
<1> QED
  BY <1>1, BooksInvariance, PTL

\* The counters of the record are the sums of what they stand for, however
\* many calls there are and whatever they use: what BudgetRepository adds and
\* takes away never drifts from the reservations and the usage.
THEOREM CountersBalance == Spec => []BooksBalance
<1>1. BooksInv => BooksBalance
  <2> SUFFICES ASSUME BooksInv PROVE BooksBalance
    OBVIOUS
  <2>1. Balanced(books, limit) /\ Charged = ChargedIn(books)
    BY ChargedForms DEF BooksInv, BooksKept
  <2>2. Total(Charged, LAMBDA c : books.usage[c]) = Sum(books.usage, Charged)
    BY DEF Total, MapThenSumSet, MapThenFoldSet, Sum, SumsUp, Pick
  <2> QED
    BY <2>1, <2>2 DEF Balanced, BooksBalance
<1> QED
  BY <1>1, BooksInvariance, PTL

\* The sum of what was used beyond the reservations, as the property has it.
LEMMA OverageIsExcess ==
  ASSUME BooksInv
  PROVE  Total(Charged, Overage) = Sum(Excess(books), Charged)
<1> DEFINE P(h) == h = [s \in SUBSET Charged |->
                          IF s = {} THEN 0 ELSE Overage(Pick(s)) + h[s \ {Pick(s)}]]
<1>1. Total(Charged, Overage) = (CHOOSE h : P(h))[Charged]
  BY DEF Total, MapThenSumSet, MapThenFoldSet, Pick
<1>2. IsFiniteSet(Charged)
  BY ChargedForms DEF BooksInv, BooksKept, Balanced
<1>3. \A s \in SUBSET Charged : s # {} => Overage(Pick(s)) = Excess(books)[Pick(s)]
  BY DEF Overage, Excess, Pick, Charged
<1>4. ASSUME NEW h PROVE P(h) <=> SumsUp(h, Excess(books), Charged)
  <2>1. PICK x : x = Excess(books)
    OBVIOUS
  <2>2. [s \in SUBSET Charged |-> IF s = {} THEN 0 ELSE Overage(Pick(s)) + h[s \ {Pick(s)}]]
        = [s \in SUBSET Charged |-> IF s = {} THEN 0 ELSE x[Pick(s)] + h[s \ {Pick(s)}]]
    BY <1>3, <2>1
  <2> QED
    BY <2>1, <2>2 DEF SumsUp
<1> HIDE DEF P
<1>5. \E h : P(h)
  BY <1>2, <1>4, SumsExist
<1>6. PICK k : k = CHOOSE h : P(h)
  OBVIOUS
<1>7. P(k)
  BY <1>5, <1>6
<1>8. SumsUp(k, Excess(books), Charged)
  BY <1>4, <1>7
<1>9. k[Charged] = Sum(Excess(books), Charged)
  <2>1. PICK j : j = CHOOSE h : SumsUp(h, Excess(books), Charged)
    OBVIOUS
  <2>2. SumsUp(j, Excess(books), Charged)
    BY <1>2, <2>1, SumIsSum
  <2>3. k[Charged] = j[Charged]
    BY <1>2, <1>8, <2>2, SumsAgree
  <2> QED
    BY <2>1, <2>3 DEF Sum
<1> QED
  BY <1>1, <1>6, <1>9

\* What is reserved and consumed stays within the limit, up to what calls
\* used beyond their own reservations: no interleaving of reads and commits
\* lets two calls have the same allowance.
THEOREM LimitHolds == Spec => []LimitIsKept
<1>1. BooksInv => LimitIsKept
  <2> SUFFICES ASSUME BooksInv PROVE LimitIsKept
    OBVIOUS
  <2>1. Balanced(books, limit) /\ Charged = ChargedIn(books)
    BY ChargedForms DEF BooksInv, BooksKept
  <2> QED
    BY <2>1, OverageIsExcess DEF Balanced, LimitIsKept
<1> QED
  BY <1>1, BooksInvariance, PTL

\* A call is charged exactly when its reservation is settled.
THEOREM SettledIsCharged == Spec => []ChargesAreSettled
<1>1. BooksInv => ChargesAreSettled
  BY ChargedForms DEF BooksInv, BooksKept, Balanced, ChargesAreSettled
<1> QED
  BY <1>1, BooksInvariance, PTL

\* Live settlement, outbox and recovery charge a call once between them, for
\* good; only registerPolicy, which puts back what it has read, may undo it.
THEOREM ChargesAreFinal == Spec => ChargedOnce
<1>1. BooksInv /\ [Next]_vars => [RegisterPolicy \/ ChargesStand]_vars
  <2> SUFFICES ASSUME BooksInv, Next PROVE RegisterPolicy \/ ChargesStand
    OBVIOUS
  <2>1. ASSUME UNCHANGED books PROVE ChargesStand
    BY <2>1 DEF ChargesStand
  <2>2. ASSUME NEW w \in Writers, update[w] # None, EndUpdate(w) PROVE ChargesStand
    <3>1. CASE IsUnchanged(w)
      <4>1. books' = update[w].next
        BY <2>2, <3>1 DEF EndUpdate, Write
      <4>2. \A c \in Charged : update[w].next.usage[c] = books.usage[c]
        BY <2>2, <3>1 DEF BooksInv, UpdatesKept, IsUnchanged
      <4> QED
        BY <4>1, <4>2 DEF ChargesStand
    <3>2. CASE ~IsUnchanged(w)
      BY <2>1, <2>2, <3>2 DEF EndUpdate
    <3> QED
      BY <3>1, <3>2
  <2>3. ASSUME NEW c \in Calls, EndReserve(c) \/ EndSettle(c) \/ EndDeny(c) \/ EndDeliver(c)
        PROVE  ChargesStand
    <3>1. c \in Writers /\ call[c] \in AtUpdate /\ EndUpdate(c)
      BY <2>3 DEF Writers, AtUpdate, EndReserve, EndSettle, EndDeny, EndDeliver
    <3>2. update[c] # None
      BY <3>1 DEF BooksInv, CallsKept
    <3> QED
      BY <2>2, <3>1, <3>2
  <2>4. ASSUME NEW c \in Calls,
               BeginReserve(c) \/ Run(c) \/ BeginSettle(c) \/ BeginDeny(c) \/ BeginDeliver(c)
               \/ Acknowledge(c) \/ BeginReconcile(c) \/ Elapse(c)
        PROVE  ChargesStand
    <3>1. UNCHANGED books
      BY <2>4 DEF BeginReserve, Run, BeginSettle, BeginDeny, BeginDeliver, Acknowledge,
                  BeginReconcile, Elapse
    <3> QED
      BY <2>1, <3>1
  <2>5. CASE EndRelease
    <3>1. Operator \in Writers /\ update[Operator] # None /\ EndUpdate(Operator)
      BY <2>5 DEF Writers, EndRelease
    <3> QED
      BY <2>2, <3>1
  <2>6. CASE ListExpired \/ BeginRelease \/ BeginRegister \/ Crash
    BY <2>1, <2>6 DEF ListExpired, BeginRelease, BeginRegister, Crash
  <2> QED
    BY <2>3, <2>4, <2>5, <2>6 DEF Next
<1> QED
  BY <1>1, BooksInvariance, PTL DEF Spec, ChargedOnce
=============================================================================
