---------------------------- MODULE ReportProofs ----------------------------
(***************************************************************************)
(* Proof that the savings report is bracketed, for any number of orders,   *)
(* uploads and collections.  Sums are folds over sets, so that the facts   *)
(* about them come first: they are proved by induction on the subsets of a *)
(* finite set, in the form that names the set of those for which the claim *)
(* holds.                                                                  *)
(***************************************************************************)
EXTENDS ResultSearchProofs, WellFoundedInduction

LEMMA LeastNat ==
  ASSUME NEW T, T \subseteq Nat, T # {}
  PROVE  \E n \in T : \A m \in T : n <= m
<1>1. PICK n \in T : \A m \in T : ~ (<<m, n>> \in OpToRel(<, Nat))
  BY NatLessThanWellFounded, WFMin
<1>2. \A m \in T : ~(m < n)
  BY <1>1 DEF OpToRel
<1> QED BY <1>2

LEMMA NatSet ==
  ASSUME NEW T, 0 \in T, \A n \in Nat \cap T : n + 1 \in T
  PROVE  Nat \subseteq T
<1> SUFFICES ASSUME Nat \ T # {} PROVE FALSE
  OBVIOUS
<1>1. PICK n \in Nat \ T : \A m \in Nat \ T : n <= m
  BY LeastNat
<1>2. n # 0 /\ n - 1 \in Nat /\ n - 1 \in T
  BY <1>1
<1> QED BY <1>1, <1>2

First(s) == CHOOSE x \in s : TRUE

SumFrom(f, g, s) == IF s = {} THEN 0 ELSE g[First(s)] + f[s \ {First(s)}]

\* f holds the sums over all subsets of S.
Sums(f, g, S) == f = [s \in SUBSET S |-> SumFrom(f, g, s)]

LEMMA TotalIs ==
  ASSUME NEW g
  PROVE  Total(g) = (CHOOSE f : Sums(f, g, DOMAIN g))[DOMAIN g]
BY DEF Total, MapThenSumSet, MapThenFoldSet, Sums, SumFrom, First

LEMMA FirstIn ==
  ASSUME NEW s, s # {}
  PROVE  First(s) \in s
BY DEF First

\* A set of subsets of S that has {}, and a set whenever it has all that lack
\* one of its elements, has them all.
LEMMA AllSubsets ==
  ASSUME NEW S, IsFiniteSet(S), NEW G, {} \in G,
         \A s \in SUBSET S : s # {} /\ (\A x \in s : s \ {x} \in G) => s \in G
  PROVE  SUBSET S \subseteq G
<1> DEFINE T == {n \in Nat : \A s \in SUBSET S : Cardinality(s) <= n => s \in G}
<1>1. \A s \in SUBSET S : IsFiniteSet(s) /\ Cardinality(s) \in Nat
  BY FS_Subset, FS_CardinalityType
<1>2. 0 \in T
  <2>1. \A s \in SUBSET S : Cardinality(s) <= 0 => s = {}
    BY <1>1, FS_EmptySet
  <2> QED BY <2>1
<1>3. ASSUME NEW n \in Nat \cap T PROVE n + 1 \in T
  <2> SUFFICES ASSUME NEW s \in SUBSET S, Cardinality(s) <= n + 1, s # {} PROVE s \in G
    OBVIOUS
  <2>1. ASSUME NEW x \in s PROVE s \ {x} \in G
    <3>1. Cardinality(s \ {x}) = Cardinality(s) - 1
      BY <1>1, FS_RemoveElement
    <3>2. Cardinality(s \ {x}) <= n /\ s \ {x} \in SUBSET S
      BY <1>1, <3>1
    <3> QED BY <3>2
  <2> QED BY <2>1
<1>4. Nat \subseteq T
  <2> HIDE DEF T
  <2> QED BY <1>2, <1>3, NatSet
<1> QED BY <1>1, <1>4

LEMMA SumsExist ==
  ASSUME NEW g, IsFiniteSet(DOMAIN g)
  PROVE  \E f : Sums(f, g, DOMAIN g)
<1> DEFINE S == DOMAIN g
           Upto(f, n) == \A s \in SUBSET S : Cardinality(s) <= n => f[s] = SumFrom(f, g, s)
           T == {n \in Nat : \E f : Upto(f, n)}
<1>1. \A s \in SUBSET S : IsFiniteSet(s) /\ Cardinality(s) \in Nat
  BY FS_Subset, FS_CardinalityType
<1>2. \A s \in SUBSET S : s # {} =>
        s \ {First(s)} \in SUBSET S /\ Cardinality(s \ {First(s)}) = Cardinality(s) - 1
  BY <1>1, FirstIn, FS_RemoveElement
<1>3. 0 \in T
  <2> DEFINE f == [s \in SUBSET S |-> 0]
  <2>1. \A s \in SUBSET S : Cardinality(s) <= 0 => s = {}
    BY <1>1, FS_EmptySet
  <2>2. Upto(f, 0)
    BY <2>1 DEF SumFrom
  <2> QED BY <2>2
<1>4. ASSUME NEW n \in Nat \cap T PROVE n + 1 \in T
  <2>1. PICK f : Upto(f, n)
    OBVIOUS
  <2> DEFINE h == [s \in SUBSET S |-> IF Cardinality(s) <= n THEN f[s] ELSE SumFrom(f, g, s)]
  <2>2. ASSUME NEW s \in SUBSET S, Cardinality(s) <= n + 1 PROVE h[s] = SumFrom(h, g, s)
    <3>1. h[s] = SumFrom(f, g, s)
      BY <2>1
    <3>2. s # {} => h[s \ {First(s)}] = f[s \ {First(s)}]
      BY <1>1, <1>2, <2>2
    <3> HIDE DEF h
    <3> QED BY <3>1, <3>2 DEF SumFrom
  <2>3. Upto(h, n + 1)
    BY <2>2
  <2> HIDE DEF h
  <2> QED BY <2>3
<1>5. Nat \subseteq T
  <2> HIDE DEF T
  <2> QED BY <1>3, <1>4, NatSet
<1>6. PICK f : Upto(f, Cardinality(S))
  BY <1>1, <1>5
<1> DEFINE h == [s \in SUBSET S |-> f[s]]
<1>7. ASSUME NEW s \in SUBSET S PROVE h[s] = SumFrom(h, g, s)
  <2>1. h[s] = SumFrom(f, g, s)
    BY <1>1, <1>6, FS_Subset
  <2>2. s # {} => h[s \ {First(s)}] = f[s \ {First(s)}]
    BY <1>2
  <2> HIDE DEF h
  <2> QED BY <2>1, <2>2 DEF SumFrom
<1>8. h = [s \in SUBSET S |-> SumFrom(h, g, s)]
  BY <1>7
<1> QED BY <1>8 DEF Sums

\* The function whose last value is the total.
LEMMA TotalSums ==
  ASSUME NEW g, IsFiniteSet(DOMAIN g)
  PROVE  \E f : Sums(f, g, DOMAIN g) /\ Total(g) = f[DOMAIN g]
<1>1. \E f : Sums(f, g, DOMAIN g)
  BY SumsExist
<1>2. Sums(CHOOSE f : Sums(f, g, DOMAIN g), g, DOMAIN g)
  BY <1>1
<1> QED BY <1>2, TotalIs

\* One element at a time.
AddsUp(f, g, S) ==
  /\ f[{}] = 0
  /\ \A s \in SUBSET S : s # {} =>
       First(s) \in s /\ f[s] = g[First(s)] + f[s \ {First(s)}]

LEMMA SumsStep ==
  ASSUME NEW f, NEW g, NEW S, Sums(f, g, S)
  PROVE  AddsUp(f, g, S)
<1>1. \A s \in SUBSET S : f[s] = SumFrom(f, g, s)
  BY DEF Sums
<1> QED BY <1>1, FirstIn DEF SumFrom, AddsUp

LEMMA SumsInt ==
  ASSUME NEW f, NEW g, NEW S, IsFiniteSet(S), Sums(f, g, S), \A x \in S : g[x] \in Int
  PROVE  \A s \in SUBSET S : f[s] \in Int
<1> DEFINE G == {s \in SUBSET S : f[s] \in Int}
<1>1. {} \in G
  BY SumsStep DEF AddsUp
<1>2. ASSUME NEW s \in SUBSET S, s # {}, \A x \in s : s \ {x} \in G PROVE s \in G
  <2>1. First(s) \in s /\ f[s] = g[First(s)] + f[s \ {First(s)}]
    BY <1>2, SumsStep DEF AddsUp
  <2>2. f[s \ {First(s)}] \in Int /\ g[First(s)] \in Int
    BY <1>2, <2>1
  <2> QED BY <2>1, <2>2
<1> HIDE DEF G
<1>3. SUBSET S \subseteq G
  BY <1>1, <1>2, AllSubsets
<1> QED BY <1>3 DEF G

\* It does not matter which element is added last.
LEMMA SumsRemove ==
  ASSUME NEW f, NEW g, NEW S, IsFiniteSet(S), Sums(f, g, S), \A x \in S : g[x] \in Int
  PROVE  \A s \in SUBSET S : \A x \in s : f[s] = g[x] + f[s \ {x}]
<1> DEFINE G == {s \in SUBSET S : \A x \in s : f[s] = g[x] + f[s \ {x}]}
<1>1. {} \in G
  OBVIOUS
<1>2. ASSUME NEW s \in SUBSET S, s # {}, \A x \in s : s \ {x} \in G PROVE s \in G
  <2> SUFFICES ASSUME NEW x \in s PROVE f[s] = g[x] + f[s \ {x}]
    OBVIOUS
  <2> PICK y : y = First(s)
    OBVIOUS
  <2>1. y \in s /\ f[s] = g[y] + f[s \ {y}]
    <3>1. AddsUp(f, g, S)
      BY SumsStep
    <3> QED BY <3>1 DEF AddsUp
  <2>2. CASE x # y
    <3> DEFINE r == s \ {x, y}
    <3>1. f[s \ {y}] = g[x] + f[(s \ {y}) \ {x}]
      BY <1>2, <2>1, <2>2
    <3>2. f[s \ {x}] = g[y] + f[(s \ {x}) \ {y}]
      BY <1>2, <2>1, <2>2
    <3>3. (s \ {y}) \ {x} = r /\ (s \ {x}) \ {y} = r
      OBVIOUS
    <3>4. f[r] \in Int /\ g[x] \in Int /\ g[y] \in Int
      BY <2>1, SumsInt
    <3> HIDE DEF r
    <3> QED BY <2>1, <3>1, <3>2, <3>3, <3>4
  <2> QED BY <2>1, <2>2
<1> HIDE DEF G
<1>3. SUBSET S \subseteq G
  BY <1>1, <1>2, AllSubsets
<1> QED BY <1>3 DEF G

\* The sums over subsets depend on nothing outside them.
LEMMA SumsAgree ==
  ASSUME NEW f, NEW g, NEW S, IsFiniteSet(S), Sums(f, g, S),
         NEW h, NEW k, NEW R, R \subseteq S, Sums(h, k, R), \A x \in R : k[x] = g[x]
  PROVE  \A s \in SUBSET R : h[s] = f[s]
<1> DEFINE G == {s \in SUBSET R : h[s] = f[s]}
<1>1. {} \in G
  BY SumsStep DEF AddsUp
<1>2. ASSUME NEW s \in SUBSET R, s # {}, \A x \in s : s \ {x} \in G PROVE s \in G
  <2>1. AddsUp(h, k, R) /\ AddsUp(f, g, S)
    BY SumsStep
  <2>2. s \in SUBSET S
    OBVIOUS
  <2>3. /\ First(s) \in s /\ h[s] = k[First(s)] + h[s \ {First(s)}]
        /\ f[s] = g[First(s)] + f[s \ {First(s)}]
    BY <1>2, <2>1, <2>2 DEF AddsUp
  <2>4. h[s \ {First(s)}] = f[s \ {First(s)}]
    BY <1>2, <2>3
  <2> QED BY <2>3, <2>4
<1>3. IsFiniteSet(R)
  BY FS_Subset
<1> HIDE DEF G
<1>4. SUBSET R \subseteq G
  BY <1>1, <1>2, <1>3, AllSubsets
<1> QED BY <1>4 DEF G

LEMMA TotalOfNone ==
  ASSUME NEW g, DOMAIN g = {}
  PROVE  Total(g) = 0
<1>1. IsFiniteSet(DOMAIN g)
  BY FS_EmptySet
<1>2. PICK f : Sums(f, g, DOMAIN g) /\ Total(g) = f[DOMAIN g]
  BY <1>1, TotalSums
<1> QED BY <1>2, SumsStep DEF AddsUp

LEMMA TotalInt ==
  ASSUME NEW g, IsFiniteSet(DOMAIN g), \A x \in DOMAIN g : g[x] \in Int
  PROVE  Total(g) \in Int
<1>1. PICK f : Sums(f, g, DOMAIN g) /\ Total(g) = f[DOMAIN g]
  BY TotalSums
<1> QED BY <1>1, SumsInt

\* The total of what is left of g, and one more.
LEMMA TotalAdds ==
  ASSUME NEW g, IsFiniteSet(DOMAIN g), \A x \in DOMAIN g : g[x] \in Int,
         NEW x \in DOMAIN g, NEW k, DOMAIN k = DOMAIN g \ {x}, \A y \in DOMAIN k : k[y] = g[y]
  PROVE  Total(g) = g[x] + Total(k)
<1>1. PICK f : Sums(f, g, DOMAIN g) /\ Total(g) = f[DOMAIN g]
  BY TotalSums
<1>2. IsFiniteSet(DOMAIN k)
  BY FS_Subset
<1>3. PICK h : Sums(h, k, DOMAIN k) /\ Total(k) = h[DOMAIN k]
  BY <1>2, TotalSums
<1>4. h[DOMAIN k] = f[DOMAIN k]
  BY <1>1, <1>3, SumsAgree
<1>5. f[DOMAIN g] = g[x] + f[DOMAIN g \ {x}]
  BY <1>1, SumsRemove
<1> QED BY <1>1, <1>3, <1>4, <1>5

LEMMA TotalGrows ==
  ASSUME NEW g, NEW k, IsFiniteSet(DOMAIN g), DOMAIN k = DOMAIN g,
         \A x \in DOMAIN g : g[x] \in Int /\ k[x] \in Int /\ g[x] <= k[x]
  PROVE  Total(g) <= Total(k)
<1> PICK S : S = DOMAIN g
  OBVIOUS
<1>1. PICK f : Sums(f, g, S) /\ Total(g) = f[S]
  BY TotalSums
<1>2. PICK h : Sums(h, k, S) /\ Total(k) = h[S]
  BY TotalSums
<1>3. \A s \in SUBSET S : f[s] \in Int /\ h[s] \in Int
  BY <1>1, <1>2, SumsInt
<1> DEFINE G == {s \in SUBSET S : f[s] <= h[s]}
<1>4. AddsUp(f, g, S) /\ AddsUp(h, k, S)
  BY <1>1, <1>2, SumsStep
<1>5. {} \in G
  BY <1>4 DEF AddsUp
<1>6. ASSUME NEW s \in SUBSET S, s # {}, \A x \in s : s \ {x} \in G PROVE s \in G
  <2>1. /\ First(s) \in s /\ f[s] = g[First(s)] + f[s \ {First(s)}]
        /\ h[s] = k[First(s)] + h[s \ {First(s)}]
    BY <1>4, <1>6 DEF AddsUp
  <2>2. f[s \ {First(s)}] <= h[s \ {First(s)}] /\ g[First(s)] <= k[First(s)]
    BY <1>6, <2>1
  <2>3. /\ f[s \ {First(s)}] \in Int /\ h[s \ {First(s)}] \in Int
        /\ g[First(s)] \in Int /\ k[First(s)] \in Int
    BY <1>3, <2>1
  <2> QED BY <2>1, <2>2, <2>3
<1> HIDE DEF G
<1>7. SUBSET S \subseteq G
  BY <1>5, <1>6, AllSubsets
<1> QED BY <1>1, <1>2, <1>7 DEF G

\* The least and the greatest of a finite set.
LEMMA Extremes ==
  ASSUME NEW S, S \subseteq Int, IsFiniteSet(S), S # {}
  PROVE  /\ Min(S) \in S /\ \A x \in S : Min(S) <= x
         /\ Max(S) \in S /\ \A x \in S : Max(S) >= x
<1> DEFINE Has(s) == (\E m \in s : \A x \in s : m <= x) /\ \E m \in s : \A x \in s : m >= x
           G == {s \in SUBSET S : s # {} => Has(s)}
<1>1. ASSUME NEW s \in SUBSET S, s # {}, \A x \in s : s \ {x} \in G PROVE s \in G
  <2>1. PICK x \in s : TRUE
    BY <1>1
  <2>2. CASE s = {x}
    <3>1. x <= x /\ x >= x /\ \A y \in s : y = x
      BY <2>1, <2>2
    <3> QED BY <2>1, <3>1
  <2>3. CASE s # {x}
    <3>1. Has(s \ {x})
      BY <1>1, <2>1, <2>3
    <3>2. PICK l \in s \ {x} : \A y \in s \ {x} : l <= y
      BY <3>1
    <3>3. PICK m \in s \ {x} : \A y \in s \ {x} : m >= y
      BY <3>1
    <3>4. x \in Int /\ l \in Int /\ m \in Int /\ \A y \in s : y \in Int
      BY <2>1
    <3>5. \E k \in s : \A y \in s : k <= y
      <4>1. CASE l <= x
        BY <3>2, <4>1
      <4>2. CASE x <= l
        <5>1. \A y \in s : x <= y
          BY <3>2, <3>4, <4>2
        <5> QED BY <2>1, <5>1
      <4> QED BY <3>4, <4>1, <4>2
    <3>6. \E k \in s : \A y \in s : k >= y
      <4>1. CASE m >= x
        BY <3>3, <4>1
      <4>2. CASE x >= m
        <5>1. \A y \in s : x >= y
          BY <3>3, <3>4, <4>2
        <5> QED BY <2>1, <5>1
      <4> QED BY <3>4, <4>1, <4>2
    <3> QED BY <3>5, <3>6
  <2> QED BY <2>2, <2>3
<1>2. {} \in G
  OBVIOUS
<1> HIDE DEF G
<1>3. SUBSET S \subseteq G
  BY <1>1, <1>2, AllSubsets
<1>4. Has(S)
  BY <1>3 DEF G
<1> QED BY <1>4 DEF Min, Max

LEMMA FiniteImage ==
  ASSUME NEW f, NEW U, IsFiniteSet(U), NEW V, V = {f[i] : i \in U}
  PROVE  IsFiniteSet(V)
<1> DEFINE g == [i \in U |-> f[i]]
<1>1. g \in Surjection(U, V)
  BY DEF Surjection
<1> HIDE DEF g
<1> QED BY <1>1, FS_Surjection

\* Of a longer sequence of moments, the least is less and the greatest greater.
LEMMA Wider ==
  ASSUME NEW f, NEW m \in Nat, NEW n \in Nat, NEW k \in Nat, m <= n, n <= k,
         NEW S, S = {f[i] : i \in m..n}, NEW T, T = {f[i] : i \in m..k},
         \A i \in m..k : f[i] \in Int
  PROVE  /\ Min(S) \in Int /\ Max(S) \in Int /\ Min(T) \in Int /\ Max(T) \in Int
         /\ Min(T) <= Min(S) /\ Max(S) <= Max(T)
         /\ \A i \in m..n : Min(S) <= f[i] /\ f[i] <= Max(S)
<1>1. IsFiniteSet(m..n) /\ IsFiniteSet(m..k)
  BY FS_Interval
<1>2. IsFiniteSet(S) /\ IsFiniteSet(T)
  BY <1>1, FiniteImage
<1>3. S \subseteq T /\ T \subseteq Int /\ S # {} /\ T # {}
  <2>1. m \in m..n
    OBVIOUS
  <2> QED BY <2>1
<1>4. /\ Min(S) \in S /\ \A x \in S : Min(S) <= x
      /\ Max(S) \in S /\ \A x \in S : Max(S) >= x
  BY <1>2, <1>3, Extremes
<1>5. /\ Min(T) \in T /\ \A x \in T : Min(T) <= x
      /\ Max(T) \in T /\ \A x \in T : Max(T) >= x
  BY <1>2, <1>3, Extremes
<1>6. \A i \in m..n : f[i] \in S
  OBVIOUS
<1> QED BY <1>3, <1>4, <1>5, <1>6

-----------------------------------------------------------------------------
(* What a report has read *)

\* Prices and numbers of rows can be summed.
RowsPriced(rows) == IsFiniteSet(rows) /\ \A x \in rows : x.price \in Nat

OrderPriced(o) == o.target \in Nat /\ o.quantity \in Nat

\* What a call has found is to be priced, and what it has inserted is.
CallPriced(w) ==
  /\ w.pc = "found" => w.q.price \in Nat
  /\ w.pc = "inserted" /\ w.q.kind = "order" => \A n \in w.rows : OrderPriced(n.row)
  /\ w.pc = "inserted" /\ w.q.kind = "upload" => RowsPriced(w.rows)

TablePriced ==
  /\ IsFiniteSet(DOMAIN orders)
  /\ \A o \in DOMAIN orders : OrderPriced(orders[o])
  /\ \A i \in 1..Len(history) : RowsPriced(history[i])

IsReport(p) ==
  p = [pc |-> p.pc, left |-> p.left, order |-> p.order, best |-> p.best, total |-> p.total,
       count |-> p.count, of |-> p.of, since |-> p.since, until |-> p.until]

Reads(p) == p.pc \in {"listed", "counting"}

\* The sums of a report are bracketed for the orders it has read, from its first
\* statement until now, or until it answered; between the two statements about an
\* order, it holds what the first found.
ReportFits(p) ==
  /\ Reads(p) \/ p.pc = "answered" =>
       /\ p.of \subseteq DOMAIN orders /\ p.left \subseteq p.of
       /\ p.total \in Int /\ p.count \in Int
       /\ p.since \in 1..Len(history)
  /\ Reads(p) => Bracketed(p, p.of \ p.left, p.since .. Len(history))
  /\ p.pc = "counting" =>
       /\ p.order \in p.left
       /\ \E i \in p.since .. Len(history) : p.best = Prices(history[i], p.order)
  /\ p.pc = "answered" =>
       /\ p.until \in p.since .. Len(history)
       /\ Bracketed(p, p.of, p.since .. p.until)

PricedInv == TablePriced /\ \A c \in Calls : CallPriced(work[c])

ReportInv ==
  /\ DOMAIN report = Reporters
  /\ \A r \in Reporters : IsReport(report[r]) /\ ReportFits(report[r])

LEMMA RowsCounted ==
  ASSUME NEW rows, RowsPriced(rows), NEW o
  PROVE  Cardinality(RowsOf(rows, o)) \in Nat /\ Prices(rows, o) \subseteq Nat
<1>1. RowsOf(rows, o) \subseteq rows
  BY DEF RowsOf
<1>2. IsFiniteSet(RowsOf(rows, o))
  BY <1>1, FS_Subset DEF RowsPriced
<1> QED BY <1>1, <1>2, FS_CardinalityType DEF RowsPriced, Prices

LEMMA SavingIsInt ==
  ASSUME NEW o, OrderPriced(o), NEW best, best \subseteq Nat
  PROVE  Saving(o, best) \in Int
<1>1. CASE best = {}
  BY <1>1 DEF Saving
<1>2. CASE best # {}
  <2>1. PICK n \in best : \A m \in best : n <= m
    BY <1>2, LeastNat
  <2>2. Min(best) \in Nat
    BY <2>1 DEF Min
  <2>3. o.target - Min(best) \in Int /\ o.quantity \in Int
    BY <2>2 DEF OrderPriced
  <2>4. (o.target - Min(best)) * o.quantity \in Int
    BY <2>3
  <2> QED BY <2>4 DEF Saving
<1> QED BY <1>1, <1>2

\* A set T of what could have been found reaches at least as far as S.
Widens(S, T) ==
  /\ Min(S) \in Int /\ Max(S) \in Int /\ Min(T) \in Int /\ Max(T) \in Int
  /\ Min(T) <= Min(S) /\ Max(S) <= Max(T)

\* With the moments that pass, what a report could have found of an order widens.
LEMMA OrderWidens ==
  ASSUME Grows, TablePriced, TablePriced', Len(history) \in Nat, Len(history') \in Nat,
         NEW o \in DOMAIN orders, NEW m \in 1..Len(history), NEW n \in m..Len(history),
         NEW k \in n..Len(history')
  PROVE  /\ Widens(Savings(o, m..n), Savings(o, m..k)')
         /\ Widens(Counts(o, m..n), Counts(o, m..k)')
<1>1. /\ m \in Nat /\ n \in Nat /\ k \in Nat /\ m <= n /\ n <= k
      /\ \A i \in m..n : i \in 1..Len(history) /\ history'[i] = history[i]
      /\ \A i \in m..k : i \in 1..Len(history')
      /\ o \in DOMAIN orders' /\ orders'[o] = orders[o]
  BY DEF Grows
<1>2. \A i \in m..k : Cardinality(RowsOf(history'[i], o)) \in Int /\ Prices(history'[i], o) \subseteq Nat
  <2> SUFFICES ASSUME NEW i \in m..k
               PROVE  Cardinality(RowsOf(history'[i], o)) \in Int /\ Prices(history'[i], o) \subseteq Nat
    OBVIOUS
  <2>1. RowsPriced(history'[i])
    BY <1>1 DEF TablePriced
  <2> QED BY <2>1, RowsCounted
<1>3. \A i \in m..k : Saving(orders'[o], Prices(history'[i], o)) \in Int
  <2>1. OrderPriced(orders'[o])
    BY <1>1 DEF TablePriced
  <2> QED BY <1>2, <2>1, SavingIsInt
<1>4. Widens(Savings(o, m..n), Savings(o, m..k)')
  <2>1. PICK f : f = [i \in m..k |-> Saving(orders'[o], Prices(history'[i], o))]
    OBVIOUS
  <2>2. \A i \in m..k : f[i] = Saving(orders'[o], Prices(history'[i], o)) /\ f[i] \in Int
    BY <1>3, <2>1
  <2>3. \A i \in m..n : i \in m..k /\ f[i] = Saving(orders[o], Prices(history[i], o))
    BY <1>1, <2>2
  <2>4. Savings(o, m..k)' = {f[i] : i \in m..k}
    BY <2>2 DEF Savings
  <2>5. Savings(o, m..n) = {f[i] : i \in m..n}
    BY <2>3 DEF Savings
  <2>6. PICK S : S = Savings(o, m..n)
    OBVIOUS
  <2>7. PICK T : T = Savings(o, m..k)'
    OBVIOUS
  <2>8. Widens(S, T)
    BY <1>1, <2>2, <2>4, <2>5, <2>6, <2>7, Wider DEF Widens
  <2> QED BY <2>6, <2>7, <2>8
<1>5. Widens(Counts(o, m..n), Counts(o, m..k)')
  <2>1. PICK f : f = [i \in m..k |-> Cardinality(RowsOf(history'[i], o))]
    OBVIOUS
  <2>2. \A i \in m..k : f[i] = Cardinality(RowsOf(history'[i], o)) /\ f[i] \in Int
    BY <1>2, <2>1
  <2>3. \A i \in m..n : i \in m..k /\ f[i] = Cardinality(RowsOf(history[i], o))
    BY <1>1, <2>2
  <2>4. Counts(o, m..k)' = {f[i] : i \in m..k}
    BY <2>2 DEF Counts
  <2>5. Counts(o, m..n) = {f[i] : i \in m..n}
    BY <2>3 DEF Counts
  <2>6. PICK S : S = Counts(o, m..n)
    OBVIOUS
  <2>7. PICK T : T = Counts(o, m..k)'
    OBVIOUS
  <2>8. Widens(S, T)
    BY <1>1, <2>2, <2>4, <2>5, <2>6, <2>7, Wider DEF Widens
  <2> QED BY <2>6, <2>7, <2>8
<1> QED BY <1>4, <1>5

\* Sums of widened bounds still bracket.
LEMMA BoundsStay ==
  ASSUME NEW of, IsFiniteSet(of), NEW n \in Int,
         NEW lo, NEW hi, NEW low, NEW high,
         DOMAIN lo = of, DOMAIN hi = of, DOMAIN low = of, DOMAIN high = of,
         \A o \in of : /\ lo[o] \in Int /\ hi[o] \in Int /\ low[o] \in Int /\ high[o] \in Int
                       /\ low[o] <= lo[o] /\ hi[o] <= high[o],
         Total(lo) <= n, n <= Total(hi)
  PROVE  Total(low) <= n /\ n <= Total(high)
<1>1. Total(lo) \in Int /\ Total(hi) \in Int /\ Total(low) \in Int /\ Total(high) \in Int
  BY TotalInt
<1>2. Total(low) <= Total(lo)
  BY TotalGrows
<1>3. Total(hi) <= Total(high)
  BY TotalGrows
<1> QED BY <1>1, <1>2, <1>3

LEMMA BracketStays ==
  ASSUME Grows, TablePriced, TablePriced', Len(history) \in Nat, Len(history') \in Nat,
         NEW of, of \subseteq DOMAIN orders, NEW m \in 1..Len(history), NEW n \in m..Len(history),
         NEW k \in n..Len(history'), NEW p, p.total \in Int, p.count \in Int,
         Bracketed(p, of, m..n)
  PROVE  Bracketed(p, of, m..k)'
<1>1. IsFiniteSet(of)
  BY FS_Subset DEF TablePriced
<1>2. \A o \in of : /\ Widens(Savings(o, m..n), Savings(o, m..k)')
                    /\ Widens(Counts(o, m..n), Counts(o, m..k)')
  BY OrderWidens
<1>3. /\ Total([o \in of |-> Min(Savings(o, m..k)')]) <= p.total
      /\ p.total <= Total([o \in of |-> Max(Savings(o, m..k)')])
  <2>1. PICK lo, hi, low, high :
          /\ lo = [o \in of |-> Min(Savings(o, m..n))] /\ hi = [o \in of |-> Max(Savings(o, m..n))]
          /\ low = [o \in of |-> Min(Savings(o, m..k)')] /\ high = [o \in of |-> Max(Savings(o, m..k)')]
    OBVIOUS
  <2>2. \A o \in of : /\ lo[o] \in Int /\ hi[o] \in Int /\ low[o] \in Int /\ high[o] \in Int
                      /\ low[o] <= lo[o] /\ hi[o] <= high[o]
    BY <1>2, <2>1 DEF Widens
  <2>3. DOMAIN lo = of /\ DOMAIN hi = of /\ DOMAIN low = of /\ DOMAIN high = of
    BY <2>1
  <2>4. Total(lo) <= p.total /\ p.total <= Total(hi)
    BY <2>1 DEF Bracketed
  <2>5. Total(low) <= p.total /\ p.total <= Total(high)
    BY <1>1, <2>2, <2>3, <2>4, BoundsStay
  <2> QED BY <2>1, <2>5
<1>4. /\ Total([o \in of |-> Min(Counts(o, m..k)')]) <= p.count
      /\ p.count <= Total([o \in of |-> Max(Counts(o, m..k)')])
  <2>1. PICK lo, hi, low, high :
          /\ lo = [o \in of |-> Min(Counts(o, m..n))] /\ hi = [o \in of |-> Max(Counts(o, m..n))]
          /\ low = [o \in of |-> Min(Counts(o, m..k)')] /\ high = [o \in of |-> Max(Counts(o, m..k)')]
    OBVIOUS
  <2>2. \A o \in of : /\ lo[o] \in Int /\ hi[o] \in Int /\ low[o] \in Int /\ high[o] \in Int
                      /\ low[o] <= lo[o] /\ hi[o] <= high[o]
    BY <1>2, <2>1 DEF Widens
  <2>3. DOMAIN lo = of /\ DOMAIN hi = of /\ DOMAIN low = of /\ DOMAIN high = of
    BY <2>1
  <2>4. Total(lo) <= p.count /\ p.count <= Total(hi)
    BY <2>1 DEF Bracketed
  <2>5. Total(low) <= p.count /\ p.count <= Total(high)
    BY <1>1, <2>2, <2>3, <2>4, BoundsStay
  <2> QED BY <2>1, <2>5
<1> QED BY <1>3, <1>4 DEF Bracketed

\* What a report has read stays bracketed, whatever is committed meanwhile.
LEMMA ReportStays ==
  ASSUME Grows, TablePriced, TablePriced', Len(history) \in Nat, Len(history') \in Nat,
         NEW p, ReportFits(p)
  PROVE  ReportFits(p)'
<1>1. Len(history) <= Len(history')
  BY DEF Grows
<1>2. Reads(p) \/ p.pc = "answered" =>
        /\ p.of \subseteq DOMAIN orders /\ p.left \subseteq p.of
        /\ p.total \in Int /\ p.count \in Int
        /\ p.since \in 1..Len(history)
  BY DEF ReportFits
<1>3. ASSUME Reads(p) \/ p.pc = "answered"
      PROVE  p.of \subseteq DOMAIN orders' /\ p.since \in 1..Len(history')
  BY <1>1, <1>2, <1>3 DEF Grows
<1>4. ASSUME Reads(p) PROVE Bracketed(p, p.of \ p.left, p.since .. Len(history))'
  <2>1. PICK of, m, n, k : /\ of = p.of \ p.left /\ m = p.since
                           /\ n = Len(history) /\ k = Len(history')
    OBVIOUS
  <2>2. /\ of \subseteq DOMAIN orders /\ m \in 1..Len(history) /\ n \in m..Len(history)
        /\ k \in n..Len(history') /\ p.total \in Int /\ p.count \in Int
    BY <1>1, <1>2, <1>4, <2>1
  <2>3. Bracketed(p, of, m..n)
    BY <1>4, <2>1 DEF ReportFits
  <2>4. Bracketed(p, of, m..k)'
    BY <2>2, <2>3, BracketStays
  <2> QED BY <2>1, <2>4
<1>5. ASSUME p.pc = "answered"
      PROVE  p.until \in p.since .. Len(history') /\ Bracketed(p, p.of, p.since .. p.until)'
  <2>1. PICK of, m, n : of = p.of /\ m = p.since /\ n = p.until
    OBVIOUS
  <2>2. n \in m..Len(history) /\ Bracketed(p, of, m..n)
    BY <1>5, <2>1 DEF ReportFits
  <2>3. /\ of \subseteq DOMAIN orders /\ m \in 1..Len(history) /\ n \in n..Len(history')
        /\ p.total \in Int /\ p.count \in Int /\ n \in m..Len(history')
    BY <1>1, <1>2, <1>5, <2>1, <2>2
  <2>4. Bracketed(p, of, m..n)'
    BY <2>2, <2>3, BracketStays
  <2> QED BY <2>1, <2>3, <2>4
<1>6. ASSUME p.pc = "counting"
      PROVE  \E i \in p.since .. Len(history') : p.best = Prices(history'[i], p.order)
  <2>1. PICK i \in p.since .. Len(history) : p.best = Prices(history[i], p.order)
    BY <1>6 DEF ReportFits
  <2>2. i \in 1..Len(history) /\ i \in p.since .. Len(history')
    BY <1>1, <1>2, <1>6 DEF Reads
  <2>3. history'[i] = history[i]
    BY <2>2 DEF Grows
  <2> QED BY <2>1, <2>2, <2>3
<1>7. p.pc = "counting" => p.order \in p.left
  BY DEF ReportFits
<1> QED BY <1>2, <1>3, <1>4, <1>5, <1>6, <1>7 DEF ReportFits

\* Adding what one more order had at a moment in between.
AddsOrder(of, x, d, lo, hi, low, high) ==
  /\ DOMAIN lo = of /\ DOMAIN hi = of /\ DOMAIN low = of \cup {x} /\ DOMAIN high = of \cup {x}
  /\ \A o \in of : low[o] = lo[o] /\ high[o] = hi[o]
  /\ \A o \in of \cup {x} : low[o] \in Int /\ high[o] \in Int
  /\ low[x] <= d /\ d <= high[x]

IsBetween(lo, n, hi) == Total(lo) <= n /\ n <= Total(hi)

LEMMA BoundsAdd ==
  ASSUME NEW of, IsFiniteSet(of), NEW x, x \notin of, NEW n \in Int, NEW d \in Int,
         NEW lo, NEW hi, NEW low, NEW high, AddsOrder(of, x, d, lo, hi, low, high),
         IsBetween(lo, n, hi)
  PROVE  IsBetween(low, n + d, high)
<1>1. of = (of \cup {x}) \ {x} /\ IsFiniteSet(of \cup {x})
  BY FS_AddElement
<1>2. Total(low) = low[x] + Total(lo)
  BY <1>1, TotalAdds DEF AddsOrder
<1>3. Total(high) = high[x] + Total(hi)
  BY <1>1, TotalAdds DEF AddsOrder
<1>4. Total(lo) \in Int /\ Total(hi) \in Int
  BY TotalInt DEF AddsOrder
<1> QED BY <1>2, <1>3, <1>4 DEF AddsOrder, IsBetween

\* What was found of an order at a moment is between the least and the greatest.
LEMMA FoundBetween ==
  ASSUME TablePriced, NEW o \in DOMAIN orders, Len(history) \in Nat,
         NEW m \in 1..Len(history), NEW n \in m..Len(history), NEW i \in m..n
  PROVE  /\ LET s == Saving(orders[o], Prices(history[i], o))
            IN  /\ Min(Savings(o, m..n)) \in Int /\ Max(Savings(o, m..n)) \in Int /\ s \in Int
                /\ Min(Savings(o, m..n)) <= s /\ s <= Max(Savings(o, m..n))
         /\ LET s == Cardinality(RowsOf(history[i], o))
            IN  /\ Min(Counts(o, m..n)) \in Int /\ Max(Counts(o, m..n)) \in Int /\ s \in Int
                /\ Min(Counts(o, m..n)) <= s /\ s <= Max(Counts(o, m..n))
<1>1. m \in Nat /\ n \in Nat /\ m <= n /\ \A j \in m..n : j \in 1..Len(history)
  OBVIOUS
<1>2. \A j \in m..n : Cardinality(RowsOf(history[j], o)) \in Int /\ Prices(history[j], o) \subseteq Nat
  <2> SUFFICES ASSUME NEW j \in m..n
               PROVE  Cardinality(RowsOf(history[j], o)) \in Int /\ Prices(history[j], o) \subseteq Nat
    OBVIOUS
  <2>1. RowsPriced(history[j])
    BY <1>1 DEF TablePriced
  <2> QED BY <2>1, RowsCounted
<1>3. \A j \in m..n : Saving(orders[o], Prices(history[j], o)) \in Int
  <2>1. OrderPriced(orders[o])
    BY DEF TablePriced
  <2> QED BY <1>2, <2>1, SavingIsInt
<1>4. ASSUME NEW f, \A j \in m..n : f[j] \in Int, NEW S, S = {f[j] : j \in m..n}
      PROVE  /\ Min(S) \in Int /\ Max(S) \in Int
             /\ \A j \in m..n : Min(S) <= f[j] /\ f[j] <= Max(S)
  <2>1. n <= n
    BY <1>1
  <2> QED BY <1>1, <1>4, <2>1, Wider
<1>5. LET s == Saving(orders[o], Prices(history[i], o))
      IN  /\ Min(Savings(o, m..n)) \in Int /\ Max(Savings(o, m..n)) \in Int /\ s \in Int
          /\ Min(Savings(o, m..n)) <= s /\ s <= Max(Savings(o, m..n))
  <2>1. PICK f : f = [j \in m..n |-> Saving(orders[o], Prices(history[j], o))]
    OBVIOUS
  <2>2. \A j \in m..n : f[j] = Saving(orders[o], Prices(history[j], o)) /\ f[j] \in Int
    BY <1>3, <2>1
  <2>3. PICK S : S = Savings(o, m..n)
    OBVIOUS
  <2>4. S = {f[j] : j \in m..n}
    BY <2>2, <2>3 DEF Savings
  <2>5. /\ Min(S) \in Int /\ Max(S) \in Int
        /\ \A j \in m..n : Min(S) <= f[j] /\ f[j] <= Max(S)
    BY <1>4, <2>2, <2>4
  <2> QED BY <2>2, <2>3, <2>5
<1>6. LET s == Cardinality(RowsOf(history[i], o))
      IN  /\ Min(Counts(o, m..n)) \in Int /\ Max(Counts(o, m..n)) \in Int /\ s \in Int
          /\ Min(Counts(o, m..n)) <= s /\ s <= Max(Counts(o, m..n))
  <2>1. PICK f : f = [j \in m..n |-> Cardinality(RowsOf(history[j], o))]
    OBVIOUS
  <2>2. \A j \in m..n : f[j] = Cardinality(RowsOf(history[j], o)) /\ f[j] \in Int
    BY <1>2, <2>1
  <2>3. PICK S : S = Counts(o, m..n)
    OBVIOUS
  <2>4. S = {f[j] : j \in m..n}
    BY <2>2, <2>3 DEF Counts
  <2>5. /\ Min(S) \in Int /\ Max(S) \in Int
        /\ \A j \in m..n : Min(S) <= f[j] /\ f[j] <= Max(S)
    BY <1>4, <2>2, <2>4
  <2> QED BY <2>2, <2>3, <2>5
<1> QED BY <1>5, <1>6

LEMMA BracketAdds ==
  ASSUME TablePriced, Len(history) \in Nat, NEW of, of \subseteq DOMAIN orders,
         NEW m \in 1..Len(history), NEW n \in m..Len(history), NEW i \in m..n, NEW j \in m..n,
         NEW x \in DOMAIN orders \ of, NEW p, p.total \in Int, p.count \in Int,
         Bracketed(p, of, m..n),
         NEW new, new.total = p.total + Saving(orders[x], Prices(history[i], x)),
         new.count = p.count + Cardinality(RowsOf(history[j], x))
  PROVE  Bracketed(new, of \cup {x}, m..n) /\ new.total \in Int /\ new.count \in Int
<1>1. IsFiniteSet(of)
  BY FS_Subset DEF TablePriced
<1>2. \A o \in DOMAIN orders :
        /\ Min(Savings(o, m..n)) \in Int /\ Max(Savings(o, m..n)) \in Int
        /\ Min(Counts(o, m..n)) \in Int /\ Max(Counts(o, m..n)) \in Int
  BY FoundBetween
<1>3. /\ Total([o \in of \cup {x} |-> Min(Savings(o, m..n))]) <= new.total
      /\ new.total <= Total([o \in of \cup {x} |-> Max(Savings(o, m..n))])
      /\ new.total \in Int
  <2>1. PICK d : d = Saving(orders[x], Prices(history[i], x))
    OBVIOUS
  <2>2. d \in Int /\ Min(Savings(x, m..n)) <= d /\ d <= Max(Savings(x, m..n))
    BY <2>1, FoundBetween
  <2>3. PICK lo, hi, low, high :
          /\ lo = [o \in of |-> Min(Savings(o, m..n))] /\ hi = [o \in of |-> Max(Savings(o, m..n))]
          /\ low = [o \in of \cup {x} |-> Min(Savings(o, m..n))]
          /\ high = [o \in of \cup {x} |-> Max(Savings(o, m..n))]
    OBVIOUS
  <2>4. AddsOrder(of, x, d, lo, hi, low, high)
    BY <1>2, <2>2, <2>3 DEF AddsOrder
  <2>5. PICK t : t = p.total /\ t \in Int
    OBVIOUS
  <2>6. IsBetween(lo, t, hi)
    BY <2>3, <2>5 DEF Bracketed, IsBetween
  <2>7. IsBetween(low, t + d, high)
    BY <1>1, <2>2, <2>4, <2>5, <2>6, BoundsAdd
  <2>8. low[x] \in Int /\ new.total = t + d
    BY <2>1, <2>4, <2>5 DEF AddsOrder
  <2> QED BY <2>2, <2>3, <2>5, <2>7, <2>8 DEF IsBetween
<1>4. /\ Total([o \in of \cup {x} |-> Min(Counts(o, m..n))]) <= new.count
      /\ new.count <= Total([o \in of \cup {x} |-> Max(Counts(o, m..n))])
      /\ new.count \in Int
  <2>1. PICK d : d = Cardinality(RowsOf(history[j], x))
    OBVIOUS
  <2>2. d \in Int /\ Min(Counts(x, m..n)) <= d /\ d <= Max(Counts(x, m..n))
    BY <2>1, FoundBetween
  <2>3. PICK lo, hi, low, high :
          /\ lo = [o \in of |-> Min(Counts(o, m..n))] /\ hi = [o \in of |-> Max(Counts(o, m..n))]
          /\ low = [o \in of \cup {x} |-> Min(Counts(o, m..n))]
          /\ high = [o \in of \cup {x} |-> Max(Counts(o, m..n))]
    OBVIOUS
  <2>4. AddsOrder(of, x, d, lo, hi, low, high)
    BY <1>2, <2>2, <2>3 DEF AddsOrder
  <2>5. PICK t : t = p.count /\ t \in Int
    OBVIOUS
  <2>6. IsBetween(lo, t, hi)
    BY <2>3, <2>5 DEF Bracketed, IsBetween
  <2>7. IsBetween(low, t + d, high)
    BY <1>1, <2>2, <2>4, <2>5, <2>6, BoundsAdd
  <2>8. low[x] \in Int /\ new.count = t + d
    BY <2>1, <2>4, <2>5 DEF AddsOrder
  <2> QED BY <2>2, <2>3, <2>5, <2>7, <2>8 DEF IsBetween
<1> QED BY <1>3, <1>4 DEF Bracketed

\* Before any order is read the sums are zero.
LEMMA NothingRead ==
  ASSUME NEW p, p.total = 0, p.count = 0, NEW when
  PROVE  Bracketed(p, {}, when)
<1>1. \A f : DOMAIN f = {} => Total(f) = 0
  BY TotalOfNone
<1>2. /\ Total([o \in {} |-> Min(Savings(o, when))]) = 0
      /\ Total([o \in {} |-> Max(Savings(o, when))]) = 0
      /\ Total([o \in {} |-> Min(Counts(o, when))]) = 0
      /\ Total([o \in {} |-> Max(Counts(o, when))]) = 0
  BY <1>1
<1> QED BY <1>2 DEF Bracketed

\* The four statements of a report, and its end.
LEMMA ReporterKeeps ==
  ASSUME TablePriced, Len(history) \in Nat \ {0}, NEW r \in Reporters,
         IsReport(report[r]), ReportFits(report[r]), ReporterStep(r) \/ AbortReport(r)
  PROVE  \E new : ReportStep(r, new) /\ IsReport(new) /\ ReportFits(new)
<1> DEFINE now == Len(history)
<1>1. PICK p : p = report[r]
  OBVIOUS
<1>2. IsReport(p) /\ ReportFits(p)
  BY <1>1
<1>3. PICK pc, left, order, best, total, count, of, since, until :
        p = [pc |-> pc, left |-> left, order |-> order, best |-> best, total |-> total,
             count |-> count, of |-> of, since |-> since, until |-> until]
  BY <1>2 DEF IsReport
<1>4. CASE ListOrders(r)
  <2>1. PICK mine : /\ mine \subseteq DOMAIN orders
                    /\ ReportStep(r, [NoReport EXCEPT !.pc = "listed", !.left = mine, !.of = mine,
                                                      !.since = now])
    BY <1>4 DEF ListOrders
  <2>2. PICK new : new = [NoReport EXCEPT !.pc = "listed", !.left = mine, !.of = mine, !.since = now]
    OBVIOUS
  <2>3. new = [pc |-> "listed", left |-> mine, order |-> 0, best |-> {}, total |-> 0,
               count |-> 0, of |-> mine, since |-> now, until |-> 0]
    BY <2>2 DEF NoReport
  <2>4. IsReport(new)
    BY <2>3 DEF IsReport
  <2>5. Bracketed(new, {}, new.since .. now)
    BY <2>3, NothingRead
  <2>6. new.of \ new.left = {} /\ new.pc = "listed"
    BY <2>3
  <2>7. /\ new.of \subseteq DOMAIN orders /\ new.left \subseteq new.of
        /\ new.total \in Int /\ new.count \in Int /\ new.since \in 1..now
    BY <2>1, <2>3
  <2>8. ReportFits(new)
    BY <2>5, <2>6, <2>7 DEF ReportFits, Reads
  <2> QED BY <2>1, <2>2, <2>4, <2>8
<1>5. CASE ReadBest(r)
  <2>1. PICK o \in left : /\ pc = "listed"
                          /\ ReportStep(r, [p EXCEPT !.pc = "counting", !.order = o,
                                                     !.best = Prices(results, o)])
    <3>1. PICK o \in p.left : /\ p.pc = "listed"
                              /\ ReportStep(r, [report[r] EXCEPT !.pc = "counting", !.order = o,
                                                                !.best = Prices(results, o)])
      BY <1>1, <1>5 DEF ReadBest
    <3>2. p.pc = pc /\ p.left = left
      BY <1>3
    <3> QED BY <1>1, <3>1, <3>2
  <2>2. PICK new, b : b = Prices(results, o)
                      /\ new = [p EXCEPT !.pc = "counting", !.order = o, !.best = b]
    OBVIOUS
  <2>3. new = [pc |-> "counting", left |-> left, order |-> o, best |-> b, total |-> total,
               count |-> count, of |-> of, since |-> since, until |-> until]
    BY <1>3, <2>2
  <2>4. /\ of \subseteq DOMAIN orders /\ left \subseteq of
        /\ total \in Int /\ count \in Int /\ since \in 1..now
        /\ Bracketed(p, of \ left, since .. now)
    BY <1>2, <1>3, <2>1 DEF ReportFits, Reads
  <2>5. Bracketed(new, of \ left, since .. now)
    BY <1>3, <2>3, <2>4 DEF Bracketed
  <2>6. IsReport(new)
    BY <2>3 DEF IsReport
  <2>7. now \in since .. now /\ b = Prices(history[now], o)
    BY <2>2, <2>4 DEF results
  <2>8. ReportFits(new)
    BY <2>3, <2>4, <2>5, <2>7 DEF ReportFits, Reads
  <2> QED BY <2>1, <2>2, <2>6, <2>8
<1>6. CASE ReadCount(r)
  <2>1. PICK d, n : d = Saving(orders[order], best) /\ n = Cardinality(RowsOf(results, order))
    OBVIOUS
  <2>2. PICK new : new = [p EXCEPT !.pc = "listed", !.left = @ \ {order}, !.total = @ + d, !.count = @ + n]
    OBVIOUS
  <2>3. pc = "counting" /\ ReportStep(r, new)
    BY <1>1, <1>3, <1>6, <2>1, <2>2 DEF ReadCount
  <2>4. new = [pc |-> "listed", left |-> left \ {order}, order |-> order, best |-> best,
               total |-> total + d, count |-> count + n, of |-> of, since |-> since, until |-> until]
    BY <1>3, <2>2
  <2>5. /\ of \subseteq DOMAIN orders /\ left \subseteq of /\ order \in left
        /\ total \in Int /\ count \in Int /\ since \in 1..now
        /\ Bracketed(p, of \ left, since .. now)
        /\ \E i \in since .. now : best = Prices(history[i], order)
    BY <1>2, <1>3, <2>3 DEF ReportFits, Reads
  <2>6. PICK i \in since .. now : best = Prices(history[i], order)
    BY <2>5
  <2>7. PICK done : done = of \ left
    OBVIOUS
  <2>8. /\ done \subseteq DOMAIN orders /\ order \in DOMAIN orders \ done
        /\ of \ (left \ {order}) = done \cup {order}
        /\ now \in since .. now
    BY <2>5, <2>7
  <2>9. /\ new.total = p.total + Saving(orders[order], Prices(history[i], order))
        /\ new.count = p.count + Cardinality(RowsOf(history[now], order))
        /\ p.total \in Int /\ p.count \in Int
    BY <1>3, <2>1, <2>4, <2>5, <2>6 DEF results
  <2>10. Bracketed(p, done, since .. now)
    BY <2>5, <2>7
  <2>11. Bracketed(new, done \cup {order}, since .. now) /\ new.total \in Int /\ new.count \in Int
    BY <2>5, <2>8, <2>9, <2>10, BracketAdds
  <2>12. IsReport(new)
    BY <2>4 DEF IsReport
  <2>13. /\ new.pc = "listed" /\ new.of = of /\ new.left = left \ {order} /\ new.since = since
         /\ new.left \subseteq new.of
    BY <2>4, <2>5
  <2>14. Bracketed(new, new.of \ new.left, new.since .. now)
    BY <2>8, <2>11, <2>13
  <2>15. ReportFits(new)
    BY <2>5, <2>11, <2>13, <2>14 DEF ReportFits, Reads
  <2> QED BY <2>3, <2>12, <2>15
<1>7. CASE Answer(r)
  <2>1. PICK new : new = [p EXCEPT !.pc = "answered", !.until = now]
    OBVIOUS
  <2>2. pc = "listed" /\ left = {} /\ ReportStep(r, new)
    BY <1>1, <1>3, <1>7, <2>1 DEF Answer
  <2>3. new = [pc |-> "answered", left |-> left, order |-> order, best |-> best, total |-> total,
               count |-> count, of |-> of, since |-> since, until |-> now]
    BY <1>3, <2>1
  <2>4. /\ of \subseteq DOMAIN orders /\ total \in Int /\ count \in Int /\ since \in 1..now
        /\ Bracketed(p, of \ left, since .. now)
    BY <1>2, <1>3, <2>2 DEF ReportFits, Reads
  <2>5. of \ left = of /\ left \subseteq of /\ now \in since .. now
    BY <2>2, <2>4
  <2>6. Bracketed(new, of, since .. now)
    BY <1>3, <2>3, <2>4, <2>5 DEF Bracketed
  <2>7. IsReport(new)
    BY <2>3 DEF IsReport
  <2>8. ReportFits(new)
    BY <2>3, <2>4, <2>5, <2>6 DEF ReportFits, Reads
  <2> QED BY <2>2, <2>7, <2>8
<1>8. CASE AbortReport(r)
  <2>1. PICK new : new = [NoReport EXCEPT !.pc = "aborted"]
    OBVIOUS
  <2>2. new = [pc |-> "aborted", left |-> {}, order |-> 0, best |-> {}, total |-> 0,
               count |-> 0, of |-> {}, since |-> 0, until |-> 0]
    BY <2>1 DEF NoReport
  <2>3. IsReport(new)
    BY <2>2 DEF IsReport
  <2>4. ReportFits(new)
    BY <2>2 DEF ReportFits, Reads
  <2> QED BY <1>8, <2>1, <2>3, <2>4 DEF AbortReport
<1> QED BY <1>4, <1>5, <1>6, <1>7, <1>8 DEF ReporterStep

-----------------------------------------------------------------------------
(* Every step *)

\* A call that neither found an order nor inserted anything has nothing to price.
LEMMA CallsStayPriced ==
  ASSUME ProcurementInv, PricedInv, NEW c \in Calls, CallPriced(work'[c]),
         \A d \in Calls : d # c => work'[d] = work[d], TablePriced'
  PROVE  PricedInv'
BY DEF PricedInv

\* A step that leaves orders, results and calls alone.
LEMMA TableStays ==
  ASSUME ProcurementInv, PricedInv, UNCHANGED <<orders, history>>
  PROVE  Grows /\ TablePriced'
BY DEF Grows, ProcurementInv, Shapes, PricedInv, TablePriced

\* A commit of results.
LEMMA TableAppended ==
  ASSUME ProcurementInv, PricedInv, UNCHANGED orders, NEW rows, RowsPriced(rows),
         history' = Append(history, rows)
  PROVE  Grows /\ TablePriced'
<1>1. Len(history) \in Nat \ {0} /\ history = [i \in 1..Len(history) |-> history[i]]
  BY DEF ProcurementInv, Shapes
<1>2. /\ Len(history') = Len(history) + 1
      /\ \A i \in 1..Len(history) : history'[i] = history[i]
      /\ history'[Len(history) + 1] = rows
  BY <1>1, AppendedHistory
<1>3. \A i \in 1..Len(history') : i \in 1..Len(history) \/ i = Len(history) + 1
  BY <1>1, <1>2
<1>4. \A i \in 1..Len(history') : RowsPriced(history'[i])
  BY <1>2, <1>3 DEF PricedInv, TablePriced
<1>5. Grows
  BY <1>1, <1>2 DEF Grows
<1> QED BY <1>4, <1>5 DEF PricedInv, TablePriced

LEMMA QuietCallPriced ==
  ASSUME ProcurementInv, PricedInv, UNCHANGED <<orders, history>>, NEW c \in Calls, NEW w,
         work' = [work EXCEPT ![c] = w], CallPriced(w)
  PROVE  Grows /\ PricedInv'
<1>1. work'[c] = w /\ \A d \in Calls : d # c => work'[d] = work[d]
  BY DEF ProcurementInv, Shapes
<1> QED BY <1>1, TableStays, CallsStayPriced

\* The steps of a call.
LEMMA BeginPriced ==
  ASSUME ProcurementInv, PricedInv, NEW c \in Calls, NEW q, NEW pc, Begin(c, q, pc),
         pc # "inserted", pc = "found" => q.price \in Nat
  PROVE  Grows /\ PricedInv'
<1>1. PICK w : w = [pc |-> pc, q |-> q, rows |-> work[c].rows, since |-> Len(history)]
  OBVIOUS
<1>2. work' = [work EXCEPT ![c] = w] /\ UNCHANGED <<orders, history>>
  BY <1>1, BeginWrites
<1>3. CallPriced(w)
  BY <1>1 DEF CallPriced
<1> QED BY <1>2, <1>3, QuietCallPriced

LEMMA FilledPriced ==
  ASSUME ProcurementInv, PricedInv, NEW c \in Calls, NEW pc, pc \notin {"found", "inserted"}, NEW rows,
         \/ work' = [work EXCEPT ![c].pc = pc, ![c].rows = rows]
         \/ work' = [work EXCEPT ![c].pc = pc],
         UNCHANGED <<orders, history>>
  PROVE  Grows /\ PricedInv'
<1>1. IsCall(work[c]) /\ DOMAIN work = Calls
  BY DEF ProcurementInv, Shapes
<1>2. PICK w : w.pc = pc /\ work' = [work EXCEPT ![c] = w]
  <2>1. CASE work' = [work EXCEPT ![c].pc = pc, ![c].rows = rows]
    <3>1. work' = [work EXCEPT ![c] = Filled(work[c], pc, rows)]
      BY <1>1, <2>1 DEF Filled
    <3>2. Filled(work[c], pc, rows).pc = pc
      BY <1>1, FilledCall
    <3> QED BY <3>1, <3>2
  <2>2. CASE work' = [work EXCEPT ![c].pc = pc]
    <3>1. work' = [work EXCEPT ![c] = Moved(work[c], pc)]
      BY <1>1, <2>2 DEF Moved
    <3>2. Moved(work[c], pc).pc = pc
      BY <1>1, MovedCall
    <3> QED BY <3>1, <3>2
  <2> QED BY <2>1, <2>2
<1>3. CallPriced(w)
  BY <1>2 DEF CallPriced
<1> QED BY <1>2, <1>3, QuietCallPriced

LEMMA InsertsPriced ==
  ASSUME ProcurementInv, PricedInv, NEW c \in Calls, NEW rows,
         work' = [work EXCEPT ![c].pc = "inserted", ![c].rows = rows],
         UNCHANGED <<orders, history>>,
         work[c].q.kind = "order" => \A n \in rows : OrderPriced(n.row),
         work[c].q.kind = "upload" => RowsPriced(rows)
  PROVE  Grows /\ PricedInv'
<1>1. IsCall(work[c]) /\ DOMAIN work = Calls
  BY DEF ProcurementInv, Shapes
<1>2. PICK w : w = [pc |-> "inserted", q |-> work[c].q, rows |-> rows, since |-> work[c].since]
  OBVIOUS
<1>3. work' = [work EXCEPT ![c] = Filled(work[c], "inserted", rows)]
  BY <1>1 DEF Filled
<1>4. work' = [work EXCEPT ![c] = w]
  BY <1>1, <1>2, <1>3, FilledCall
<1>5. CallPriced(w)
  BY <1>2 DEF CallPriced
<1> QED BY <1>4, <1>5, QuietCallPriced

LEMMA ProcurementCallPriced ==
  ASSUME ProcurementInv, PricedInv, NEW c \in Calls, ProcurementStep(c) \/ AbortWork(c)
  PROVE  Grows /\ PricedInv'
<1>1. CallFits(c) /\ CallPriced(work[c]) /\ IsCall(work[c]) /\ DOMAIN work = Calls
  BY DEF ProcurementInv, PricedInv, Shapes
<1>2. CASE Ordering(c)
  <2>1. PICK q \in Wants[c] : EnsureShop(c, q)
    BY <1>2 DEF Ordering
  <2>2. PICK pc \in {"checked", "not_found"} : Begin(c, q, pc)
    BY <2>1 DEF EnsureShop
  <2> QED BY <2>2, BeginPriced
<1>3. CASE Uploading(c)
  <2>1. PICK q \in Wants[c] : FindOrder(c, q)
    BY <1>3 DEF Uploading
  <2>2. q.price \in Nat
    BY <2>1, WantsAssumption DEF FindOrder
  <2>3. PICK pc \in {"found", "not_found"} : Begin(c, q, pc)
    BY <2>1 DEF FindOrder
  <2> QED BY <2>2, <2>3, BeginPriced
<1>4. CASE InsertOrder(c)
  <2>1. PICK row : row = [work[c].q.order EXCEPT !.tenant = TenantOf[c]]
    OBVIOUS
  <2>2. PICK id : id = seq'.order
    OBVIOUS
  <2>3. PICK rows : rows = {[id |-> id, row |-> row]}
    OBVIOUS
  <2>4. /\ work[c].pc = "checked" /\ UNCHANGED <<orders, history>>
        /\ work' = [work EXCEPT ![c].pc = "inserted", ![c].rows = rows]
    BY <1>4, <2>1, <2>2, <2>3 DEF InsertOrder
  <2>5. work[c].q.kind = "order" /\ work[c].q.order \in Order
    BY <1>1, <2>4 DEF CallFits
  <2>6. OrderPriced(row)
    BY <2>1, <2>5 DEF Order, OrderPriced
  <2>7. \A n \in rows : OrderPriced(n.row)
    BY <2>3, <2>6
  <2> QED BY <2>4, <2>5, <2>7, InsertsPriced
<1>5. CASE InsertResult(c)
  <2>1. PICK x : x = Uploaded(c, seq'.result)
    OBVIOUS
  <2>2. /\ work[c].pc = "found" /\ UNCHANGED <<orders, history>>
        /\ work' = [work EXCEPT ![c].pc = "inserted", ![c].rows = {x}]
    BY <1>5, <2>1 DEF InsertResult
  <2>3. work[c].q.kind = "upload" /\ work[c].q.price \in Nat
    BY <1>1, <2>2 DEF CallFits, CallPriced
  <2>4. x.price = work[c].q.price
    BY <2>1 DEF Uploaded
  <2>5. RowsPriced({x})
    BY <2>3, <2>4, FS_Singleton DEF RowsPriced
  <2> QED BY <2>2, <2>3, <2>5, InsertsPriced
<1>6. CASE CommitOrder(c)
  <2>1. PICK n \in work[c].rows :
          orders' = [o \in DOMAIN orders \cup {n.id} |-> IF o = n.id THEN n.row ELSE orders[o]]
    BY <1>6 DEF CommitOrder
  <2>2. /\ work[c].pc = "inserted" /\ work[c].q.kind = "order" /\ UNCHANGED history
        /\ work' = [work EXCEPT ![c] = Moved(work[c], "done")]
    BY <1>6 DEF CommitOrder, Moved
  <2>3. Grows
    <3>1. \A o \in DOMAIN orders : o \in DOMAIN orders' /\ orders'[o] = orders[o]
      BY <1>6, CommitOrderKeeps
    <3> QED BY <2>2, <3>1 DEF Grows, ProcurementInv, Shapes
  <2>4. OrderPriced(n.row)
    BY <1>1, <2>2 DEF CallPriced
  <2>5. IsFiniteSet(DOMAIN orders')
    <3>1. IsFiniteSet(DOMAIN orders \cup {n.id})
      BY FS_AddElement DEF PricedInv, TablePriced
    <3> QED BY <2>1, <3>1
  <2>6. \A o \in DOMAIN orders' : OrderPriced(orders'[o])
    BY <2>1, <2>4 DEF PricedInv, TablePriced
  <2>7. TablePriced'
    BY <2>2, <2>5, <2>6 DEF PricedInv, TablePriced
  <2>8. work'[c].pc = "done" /\ \A d \in Calls : d # c => work'[d] = work[d]
    BY <1>1, <2>2, MovedCall
  <2>9. CallPriced(work'[c])
    BY <2>8 DEF CallPriced
  <2> QED BY <2>3, <2>7, <2>8, <2>9, CallsStayPriced
<1>7. CASE CommitResult(c)
  <2>1. /\ work[c].pc = "inserted" /\ work[c].q.kind = "upload" /\ UNCHANGED orders
        /\ history' = Append(history, results \cup work[c].rows)
        /\ work' = [work EXCEPT ![c] = Moved(work[c], "done")]
    BY <1>7 DEF CommitResult, Moved
  <2>2. RowsPriced(results) /\ RowsPriced(work[c].rows)
    BY <1>1, <2>1 DEF CallPriced, PricedInv, TablePriced, ProcurementInv, Shapes, results
  <2>3. RowsPriced(results \cup work[c].rows)
    BY <2>2, FS_Union DEF RowsPriced
  <2>4. Grows /\ TablePriced'
    BY <2>1, <2>3, TableAppended
  <2>5. work'[c].pc = "done" /\ \A d \in Calls : d # c => work'[d] = work[d]
    BY <1>1, <2>1, MovedCall
  <2>6. CallPriced(work'[c])
    BY <2>5 DEF CallPriced
  <2> QED BY <2>4, <2>5, <2>6, CallsStayPriced
<1>8. CASE AbortWork(c)
  BY <1>8, FilledPriced DEF AbortWork
<1> QED BY <1>2, <1>3, <1>4, <1>5, <1>6, <1>7, <1>8 DEF ProcurementStep

\* A search only reads.
LEMMA SearchCallPriced ==
  ASSUME ProcurementInv, PricedInv, NEW c \in Calls, SearchStep(c)
  PROVE  Grows /\ PricedInv'
<1>1. CASE Searching(c)
  <2>1. PICK q \in Wants[c], pc \in {"purging", "reading"} : Begin(c, q, pc)
    BY <1>1 DEF Searching, StartSearch
  <2> QED BY <2>1, BeginPriced
<1>2. ASSUME NEW from, NEW to, to \notin {"found", "inserted"}, WorkStep(c, from, to)
      PROVE  Grows /\ PricedInv'
  BY <1>2, FilledPriced DEF WorkStep
<1>3. ASSUME NEW from, NEW entry, NEW cached, Reply(c, from, entry, cached)
      PROVE  Grows /\ PricedInv'
  BY <1>3, FilledPriced DEF Reply
<1>4. CASE ReadCache(c)
  BY <1>2, <1>3, <1>4 DEF ReadCache
<1>5. CASE Purge(c)
  BY <1>2, <1>5 DEF Purge
<1>6. CASE LoadMatches(c)
  BY <1>6, FilledPriced DEF LoadMatches
<1>7. CASE CountResults(c)
  <2>1. PICK rows : rows = {Entry(x.items, Hint(results, TenantOf[c], x.items)) : x \in work[c].rows}
    OBVIOUS
  <2>2. /\ work' = [work EXCEPT ![c].pc = "storing", ![c].rows = rows]
        /\ UNCHANGED <<orders, history>>
    BY <1>7, <2>1 DEF CountResults, ProcurementInv, Shapes
  <2> QED BY <2>2, FilledPriced
<1>8. CASE StoreAnswer(c)
  BY <1>3, <1>8 DEF StoreAnswer
<1> QED BY <1>1, <1>4, <1>5, <1>6, <1>7, <1>8 DEF SearchStep

LEMMA CollectPriced ==
  ASSUME ProcurementInv, PricedInv, NEW o \in DOMAIN orders, Collect(o)
  PROVE  Grows /\ PricedInv'
<1> DEFINE kept      == {r \in results : ~(r.order = o /\ r.canonical)}
           Row(i, f) == [id |-> seq.result + i, order |-> o, tenant |-> orders[o].tenant,
                         price |-> f.price, at |-> f.at, eligible |-> f.eligible,
                         canonical |-> TRUE]
<1>1. PICK offers \in Offers :
        history' = Append(history, kept \cup {Row(i, offers[i]) : i \in DOMAIN offers})
  BY DEF Collect
<1>2. UNCHANGED <<orders, work>>
  BY DEF Collect
<1>3. /\ DOMAIN offers = 1..Len(offers) /\ Len(offers) \in Nat
      /\ \A i \in DOMAIN offers : offers[i].price \in Nat
  <2>1. PICK T : T = [price : Nat, at : Nat, eligible : BOOLEAN]
    OBVIOUS
  <2>2. offers \in Seq(T)
    BY <2>1, OffersAssumption
  <2>3. \A i \in DOMAIN offers : offers[i] \in T
    BY <2>2
  <2>4. \A f \in T : f.price \in Nat
    BY <2>1
  <2> QED BY <2>2, <2>3, <2>4
<1>4. RowsPriced(kept)
  <2>1. RowsPriced(results)
    BY DEF PricedInv, TablePriced, ProcurementInv, Shapes, results
  <2>2. kept \subseteq results
    OBVIOUS
  <2> HIDE DEF kept
  <2> QED BY <2>1, <2>2, FS_Subset DEF RowsPriced
<1> DEFINE new == {Row(i, offers[i]) : i \in DOMAIN offers}
<1>5. RowsPriced(new)
  <2>1. PICK f : f = [i \in DOMAIN offers |-> Row(i, offers[i])]
    OBVIOUS
  <2>2. new = {f[i] : i \in DOMAIN offers}
    BY <2>1
  <2>3. IsFiniteSet(DOMAIN offers)
    BY <1>3, FS_Interval
  <2>4. \A x \in new : x.price \in Nat
    BY <1>3
  <2> HIDE DEF new
  <2> QED BY <2>2, <2>3, <2>4, FiniteImage DEF RowsPriced
<1> HIDE DEF kept, new
<1>6. RowsPriced(kept \cup new)
  BY <1>4, <1>5, FS_Union DEF RowsPriced
<1>7. history' = Append(history, kept \cup new)
  BY <1>1 DEF new
<1>8. Grows /\ TablePriced'
  BY <1>2, <1>6, <1>7, TableAppended
<1> QED BY <1>2, <1>8 DEF PricedInv

LEMMA StepPriced ==
  ASSUME ProcurementInv, PricedInv, [Next]_vars
  PROVE  Grows /\ PricedInv'
<1>1. ASSUME UNCHANGED <<orders, history, work>> PROVE Grows /\ PricedInv'
  BY <1>1, TableStays DEF PricedInv
<1>2. CASE QuotaStep
  BY <1>1, <1>2 DEF QuotaStep, procurementVars
<1>3. CASE ProcurementNext
  <2>1. ASSUME NEW r \in Reporters, ReporterStep(r) \/ AbortReport(r)
        PROVE  UNCHANGED <<orders, history, work>>
    BY <2>1 DEF ReporterStep, ListOrders, ReadBest, ReadCount, Answer, AbortReport, ReportStep
  <2> QED BY <1>1, <1>3, <2>1, ProcurementCallPriced, CollectPriced DEF ProcurementNext
<1>4. ASSUME NEW c \in Calls, SearchStep(c) PROVE Grows /\ PricedInv'
  BY <1>4, SearchCallPriced
<1>5. ASSUME NEW t \in Tenants, NEW k \in Keys, ExpireEntry(t, k) PROVE Grows /\ PricedInv'
  BY <1>1, <1>5 DEF ExpireEntry, procurementVars
<1>6. CASE UNCHANGED vars
  BY <1>1, <1>6 DEF vars, procurementVars
<1> QED BY <1>2, <1>3, <1>4, <1>5, <1>6 DEF Next

LEMMA StepReport ==
  ASSUME ProcurementInv, ProcurementInv', PricedInv, PricedInv', Grows, ReportInv, [Next]_vars
  PROVE  ReportInv'
<1>1. /\ TablePriced /\ TablePriced' /\ Len(history) \in Nat \ {0} /\ Len(history') \in Nat
      /\ DOMAIN report = Reporters
  BY DEF PricedInv, ProcurementInv, Shapes, ReportInv
<1>2. \A p : ReportFits(p) => ReportFits(p)'
  BY <1>1, ReportStays
<1>3. CASE UNCHANGED report
  <2>1. \A r \in Reporters : IsReport(report[r]) /\ ReportFits(report[r])
    BY DEF ReportInv
  <2>2. ASSUME NEW r \in Reporters PROVE IsReport(report'[r]) /\ ReportFits(report[r])'
    <3>1. PICK p : p = report[r] /\ p = report'[r]
      BY <1>3
    <3>2. IsReport(p) /\ ReportFits(p)'
      BY <1>2, <2>1, <3>1
    <3> QED BY <3>1, <3>2
  <2> QED BY <1>1, <1>3, <2>2 DEF ReportInv
<1>4. ASSUME NEW r \in Reporters, ReporterStep(r) \/ AbortReport(r)
      PROVE  ReportInv'
  <2>1. IsReport(report[r]) /\ ReportFits(report[r])
    BY DEF ReportInv
  <2>2. PICK new : ReportStep(r, new) /\ IsReport(new) /\ ReportFits(new)
    BY <1>1, <1>4, <2>1, ReporterKeeps
  <2>3. report' = [report EXCEPT ![r] = new]
    BY <2>2 DEF ReportStep
  <2>4. ASSUME NEW s \in Reporters PROVE IsReport(report'[s]) /\ ReportFits(report[s])'
    <3>1. PICK p : p = report'[s]
      OBVIOUS
    <3>2. p = new \/ p = report[s]
      BY <1>1, <2>3, <3>1
    <3>3. IsReport(p) /\ ReportFits(p)
      BY <2>2, <3>2 DEF ReportInv
    <3>4. ReportFits(p)'
      BY <1>2, <3>3
    <3> QED BY <3>1, <3>3, <3>4
  <2> QED BY <1>1, <2>3, <2>4 DEF ReportInv
<1>5. CASE QuotaStep
  BY <1>3, <1>5 DEF QuotaStep, procurementVars
<1>6. CASE ProcurementNext
  <2>1. ASSUME NEW c \in Calls, ProcurementStep(c) \/ AbortWork(c) PROVE UNCHANGED report
    BY <2>1 DEF ProcurementStep, Ordering, EnsureShop, Begin, InsertOrder, CommitOrder,
                Uploading, FindOrder, InsertResult, CommitResult, AbortWork
  <2>2. ASSUME NEW o \in DOMAIN orders, Collect(o) PROVE UNCHANGED report
    BY <2>2 DEF Collect
  <2> QED BY <1>3, <1>4, <1>6, <2>1, <2>2 DEF ProcurementNext
<1>7. ASSUME NEW c \in Calls, SearchStep(c) PROVE ReportInv'
  <2>1. UNCHANGED report
    BY <1>7 DEF SearchStep, Searching, StartSearch, Begin, ReadCache, Reply, WorkStep, Purge,
                LoadMatches, CountResults, StoreAnswer
  <2> QED BY <1>3, <2>1
<1>8. ASSUME NEW t \in Tenants, NEW k \in Keys, ExpireEntry(t, k) PROVE ReportInv'
  BY <1>3, <1>8 DEF ExpireEntry, procurementVars
<1>9. CASE UNCHANGED vars
  BY <1>3, <1>9 DEF vars, procurementVars
<1> QED BY <1>5, <1>6, <1>7, <1>8, <1>9 DEF Next

LEMMA InitReport == Init => PricedInv /\ ReportInv
<1> SUFFICES ASSUME Init PROVE PricedInv /\ ReportInv
  OBVIOUS
<1>1. /\ orders = OldOrders /\ history = << {} >>
      /\ work = [c \in Calls |-> NoWork] /\ report = [r \in Reporters |-> NoReport]
  BY DEF Init, ProcurementInit
<1>2. Len(history) = 1 /\ history[1] = {}
  BY <1>1
<1>3. IsFiniteSet(DOMAIN orders)
  <2>1. DOMAIN orders = 1..Len(orders) /\ Len(orders) \in Nat
    BY <1>1, OldOrdersAssumption
  <2> QED BY <2>1, FS_Interval
<1>4. \A o \in DOMAIN orders : OrderPriced(orders[o])
  <2>1. \A o \in DOMAIN orders : orders[o] \in Order
    BY <1>1, OldOrdersAssumption
  <2> QED BY <2>1 DEF Order, OrderPriced
<1>5. \A i \in 1..Len(history) : RowsPriced(history[i])
  BY <1>2, FS_EmptySet DEF RowsPriced
<1>6. \A c \in Calls : CallPriced(work[c])
  BY <1>1 DEF NoWork, CallPriced
<1>7. \A r \in Reporters : report[r] = NoReport
  BY <1>1
<1>8. IsReport(NoReport) /\ NoReport.pc = "idle"
  BY DEF IsReport, NoReport
<1>9. ReportFits(NoReport)
  BY <1>8 DEF ReportFits, Reads
<1> QED BY <1>1, <1>3, <1>4, <1>5, <1>6, <1>7, <1>8, <1>9 DEF PricedInv, TablePriced, ReportInv

LEMMA ReportInvariant == Spec => [](PricedInv /\ ReportInv)
<1>1. ASSUME ProcurementInv, ProcurementInv', PricedInv, ReportInv, [Next]_vars
      PROVE  PricedInv' /\ ReportInv'
  BY <1>1, StepPriced, StepReport
<1> QED BY <1>1, InitReport, SearchInvariant, PTL DEF Spec

\* The savings and the number of results a report answers are between the sums of
\* the least and of the greatest that each of its orders had while the report
\* ran, however many uploads and collections are committed between its statements.
THEOREM ReportsBracketed == Spec => []ReportBracketed
<1>1. ReportInv => ReportBracketed
  BY DEF ReportInv, ReportFits, ReportBracketed
<1> QED BY <1>1, ReportInvariant, PTL
=============================================================================
