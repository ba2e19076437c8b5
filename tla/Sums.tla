-------------------------------- MODULE Sums --------------------------------
(***************************************************************************)
(* Finite sets and sums over them: the induction on a finite set, and what *)
(* adding an element, growing a set and changing a summand do to a sum.    *)
(***************************************************************************)
EXTENDS Integers, FiniteSets, FiniteSetTheorems, TLAPS

LEMMA CardLess ==
  ASSUME NEW S, IsFiniteSet(S), NEW x \in S
  PROVE  /\ IsFiniteSet(S \ {x})
         /\ Cardinality(S) \in Nat /\ Cardinality(S \ {x}) = Cardinality(S) - 1
  BY FS_RemoveElement, FS_CardinalityType

LEMMA CardMore ==
  ASSUME NEW S, IsFiniteSet(S), NEW x, x \notin S
  PROVE  /\ IsFiniteSet(S \cup {x})
         /\ Cardinality(S) \in Nat /\ Cardinality(S \cup {x}) = Cardinality(S) + 1
  BY FS_AddElement, FS_CardinalityType

(* A family of subsets of a finite set has a smallest member.              *)
LEMMA SmallestSet ==
  ASSUME NEW S, IsFiniteSet(S), NEW F, F \subseteq SUBSET S, F # {}
  PROVE  \E x \in F : \A y \in F : y \subseteq x => y = x
<1>1. IsWellFoundedOn(StrictSubsetOrdering(S), FiniteSubsetsOf(S))
  BY FS_StrictSubsetOrderingWellFounded
<1>2. FiniteSubsetsOf(S) = SUBSET S
  BY FS_FiniteSubsetsOfFinite
<1>3. PICK x \in F : \A y \in F : <<y, x>> \notin StrictSubsetOrdering(S)
  BY <1>1, <1>2, WFMin
<1>4. ASSUME NEW y \in F, y \subseteq x, y # x PROVE FALSE
  <2>1. x \in SUBSET S /\ y \in SUBSET S
    OBVIOUS
  <2>2. <<y, x>> \in StrictSubsetOrdering(S)
    BY <1>4, <2>1 DEF StrictSubsetOrdering
  <2>3. QED
    BY <1>3, <2>2
<1>5. QED
  BY <1>4

(* A set of natural numbers has a least one.                               *)
LEMMA LeastNat ==
  ASSUME NEW T \in SUBSET Nat, T # {}
  PROVE  \E x \in T : \A y \in T : x <= y
<1>1. PICK n \in T : TRUE
  OBVIOUS
<1> DEFINE U == {x \in T : x <= n}
           F == {1..x : x \in U}
<1>2. IsFiniteSet(1..n)
  BY FS_Interval
<1>3. F \subseteq SUBSET (1..n) /\ F # {}
  <2>1. \A x \in U : 1..x \subseteq 1..n
    OBVIOUS
  <2>2. n \in U
    OBVIOUS
  <2>3. QED
    BY <2>1, <2>2
<1>4. PICK s \in F : \A t \in F : t \subseteq s => t = s
  <2> DEFINE N == 1..n
  <2> HIDE DEF F
  <2>1. IsFiniteSet(N) /\ F \subseteq SUBSET N /\ F # {}
    BY <1>2, <1>3
  <2> HIDE DEF N
  <2>2. QED
    BY <2>1, SmallestSet
<1>5. PICK x \in U : s = 1..x
  BY <1>4
<1>6. \A y \in U : x <= y
  <2> SUFFICES ASSUME NEW y \in U, y < x PROVE FALSE
    OBVIOUS
  <2>1. 1..y \subseteq 1..x /\ x \in 1..x /\ x \notin 1..y
    OBVIOUS
  <2>2. 1..y \in F
    OBVIOUS
  <2>3. QED
    BY <2>1, <2>2, <1>4, <1>5
<1>7. QED
  BY <1>6

(***************************************************************************)
(* Sums                                                                    *)
(***************************************************************************)

(* The element that a sum over s begins with.                              *)
First(s) == CHOOSE x \in s : TRUE

(* g gives every part of S the sum of f over it.                           *)
Adds(g, f, S) ==
  g = [s \in SUBSET S |-> IF s = {} THEN 0 ELSE f[First(s)] + g[s \ {First(s)}]]

(* The sum of f over S: the SumFunctionOnSet of the community modules.     *)
Total(f, S) == (CHOOSE g : Adds(g, f, S))[S]

LEMMA FirstIn == ASSUME NEW s, s # {} PROVE First(s) \in s
  BY DEF First

LEMMA AddsAt ==
  ASSUME NEW f, NEW S, NEW g, Adds(g, f, S), NEW s \in SUBSET S
  PROVE  g[s] = IF s = {} THEN 0 ELSE f[First(s)] + g[s \ {First(s)}]
<1> DEFINE e(x) == IF x = {} THEN 0 ELSE f[First(x)] + g[x \ {First(x)}]
<1>1. g = [x \in SUBSET S |-> e(x)]
  BY DEF Adds
<1>2. g[s] = e(s)
  <2> HIDE DEF e
  <2>1. QED
    BY <1>1
<1>3. QED
  BY <1>2

(* Two such functions agree where both are defined.                        *)
LEMMA AddsAgree ==
  ASSUME NEW f, NEW S, NEW T, IsFiniteSet(S), NEW g, Adds(g, f, S), NEW h, Adds(h, f, T),
         NEW u, u \subseteq S, u \subseteq T
  PROVE  g[u] = h[u]
<1> DEFINE F == {s \in SUBSET S : s \subseteq T /\ g[s] # h[s]}
<1> SUFFICES ASSUME F # {} PROVE FALSE
  OBVIOUS
<1>1. PICK s \in F : \A t \in F : t \subseteq s => t = s
  <2>1. F \subseteq SUBSET S
    OBVIOUS
  <2> HIDE DEF F
  <2>2. QED
    BY <2>1, SmallestSet
<1>2. s \in SUBSET S /\ s \in SUBSET T /\ g[s] # h[s]
  OBVIOUS
<1>3. s # {}
  <2> SUFFICES ASSUME s = {} PROVE FALSE
    OBVIOUS
  <2>1. g[s] = 0
    BY <1>2, AddsAt
  <2>2. h[s] = 0
    BY <1>2, AddsAt
  <2>3. QED
    BY <1>2, <2>1, <2>2
<1> DEFINE p == s \ {First(s)}
<1>4. First(s) \in s /\ p \subseteq s /\ p # s
  BY <1>3, FirstIn
<1>5. g[p] = h[p]
  BY <1>1, <1>2, <1>4
<1>6. g[s] = f[First(s)] + g[p] /\ h[s] = f[First(s)] + h[p]
  BY <1>2, <1>3, AddsAt
<1>7. QED
  BY <1>2, <1>5, <1>6

LEMMA AddsExists ==
  ASSUME NEW S, IsFiniteSet(S), NEW f
  PROVE  \E g : Adds(g, f, S)
<1> DEFINE F == {T \in SUBSET S : ~\E g : Adds(g, f, T)}
<1> SUFFICES ASSUME F # {} PROVE FALSE
  OBVIOUS
<1>1. PICK T \in F : \A U \in F : U \subseteq T => U = T
  <2>1. F \subseteq SUBSET S
    OBVIOUS
  <2> HIDE DEF F
  <2>2. QED
    BY <2>1, SmallestSet
<1>2. T \in SUBSET S /\ ~\E g : Adds(g, f, T)
  OBVIOUS
<1>3. IsFiniteSet(T)
  BY <1>2, FS_Subset
<1> DEFINE Of(U) == CHOOSE g : Adds(g, f, U)
           rest(s) == s \ {First(s)}
<1>4. ASSUME NEW U \in SUBSET T, U # T PROVE Adds(Of(U), f, U) /\ IsFiniteSet(U)
  <2>1. \E g : Adds(g, f, U)
    BY <1>1, <1>2, <1>4
  <2>2. Adds(Of(U), f, U)
    BY <2>1
  <2>3. QED
    BY <1>3, <2>2, FS_Subset
<1>5. ASSUME NEW s \in SUBSET T, s # {}
      PROVE  rest(s) \in SUBSET T /\ rest(s) # T /\ rest(s) \subseteq s
  BY <1>5, FirstIn
<1> HIDE DEF Of, rest
<1> DEFINE g == [s \in SUBSET T |-> IF s = {} THEN 0 ELSE f[First(s)] + Of(rest(s))[rest(s)]]
<1>6. ASSUME NEW u \in SUBSET T, u # T
      PROVE  g[u] = Of(u)[u]
  <2>1. CASE u = {}
    <3>1. Of(u)[u] = 0
      BY <1>4, <1>6, <2>1, AddsAt, ZenonT(30)
    <3>2. QED
      BY <2>1, <3>1
  <2>2. CASE u # {}
    <3>1. /\ Adds(Of(u), f, u) /\ IsFiniteSet(u)
          /\ Adds(Of(rest(u)), f, rest(u)) /\ rest(u) \subseteq u
      BY <1>4, <1>5, <1>6, <2>2
    <3>2. Of(u)[u] = f[First(u)] + Of(u)[rest(u)]
      BY <2>2, <3>1, AddsAt DEF rest
    <3>3. Of(u)[rest(u)] = Of(rest(u))[rest(u)]
      BY <3>1, AddsAgree
    <3>4. QED
      BY <2>2, <3>2, <3>3
  <2>3. QED
    BY <2>1, <2>2
<1>7. g = [s \in SUBSET T |-> IF s = {} THEN 0 ELSE f[First(s)] + g[rest(s)]]
  <2>1. ASSUME NEW s \in SUBSET T
        PROVE  (IF s = {} THEN 0 ELSE f[First(s)] + Of(rest(s))[rest(s)])
               = IF s = {} THEN 0 ELSE f[First(s)] + g[rest(s)]
    <3> HIDE DEF g
    <3>1. QED
      BY <1>5, <1>6
  <2> DEFINE e(s) == IF s = {} THEN 0 ELSE f[First(s)] + Of(rest(s))[rest(s)]
             d(s) == IF s = {} THEN 0 ELSE f[First(s)] + g[rest(s)]
  <2>2. g = [s \in SUBSET T |-> e(s)] /\ \A s \in SUBSET T : e(s) = d(s)
    BY <2>1
  <2>3. g = [s \in SUBSET T |-> d(s)]
    <3> HIDE DEF e, d, g
    <3>1. QED
      BY <2>2
  <2>4. QED
    BY <2>3
<1>8. Adds(g, f, T)
  <2> HIDE DEF g
  <2>1. QED
    BY <1>7 DEF Adds, rest
<1>9. QED
  BY <1>2, <1>8

LEMMA TotalAdds ==
  ASSUME NEW S, IsFiniteSet(S), NEW f, NEW g, Adds(g, f, S)
  PROVE  g[S] = Total(f, S)
<1>1. Adds(CHOOSE h : Adds(h, f, S), f, S)
  OBVIOUS
<1>2. QED
  BY <1>1, AddsAgree DEF Total

LEMMA TotalEmpty == ASSUME NEW f PROVE Total(f, {}) = 0
<1>1. IsFiniteSet({})
  BY FS_EmptySet
<1>2. PICK g : Adds(g, f, {})
  BY <1>1, AddsExists
<1>3. QED
  BY <1>1, <1>2, AddsAt, TotalAdds

LEMMA TotalFirst ==
  ASSUME NEW f, NEW S, IsFiniteSet(S), S # {}
  PROVE  Total(f, S) = f[First(S)] + Total(f, S \ {First(S)})
<1> DEFINE R == S \ {First(S)}
<1>1. IsFiniteSet(R) /\ R \subseteq S
  BY FS_Subset
<1>2. PICK g : Adds(g, f, S)
  BY AddsExists
<1>3. PICK h : Adds(h, f, R)
  BY <1>1, AddsExists
<1>4. g[R] = h[R]
  BY <1>1, <1>2, <1>3, AddsAgree
<1>5. h[R] = Total(f, R) /\ g[S] = Total(f, S)
  BY <1>1, <1>2, <1>3, TotalAdds
<1>6. g[S] = f[First(S)] + g[R]
  BY <1>2, AddsAt
<1>7. QED
  BY <1>4, <1>5, <1>6

(* Two functions that agree on S have the same sum over it.                *)
LEMMA TotalSame ==
  ASSUME NEW S, IsFiniteSet(S), NEW f, NEW g, \A x \in S : f[x] = g[x]
  PROVE  Total(f, S) = Total(g, S)
<1> DEFINE F == {s \in SUBSET S : Total(f, s) # Total(g, s)}
<1> SUFFICES ASSUME F # {} PROVE FALSE
  OBVIOUS
<1>1. PICK s \in F : \A t \in F : t \subseteq s => t = s
  <2>1. F \subseteq SUBSET S
    OBVIOUS
  <2> HIDE DEF F
  <2>2. QED
    BY <2>1, SmallestSet
<1>2. s \in SUBSET S /\ IsFiniteSet(s) /\ Total(f, s) # Total(g, s)
  BY FS_Subset
<1>3. s # {}
  BY <1>2, TotalEmpty
<1>4. First(s) \in s /\ First(s) \in S
  BY <1>2, <1>3, FirstIn
<1>5. Total(f, s \ {First(s)}) = Total(g, s \ {First(s)})
  BY <1>1, <1>2, <1>4
<1>6. QED
  BY <1>2, <1>3, <1>4, <1>5, TotalFirst

(* Sums of integers are integers, those of natural numbers natural.        *)
LEMMA TotalInt ==
  ASSUME NEW S, IsFiniteSet(S), NEW f, \A x \in S : f[x] \in Int
  PROVE  Total(f, S) \in Int
<1> DEFINE F == {s \in SUBSET S : Total(f, s) \notin Int}
<1> SUFFICES ASSUME F # {} PROVE FALSE
  OBVIOUS
<1>1. PICK s \in F : \A t \in F : t \subseteq s => t = s
  <2>1. F \subseteq SUBSET S
    OBVIOUS
  <2> HIDE DEF F
  <2>2. QED
    BY <2>1, SmallestSet
<1>2. s \in SUBSET S /\ IsFiniteSet(s) /\ Total(f, s) \notin Int
  BY FS_Subset
<1>3. s # {}
  BY <1>2, TotalEmpty
<1>4. First(s) \in s /\ First(s) \in S
  BY <1>2, <1>3, FirstIn
<1>5. Total(f, s \ {First(s)}) \in Int
  BY <1>1, <1>2, <1>4
<1>6. QED
  BY <1>2, <1>3, <1>4, <1>5, TotalFirst

LEMMA TotalNat ==
  ASSUME NEW S, IsFiniteSet(S), NEW f, \A x \in S : f[x] \in Nat
  PROVE  Total(f, S) \in Nat
<1> DEFINE F == {s \in SUBSET S : Total(f, s) \notin Nat}
<1> SUFFICES ASSUME F # {} PROVE FALSE
  OBVIOUS
<1>1. PICK s \in F : \A t \in F : t \subseteq s => t = s
  <2>1. F \subseteq SUBSET S
    OBVIOUS
  <2> HIDE DEF F
  <2>2. QED
    BY <2>1, SmallestSet
<1>2. s \in SUBSET S /\ IsFiniteSet(s) /\ Total(f, s) \notin Nat
  BY FS_Subset
<1>3. s # {}
  BY <1>2, TotalEmpty
<1>4. First(s) \in s /\ First(s) \in S
  BY <1>2, <1>3, FirstIn
<1>5. Total(f, s \ {First(s)}) \in Nat
  BY <1>1, <1>2, <1>4
<1>6. QED
  BY <1>2, <1>3, <1>4, <1>5, TotalFirst

(* A sum of no greater summands is no greater.                             *)
LEMMA TotalLess ==
  ASSUME NEW S, IsFiniteSet(S), NEW f, NEW g, \A x \in S : f[x] \in Int,
         \A x \in S : g[x] \in Int, \A x \in S : f[x] <= g[x]
  PROVE  Total(f, S) <= Total(g, S)
<1> DEFINE F == {s \in SUBSET S : ~(Total(f, s) <= Total(g, s))}
<1> SUFFICES ASSUME F # {} PROVE FALSE
  OBVIOUS
<1>1. PICK s \in F : \A t \in F : t \subseteq s => t = s
  <2>1. F \subseteq SUBSET S
    OBVIOUS
  <2> HIDE DEF F
  <2>2. QED
    BY <2>1, SmallestSet
<1>2. s \in SUBSET S /\ IsFiniteSet(s) /\ ~(Total(f, s) <= Total(g, s))
  BY FS_Subset
<1>3. s # {}
  BY <1>2, TotalEmpty
<1>4. First(s) \in s /\ First(s) \in S
  BY <1>2, <1>3, FirstIn
<1> DEFINE r == s \ {First(s)}
<1>5. r \in SUBSET S /\ IsFiniteSet(r) /\ r # s /\ r \subseteq s
  BY <1>2, <1>4, FS_Subset
<1>6. Total(f, r) <= Total(g, r)
  BY <1>1, <1>5
<1>7. Total(f, r) \in Int /\ Total(g, r) \in Int
  BY <1>5, TotalInt
<1>8. Total(f, s) = f[First(s)] + Total(f, r) /\ Total(g, s) = g[First(s)] + Total(g, r)
  BY <1>2, <1>3, TotalFirst
<1>9. QED
  BY <1>2, <1>4, <1>6, <1>7, <1>8

(* It does not matter with which element a sum begins.                     *)
LEMMA TotalTake ==
  ASSUME NEW S, IsFiniteSet(S), NEW f, \A x \in S : f[x] \in Int
  PROVE  \A x \in S : Total(f, S) = f[x] + Total(f, S \ {x})
<1> DEFINE Free(s) == \A x \in s : Total(f, s) = f[x] + Total(f, s \ {x})
           F == {s \in SUBSET S : ~Free(s)}
<1> SUFFICES ASSUME F # {} PROVE FALSE
  OBVIOUS
<1>1. PICK s \in F : \A t \in F : t \subseteq s => t = s
  <2>1. F \subseteq SUBSET S
    OBVIOUS
  <2> HIDE DEF F
  <2>2. QED
    BY <2>1, SmallestSet
<1>2. PICK x \in s : Total(f, s) # f[x] + Total(f, s \ {x})
  OBVIOUS
<1>3. s \in SUBSET S /\ IsFiniteSet(s)
  BY FS_Subset
<1>4. ASSUME NEW t \in SUBSET S, t \subseteq s, t # s, NEW z \in t
      PROVE  Total(f, t) = f[z] + Total(f, t \ {z})
  <2>1. Free(t)
    <3> HIDE DEF Free
    <3>1. QED
      BY <1>1, <1>4
  <2>2. QED
    BY <2>1
<1> HIDE DEF F
<1> DEFINE y == First(s)
           p == s \ {y}
           q == s \ {x}
           r == p \ {x}
<1>5. y \in s
  BY FirstIn
<1>6. Total(f, s) = f[y] + Total(f, p)
  BY <1>3, TotalFirst
<1>7. x # y
  BY <1>2, <1>6
<1> HIDE DEF y
<1>8. Total(f, p) = f[x] + Total(f, r)
  <2>1. p \in SUBSET S /\ p \subseteq s /\ p # s /\ x \in p
    BY <1>3, <1>5, <1>7
  <2>2. QED
    BY <2>1, <1>4
<1>9. Total(f, q) = f[y] + Total(f, r)
  <2>1. q \in SUBSET S /\ q \subseteq s /\ q # s /\ y \in q
    BY <1>2, <1>3, <1>5, <1>7
  <2>2. q \ {y} = r
    OBVIOUS
  <2> HIDE DEF q, r
  <2>3. QED
    BY <1>4, <2>1, <2>2
<1>10. f[x] \in Int /\ f[y] \in Int /\ Total(f, r) \in Int
  <2>1. IsFiniteSet(r)
    BY <1>3, FS_Subset
  <2>2. QED
    BY <1>2, <1>3, <1>5, <2>1, TotalInt
<1>11. QED
  BY <1>2, <1>6, <1>8, <1>9, <1>10

(* A sum over more natural numbers is no less.                             *)
LEMMA TotalMore ==
  ASSUME NEW S, IsFiniteSet(S), NEW f, \A x \in S : f[x] \in Nat, NEW T, T \subseteq S
  PROVE  Total(f, T) <= Total(f, S)
<1> DEFINE F == {s \in SUBSET S : T \subseteq s /\ ~(Total(f, T) <= Total(f, s))}
<1> SUFFICES ASSUME F # {} PROVE FALSE
  OBVIOUS
<1>1. PICK s \in F : \A t \in F : t \subseteq s => t = s
  <2>1. F \subseteq SUBSET S
    OBVIOUS
  <2> HIDE DEF F
  <2>2. QED
    BY <2>1, SmallestSet
<1>2. /\ s \in SUBSET S /\ T \subseteq s /\ ~(Total(f, T) <= Total(f, s))
      /\ IsFiniteSet(s) /\ IsFiniteSet(T)
  BY FS_Subset
<1>3. Total(f, T) \in Nat /\ Total(f, s) \in Nat
  BY <1>2, TotalNat
<1>4. PICK x \in s : x \notin T
  BY <1>2, <1>3
<1>5. Total(f, s) = f[x] + Total(f, s \ {x})
  BY <1>2, TotalTake
<1>6. Total(f, T) <= Total(f, s \ {x})
  BY <1>1, <1>2, <1>4
<1>7. Total(f, s \ {x}) \in Nat /\ f[x] \in Nat
  <2>1. IsFiniteSet(s \ {x})
    BY <1>2, FS_Subset
  <2>2. QED
    BY <1>2, <2>1, TotalNat
<1>8. QED
  BY <1>2, <1>3, <1>5, <1>6, <1>7

(* The sum of zeros.                                                       *)
LEMMA TotalZero ==
  ASSUME NEW S, IsFiniteSet(S), NEW f, \A x \in S : f[x] = 0
  PROVE  Total(f, S) = 0
<1> DEFINE F == {s \in SUBSET S : Total(f, s) # 0}
<1> SUFFICES ASSUME F # {} PROVE FALSE
  OBVIOUS
<1>1. PICK s \in F : \A t \in F : t \subseteq s => t = s
  <2>1. F \subseteq SUBSET S
    OBVIOUS
  <2> HIDE DEF F
  <2>2. QED
    BY <2>1, SmallestSet
<1>2. s \in SUBSET S /\ IsFiniteSet(s) /\ Total(f, s) # 0
  BY FS_Subset
<1>3. s # {}
  BY <1>2, TotalEmpty
<1>4. First(s) \in s /\ First(s) \in S
  BY <1>2, <1>3, FirstIn
<1>5. Total(f, s \ {First(s)}) = 0
  BY <1>1, <1>2, <1>4
<1>6. QED
  BY <1>2, <1>3, <1>4, <1>5, TotalFirst

(* One summand, or none, is changed by d.                                  *)
LEMMA TotalChange ==
  ASSUME NEW S, IsFiniteSet(S), NEW f, \A x \in S : f[x] \in Int,
         NEW g, NEW y, NEW d \in Int,
         \A x \in S \ {y} : g[x] = f[x], y \in S => g[y] = f[y] + d
  PROVE  Total(g, S) = IF y \in S THEN Total(f, S) + d ELSE Total(f, S)
<1>1. CASE y \notin S
  BY <1>1, TotalSame
<1>2. CASE y \in S
  <2>1. \A x \in S : g[x] \in Int
    BY <1>2
  <2>2. /\ Total(f, S) = f[y] + Total(f, S \ {y})
        /\ Total(g, S) = g[y] + Total(g, S \ {y})
    BY <1>2, <2>1, TotalTake
  <2>3. IsFiniteSet(S \ {y})
    BY FS_Subset
  <2>4. Total(f, S \ {y}) = Total(g, S \ {y}) /\ Total(f, S \ {y}) \in Int
    BY <2>3, TotalSame, TotalInt
  <2>5. f[y] \in Int /\ g[y] = f[y] + d
    BY <1>2
  <2>6. Total(g, S) = Total(f, S) + d
    BY <2>2, <2>4, <2>5
  <2>7. QED
    BY <1>2, <2>6
<1>3. QED
  BY <1>1, <1>2

(* The sum over two sets without a common element.                         *)
LEMMA TotalUnion ==
  ASSUME NEW S, IsFiniteSet(S), NEW f, \A x \in S : f[x] \in Int, NEW T, T \subseteq S
  PROVE  Total(f, S) = Total(f, T) + Total(f, S \ T)
<1> DEFINE F == {s \in SUBSET S : T \subseteq s /\ Total(f, s) # Total(f, T) + Total(f, s \ T)}
<1> SUFFICES ASSUME F # {} PROVE FALSE
  OBVIOUS
<1>1. PICK s \in F : \A t \in F : t \subseteq s => t = s
  <2>1. F \subseteq SUBSET S
    OBVIOUS
  <2> HIDE DEF F
  <2>2. QED
    BY <2>1, SmallestSet
<1>2. s \in SUBSET S /\ T \subseteq s /\ Total(f, s) # Total(f, T) + Total(f, s \ T)
  OBVIOUS
<1>3. IsFiniteSet(s) /\ IsFiniteSet(T) /\ IsFiniteSet(s \ T)
  BY <1>2, FS_Subset
<1>4. Total(f, T) \in Int
  BY <1>2, <1>3, TotalInt
<1>5. s # T
  <2> SUFFICES ASSUME s = T PROVE FALSE
    OBVIOUS
  <2>1. Total(f, s \ T) = 0
    <3>1. s \ T = {}
      OBVIOUS
    <3>2. QED
      BY <3>1, TotalEmpty
  <2>2. QED
    BY <1>2, <1>4, <2>1
<1>6. PICK x \in s : x \notin T
  BY <1>2, <1>5
<1> DEFINE p == s \ {x}
<1>7. Total(f, s) = f[x] + Total(f, p)
  BY <1>2, <1>3, TotalTake
<1>8. Total(f, s \ T) = f[x] + Total(f, p \ T)
  <2>1. Total(f, s \ T) = f[x] + Total(f, (s \ T) \ {x})
    BY <1>2, <1>3, <1>6, TotalTake
  <2>2. (s \ T) \ {x} = p \ T
    OBVIOUS
  <2>3. QED
    BY <2>1, <2>2
<1>9. Total(f, p) = Total(f, T) + Total(f, p \ T)
  <2>1. p \in SUBSET S /\ T \subseteq p /\ p \subseteq s /\ p # s
    BY <1>2, <1>6
  <2>2. p \notin F
    <3> HIDE DEF F, p
    <3>1. QED
      BY <1>1, <2>1
  <2>3. QED
    BY <2>1, <2>2
<1>10. f[x] \in Int /\ Total(f, p \ T) \in Int
  <2>1. IsFiniteSet(p \ T)
    BY <1>3, FS_Subset
  <2>2. QED
    BY <1>2, <2>1, TotalInt
<1>11. QED
  BY <1>2, <1>4, <1>7, <1>8, <1>9, <1>10
=============================================================================
