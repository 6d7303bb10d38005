---------------------------- MODULE FiniteFolds ----------------------------
(***************************************************************************)
(* Folds, sums and extremes over finite sets of any size.  A fold of the   *)
(* community modules is a CHOOSE of a recursive function; what is said of  *)
(* it here rests on the well-foundedness of inclusion on finite sets,      *)
(* applied to a smallest counterexample.                                   *)
(***************************************************************************)
EXTENDS Integers, FiniteSetsExt, Functions, FiniteSetTheorems, TLAPS

\* Folding over a finite set: what iter[u] is for every subset u.
First(u) == CHOOSE x \in u : TRUE
Folds(g, S, base, step) ==
  /\ g = [u \in SUBSET S |-> g[u]]
  /\ \A u \in SUBSET S : g[u] = IF u = {} THEN base ELSE step[<<First(u), g[u \ {First(u)}]>>]

\* Among sets of subsets of a finite set, one has no smaller beside it.
LEMMA SmallestSet ==
  ASSUME NEW S, IsFiniteSet(S), NEW F, F \subseteq SUBSET S, F # {}
  PROVE  \E u \in F : \A v \in F : v \subseteq u => v = u
<1>1. FiniteSubsetsOf(S) = SUBSET S
  BY FS_FiniteSubsetsOfFinite
<1>2. PICK u \in F : \A v \in F : <<v, u>> \notin StrictSubsetOrdering(S)
  <2>1. F \subseteq FiniteSubsetsOf(S)
    BY <1>1
  <2> QED BY <2>1, FS_StrictSubsetOrderingWellFounded, WFMin
<1>3. \A v \in F : v \subseteq u => v = u
  BY <1>2 DEF StrictSubsetOrdering
<1> QED BY <1>3

LEMMA FoldsAgree ==
  ASSUME NEW S, IsFiniteSet(S), NEW base, NEW step,
         NEW s \in SUBSET S, NEW g, Folds(g, s, base, step),
         NEW t \in SUBSET S, NEW h, Folds(h, t, base, step)
  PROVE  \A u \in (SUBSET s) \intersect (SUBSET t) : g[u] = h[u]
<1> DEFINE F == {u \in (SUBSET s) \intersect (SUBSET t) : g[u] # h[u]}
<1> SUFFICES ASSUME F # {} PROVE FALSE
  OBVIOUS
<1>1. PICK u \in F : \A v \in F : v \subseteq u => v = u
  <2>1. F \subseteq SUBSET S
    OBVIOUS
  <2> HIDE DEF F
  <2> QED BY <2>1, SmallestSet
<1>2. u \in SUBSET s /\ u \in SUBSET t /\ g[u] # h[u]
  OBVIOUS
<1>3. u # {}
  BY <1>2 DEF Folds
<1>4. First(u) \in u
  BY <1>3 DEF First
<1>5. u \ {First(u)} \in SUBSET s /\ u \ {First(u)} \in SUBSET t /\ u \ {First(u)} \notin F
  BY <1>1, <1>2, <1>4
<1>6. g[u \ {First(u)}] = h[u \ {First(u)}]
  BY <1>5
<1> QED BY <1>2, <1>3, <1>6 DEF Folds

LEMMA FoldExists ==
  ASSUME NEW S, IsFiniteSet(S), NEW X, NEW base \in X, NEW step \in [S \X X -> X]
  PROVE  \E g : Folds(g, S, base, step) /\ g \in [SUBSET S -> X]
<1> DEFINE Has(s) == \E g : Folds(g, s, base, step) /\ g \in [SUBSET s -> X]
           F == {s \in SUBSET S : ~Has(s)}
<1> SUFFICES ASSUME F # {} PROVE FALSE
  OBVIOUS
<1>1. PICK s \in F : \A v \in F : v \subseteq s => v = s
  <2>1. F \subseteq SUBSET S
    OBVIOUS
  <2> HIDE DEF F
  <2> QED BY <2>1, SmallestSet
<1>2. s \in SUBSET S /\ ~Has(s)
  OBVIOUS
<1>3. s # {}
  <2> SUFFICES ASSUME s = {} PROVE FALSE
    OBVIOUS
  <2> DEFINE g == [u \in SUBSET s |-> base]
  <2>1. Folds(g, s, base, step) /\ g \in [SUBSET s -> X]
    BY DEF Folds
  <2> QED BY <1>2, <2>1
<1>4. \A x \in s : Has(s \ {x})
  <2> SUFFICES ASSUME NEW x \in s PROVE s \ {x} \notin F
    BY <1>2
  <2> QED BY <1>1
<1> DEFINE H == [x \in s |-> CHOOSE g : Folds(g, s \ {x}, base, step) /\ g \in [SUBSET (s \ {x}) -> X]]
           c == First(s)
           out(u) == CHOOSE x \in s \ u : TRUE
           f == [u \in SUBSET s |-> IF u = s THEN step[<<c, H[c][s \ {c}]>>] ELSE H[out(u)][u]]
<1>5. \A x \in s : Folds(H[x], s \ {x}, base, step) /\ H[x] \in [SUBSET (s \ {x}) -> X]
  BY <1>4
<1>6. c \in s
  BY <1>3 DEF First
<1>7. \A u \in SUBSET s : u # s => out(u) \in s /\ out(u) \notin u /\ u \in SUBSET (s \ {out(u)})
  <2> SUFFICES ASSUME NEW u \in SUBSET s, u # s
               PROVE  out(u) \in s /\ out(u) \notin u /\ u \in SUBSET (s \ {out(u)})
    OBVIOUS
  <2>1. s \ u # {}
    OBVIOUS
  <2>2. out(u) \in s \ u
    BY <2>1
  <2> QED BY <2>2
<1> HIDE DEF H, c, out, F
<1>8. \A x, y \in s : \A u \in SUBSET (s \ {x}) : u \in SUBSET (s \ {y}) => H[x][u] = H[y][u]
  <2> SUFFICES ASSUME NEW x \in s, NEW y \in s
               PROVE  \A u \in (SUBSET (s \ {x})) \intersect (SUBSET (s \ {y})) : H[x][u] = H[y][u]
    OBVIOUS
  <2> DEFINE p == s \ {x}
             q == s \ {y}
             g == H[x]
             h == H[y]
  <2>1. Folds(g, p, base, step) /\ Folds(h, q, base, step)
    BY <1>5
  <2>2. p \in SUBSET S /\ q \in SUBSET S
    BY <1>2
  <2> HIDE DEF f, p, q, g, h
  <2>3. \A u \in (SUBSET p) \intersect (SUBSET q) : g[u] = h[u]
    BY <2>1, <2>2, FoldsAgree
  <2> QED BY <2>3 DEF p, q, g, h
<1>9. f \in [SUBSET s -> X]
  <2>1. H[c][s \ {c}] \in X /\ c \in S
    BY <1>2, <1>5, <1>6
  <2>2. step[<<c, H[c][s \ {c}]>>] \in X
    BY <2>1
  <2>3. ASSUME NEW u \in SUBSET s, u # s PROVE H[out(u)][u] \in X
    <3>1. out(u) \in s /\ u \in SUBSET (s \ {out(u)})
      BY <1>7, <2>3
    <3>2. H[out(u)] \in [SUBSET (s \ {out(u)}) -> X]
      BY <1>5, <3>1
    <3> QED BY <3>1, <3>2
  <2> QED BY <2>2, <2>3
<1>10. \A u \in SUBSET s : f[u] = IF u = {} THEN base ELSE step[<<First(u), f[u \ {First(u)}]>>]
  <2> SUFFICES ASSUME NEW u \in SUBSET s
               PROVE  f[u] = IF u = {} THEN base ELSE step[<<First(u), f[u \ {First(u)}]>>]
    OBVIOUS
  <2>1. CASE u = {}
    <3>1. f[u] = H[out(u)][u] /\ out(u) \in s /\ u \in SUBSET (s \ {out(u)})
      BY <1>3, <1>7, <2>1
    <3> QED BY <1>5, <2>1, <3>1 DEF Folds
  <2>2. CASE u = s
    <3>1. c = First(u) /\ f[u] = step[<<c, H[c][s \ {c}]>>] /\ u # {}
      BY <1>3, <2>2 DEF c
    <3>2. s \ {c} \in SUBSET s /\ s \ {c} # s
      BY <1>6
    <3>3. out(s \ {c}) = c
      BY <1>7, <3>2
    <3>4. f[s \ {c}] = H[c][s \ {c}]
      BY <3>2, <3>3
    <3> HIDE DEF f
    <3> QED BY <2>2, <3>1, <3>4
  <2>3. CASE u # {} /\ u # s
    <3> DEFINE v == u \ {First(u)}
    <3>1. First(u) \in u
      BY <2>3 DEF First
    <3>2. v \in SUBSET s /\ v # s
      BY <3>1
    <3>3. f[u] = H[out(u)][u] /\ f[v] = H[out(v)][v]
      BY <2>3, <3>2
    <3>4. out(u) \in s /\ u \in SUBSET (s \ {out(u)}) /\ out(v) \in s /\ v \in SUBSET (s \ {out(v)})
      BY <1>7, <2>3, <3>2
    <3>5. H[out(u)][u] = step[<<First(u), H[out(u)][v]>>]
      <4>1. Folds(H[out(u)], s \ {out(u)}, base, step)
        BY <1>5, <3>4
      <4> QED BY <2>3, <3>4, <4>1 DEF Folds
    <3>6. v \in SUBSET (s \ {out(u)})
      BY <3>4
    <3>7. H[out(u)][v] = H[out(v)][v]
      BY <1>8, <3>4, <3>6
    <3> HIDE DEF f, v
    <3> QED BY <2>3, <3>3, <3>5, <3>7 DEF v
  <2> QED BY <2>1, <2>2, <2>3
<1>11. Folds(f, s, base, step)
  <2>1. f = [u \in SUBSET s |-> f[u]]
    OBVIOUS
  <2> HIDE DEF f
  <2> QED BY <1>10, <2>1 DEF Folds
<1> HIDE DEF f
<1> QED BY <1>2, <1>9, <1>11

\* What a fold over S has made of each of its parts: Y[u] is what may be made of u.
LEMMA FoldFollows ==
  ASSUME NEW S, IsFiniteSet(S), NEW Y, NEW iter, iter[{}] \in Y[{}],
         \A u \in SUBSET S : u # {} /\ iter[u \ {First(u)}] \in Y[u \ {First(u)}] => iter[u] \in Y[u]
  PROVE  \A u \in SUBSET S : iter[u] \in Y[u]
<1> DEFINE F == {u \in SUBSET S : iter[u] \notin Y[u]}
<1> SUFFICES ASSUME F # {} PROVE FALSE
  OBVIOUS
<1>1. PICK u \in F : \A v \in F : v \subseteq u => v = u
  <2>1. F \subseteq SUBSET S
    OBVIOUS
  <2> HIDE DEF F
  <2> QED BY <2>1, SmallestSet
<1>2. u # {} /\ u \in SUBSET S /\ iter[u] \notin Y[u]
  OBVIOUS
<1>3. First(u) \in u
  BY <1>2 DEF First
<1>4. iter[u \ {First(u)}] \in Y[u \ {First(u)}]
  BY <1>1, <1>2, <1>3
<1> QED BY <1>2, <1>4

LEMMA FoldWithin ==
  ASSUME NEW S, IsFiniteSet(S), NEW X, NEW step, step \in [S \X X -> X],
         NEW iter, iter[{}] \in X,
         \A u \in SUBSET S : u # {} /\ iter[u \ {First(u)}] \in X
           => iter[u] = step[<<First(u), iter[u \ {First(u)}]>>]
  PROVE  \A u \in SUBSET S : iter[u] \in X
<1> DEFINE Y == [u \in SUBSET S |-> X]
<1>1. \A u \in SUBSET S : Y[u] = X
  OBVIOUS
<1>2. \A u \in SUBSET S : u # {} => First(u) \in S /\ u \ {First(u)} \in SUBSET S
  BY DEF First
<1>3. iter[{}] \in Y[{}]
  OBVIOUS
<1> HIDE DEF Y
<1>4. \A u \in SUBSET S : u # {} /\ iter[u \ {First(u)}] \in Y[u \ {First(u)}] => iter[u] \in Y[u]
  BY <1>1, <1>2
<1>5. \A u \in SUBSET S : iter[u] \in Y[u]
  BY <1>3, <1>4, FoldFollows
<1> QED BY <1>1, <1>5

-----------------------------------------------------------------------------
(* Extremes.                                                                *)

\* Some set of a family is below no other of it.
LEMMA Lowest ==
  ASSUME NEW T, IsFiniteSet(T), T # {}, NEW below, below \in [T -> SUBSET T]
  PROVE  \E m \in T : \A k \in T : below[k] \subseteq below[m] => below[k] = below[m]
<1> DEFINE F == {below[m] : m \in T}
<1>1. F \subseteq SUBSET T
  OBVIOUS
<1>2. F # {}
  OBVIOUS
<1>3. PICK u \in F : \A v \in F : v \subseteq u => v = u
  <2> HIDE DEF F
  <2> QED BY <1>1, <1>2, SmallestSet
<1> QED BY <1>3

\* A set of numbers that is not empty has a least.
LEMMA LeastNumber ==
  ASSUME NEW T, IsFiniteSet(T), T # {}
  PROVE  T \subseteq Nat => Min(T) \in T /\ \A x \in T : Min(T) <= x
<1> DEFINE below == [m \in T |-> {x \in T : x <= m}]
<1>1. below \in [T -> SUBSET T]
  OBVIOUS
<1>2. PICK m \in T : \A k \in T : below[k] \subseteq below[m] => below[k] = below[m]
  <2> HIDE DEF below
  <2> QED BY <1>1, Lowest
<1> SUFFICES ASSUME T \subseteq Nat PROVE Min(T) \in T /\ \A x \in T : Min(T) <= x
  OBVIOUS
<1>3. ASSUME NEW k \in T PROVE m <= k
  <2> SUFFICES ASSUME k < m PROVE FALSE
    OBVIOUS
  <2>1. below[k] \subseteq below[m]
    <3>1. \A x \in T : x <= k => x <= m
      OBVIOUS
    <3> QED BY <3>1
  <2>2. m \in below[m] /\ m \notin below[k]
    OBVIOUS
  <2> QED BY <1>2, <2>1, <2>2
<1> QED BY <1>3 DEF Min

-----------------------------------------------------------------------------
(* Sums.  SumFunctionOnSet(f, T) adds f[x] for every x of T.                *)

\* What is true of a set when it is of the set less one is true of every set.
LEMMA BySubsets ==
  ASSUME NEW S, IsFiniteSet(S), NEW G, {} \in G,
         \A u \in SUBSET S : u # {} /\ u \ {First(u)} \in G => u \in G
  PROVE  \A u \in SUBSET S : u \in G
<1> DEFINE F == {u \in SUBSET S : u \notin G}
<1> SUFFICES ASSUME F # {} PROVE FALSE
  OBVIOUS
<1>1. PICK u \in F : \A v \in F : v \subseteq u => v = u
  <2>1. F \subseteq SUBSET S
    OBVIOUS
  <2> HIDE DEF F
  <2> QED BY <2>1, SmallestSet
<1>2. u # {} /\ u \in SUBSET S /\ u \notin G
  OBVIOUS
<1>3. First(u) \in u
  BY <1>2 DEF First
<1>4. u \ {First(u)} \in G
  BY <1>1, <1>2, <1>3
<1> QED BY <1>2, <1>4

\* The sums over the parts of a set.
Sums(iter, f, T) ==
  /\ iter \in [SUBSET T -> Nat] /\ iter[T] = SumFunctionOnSet(f, T)
  /\ \A u \in SUBSET T : iter[u] = IF u = {} THEN 0 ELSE f[First(u)] + iter[u \ {First(u)}]

LEMMA SumsOf ==
  ASSUME NEW T, IsFiniteSet(T), NEW f, \A x \in T : f[x] \in Nat
  PROVE  \E iter : Sums(iter, f, T)
<1> DEFINE step == [p \in T \X Nat |-> f[p[1]] + p[2]]
           Iter(g) == g = [u \in SUBSET T |-> IF u = {} THEN 0 ELSE f[First(u)] + g[u \ {First(u)}]]
           iter == CHOOSE g : Iter(g)
<1>1. step \in [T \X Nat -> Nat]
  OBVIOUS
<1>2. \A u \in SUBSET T : u # {} => First(u) \in T /\ u \ {First(u)} \in SUBSET T
  BY DEF First
<1>3. PICK g : Folds(g, T, 0, step) /\ g \in [SUBSET T -> Nat]
  <2> HIDE DEF step
  <2>1. 0 \in Nat
    OBVIOUS
  <2> QED BY <1>1, <2>1, FoldExists
<1>4. Iter(g)
  <2>1. ASSUME NEW u \in SUBSET T
        PROVE  g[u] = IF u = {} THEN 0 ELSE f[First(u)] + g[u \ {First(u)}]
    <3>1. CASE u = {}
      BY <1>3, <3>1 DEF Folds
    <3>2. CASE u # {}
      <4> DEFINE x == First(u)
                 v == u \ {x}
      <4>1. x \in T /\ v \in SUBSET T /\ g[v] \in Nat
        BY <1>2, <1>3, <3>2
      <4>2. g[u] = step[<<x, g[v]>>]
        BY <1>3, <3>2 DEF Folds
      <4> HIDE DEF x, v
      <4>3. step[<<x, g[v]>>] = f[x] + g[v]
        BY <4>1
      <4> QED BY <3>2, <4>2, <4>3 DEF x, v
    <3> QED BY <3>1, <3>2
  <2>2. g = [u \in SUBSET T |-> g[u]]
    BY <1>3
  <2> QED BY <2>1, <2>2
<1>5. Iter(iter)
  BY <1>4
<1>6. SumFunctionOnSet(f, T) = iter[T]
  BY DEF SumFunctionOnSet, FoldFunctionOnSet, MapThenFoldSet, First
<1> HIDE DEF iter
<1>7. \A u \in SUBSET T : iter[u] = IF u = {} THEN 0 ELSE f[First(u)] + iter[u \ {First(u)}]
  BY <1>5
<1>8. iter \in [SUBSET T -> Nat]
  <2> DEFINE G == {u \in SUBSET T : iter[u] \in Nat}
  <2>1. {} \in G
    <3>1. iter[{}] = 0
      BY <1>7
    <3> QED BY <3>1
  <2>2. \A u \in SUBSET T : u # {} /\ u \ {First(u)} \in G => u \in G
    BY <1>2, <1>7
  <2> HIDE DEF G
  <2>3. \A u \in SUBSET T : u \in G
    BY <2>1, <2>2, BySubsets
  <2>4. \A u \in SUBSET T : iter[u] \in Nat
    BY <2>3 DEF G
  <2>5. iter = [u \in SUBSET T |-> iter[u]]
    BY <1>5
  <2> QED BY <2>4, <2>5
<1> QED BY <1>6, <1>7, <1>8 DEF Sums

LEMMA SumIsNumber ==
  ASSUME NEW T, IsFiniteSet(T), NEW f, \A x \in T : f[x] \in Nat
  PROVE  SumFunctionOnSet(f, T) \in Nat
<1>1. PICK iter : Sums(iter, f, T)
  BY SumsOf
<1> QED BY <1>1 DEF Sums

\* One more at a place is one more in the sum.
LEMMA SumOneMore ==
  ASSUME NEW T, IsFiniteSet(T), NEW f, NEW h, NEW a,
         \A x \in T : f[x] \in Nat /\ h[x] = IF x = a THEN f[x] + 1 ELSE f[x]
  PROVE  SumFunctionOnSet(h, T) = IF a \in T THEN SumFunctionOnSet(f, T) + 1 ELSE SumFunctionOnSet(f, T)
<1>1. PICK s : Sums(s, f, T)
  BY SumsOf
<1>2. PICK t : Sums(t, h, T)
  <2>1. \A x \in T : h[x] \in Nat
    OBVIOUS
  <2> QED BY <2>1, SumsOf
<1> DEFINE G == {u \in SUBSET T : t[u] = IF a \in u THEN s[u] + 1 ELSE s[u]}
<1>3. {} \in G
  BY <1>1, <1>2 DEF Sums
<1>4. ASSUME NEW u \in SUBSET T, u # {}, u \ {First(u)} \in G PROVE u \in G
  <2> DEFINE x == First(u)
             v == u \ {x}
  <2>1. x \in u /\ x \in T /\ v \in SUBSET T
    BY <1>4 DEF First
  <2>2. s[u] = f[x] + s[v] /\ t[u] = h[x] + t[v] /\ s[v] \in Nat /\ t[v] \in Nat
    BY <1>1, <1>2, <1>4, <2>1 DEF Sums
  <2>3. t[v] = IF a \in v THEN s[v] + 1 ELSE s[v]
    BY <1>4
  <2>4. a \in u <=> (a = x \/ a \in v)
    BY <2>1
  <2>5. a = x => a \notin v
    OBVIOUS
  <2>6. f[x] \in Nat /\ h[x] = IF x = a THEN f[x] + 1 ELSE f[x]
    BY <2>1
  <2> HIDE DEF x, v
  <2>7. t[u] = IF a \in u THEN s[u] + 1 ELSE s[u]
    BY <2>2, <2>3, <2>4, <2>5, <2>6
  <2> QED BY <2>7
<1> HIDE DEF G
<1>5. T \in G
  BY <1>3, <1>4, BySubsets
<1> QED BY <1>1, <1>2, <1>5 DEF G, Sums

LEMMA SumWithin ==
  ASSUME NEW T, IsFiniteSet(T), NEW f, NEW h,
         \A x \in T : f[x] \in Nat /\ h[x] \in Nat /\ f[x] <= h[x]
  PROVE  SumFunctionOnSet(f, T) <= SumFunctionOnSet(h, T)
<1>1. PICK s : Sums(s, f, T)
  BY SumsOf
<1>2. PICK t : Sums(t, h, T)
  BY SumsOf
<1> DEFINE G == {u \in SUBSET T : s[u] <= t[u]}
<1>3. {} \in G
  <2>1. s[{}] = 0 /\ t[{}] = 0
    BY <1>1, <1>2 DEF Sums
  <2> QED BY <2>1
<1>4. ASSUME NEW u \in SUBSET T, u # {}, u \ {First(u)} \in G PROVE u \in G
  <2> DEFINE x == First(u)
             v == u \ {x}
  <2>1. x \in u /\ x \in T /\ v \in SUBSET T
    BY <1>4 DEF First
  <2>2. s[u] = f[x] + s[v] /\ t[u] = h[x] + t[v] /\ s[v] \in Nat /\ t[v] \in Nat
    BY <1>1, <1>2, <1>4, <2>1 DEF Sums
  <2>3. s[v] <= t[v]
    BY <1>4
  <2>4. f[x] \in Nat /\ h[x] \in Nat /\ f[x] <= h[x]
    BY <2>1
  <2> HIDE DEF x, v
  <2>5. s[u] <= t[u]
    BY <2>2, <2>3, <2>4
  <2> QED BY <2>5
<1> HIDE DEF G
<1>5. T \in G
  BY <1>3, <1>4, BySubsets
<1> QED BY <1>1, <1>2, <1>5 DEF G, Sums

LEMMA SumOfNone ==
  ASSUME NEW T, IsFiniteSet(T), NEW f, \A x \in T : f[x] = 0
  PROVE  SumFunctionOnSet(f, T) = 0
<1>1. PICK s : Sums(s, f, T)
  BY SumsOf
<1> DEFINE G == {u \in SUBSET T : s[u] = 0}
<1>2. {} \in G
  BY <1>1 DEF Sums
<1>3. ASSUME NEW u \in SUBSET T, u # {}, u \ {First(u)} \in G PROVE u \in G
  <2>1. First(u) \in T
    BY <1>3 DEF First
  <2> QED BY <1>1, <1>3, <2>1 DEF Sums
<1> HIDE DEF G
<1>4. T \in G
  BY <1>2, <1>3, BySubsets
<1> QED BY <1>1, <1>4 DEF G, Sums

\* A set of numbers that is not empty has a greatest.
LEMMA GreatestNumber ==
  ASSUME NEW T, IsFiniteSet(T), T # {}
  PROVE  T \subseteq Nat => Max(T) \in T /\ \A x \in T : x <= Max(T)
<1> DEFINE above == [m \in T |-> {x \in T : x >= m}]
<1>1. above \in [T -> SUBSET T]
  OBVIOUS
<1>2. PICK m \in T : \A k \in T : above[k] \subseteq above[m] => above[k] = above[m]
  <2> HIDE DEF above
  <2> QED BY <1>1, Lowest
<1> SUFFICES ASSUME T \subseteq Nat PROVE Max(T) \in T /\ \A x \in T : x <= Max(T)
  OBVIOUS
<1>3. ASSUME NEW k \in T PROVE m >= k
  <2> SUFFICES ASSUME k > m PROVE FALSE
    OBVIOUS
  <2>1. above[k] \subseteq above[m]
    <3>1. \A x \in T : x >= k => x >= m
      OBVIOUS
    <3> QED BY <3>1
  <2>2. m \in above[m] /\ m \notin above[k]
    OBVIOUS
  <2> QED BY <1>2, <2>1, <2>2
<1> QED BY <1>3 DEF Max
=============================================================================
