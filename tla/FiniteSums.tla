----------------------------- MODULE FiniteSums -----------------------------
(***************************************************************************)
(* SumFunctionOnSet of the community modules over finite sets of integers: *)
(* what the sums of margins, reservations and order quantities in the      *)
(* proofs rest on.  Induction goes by a least counterexample: the subsets  *)
(* of a finite set are well founded under strict inclusion.                *)
(***************************************************************************)
EXTENDS Integers, Functions, FiniteSetTheorems, WellFoundedInduction, TLAPS

Pick(s) == CHOOSE x \in s : TRUE

\* One step of the fold, given the sums of smaller sets.
Step(w, s, f) == IF s = {} THEN 0 ELSE w[Pick(s)] + f[s \ {Pick(s)}]

\* f holds the sum of w over every subset of S.
Adds(f, w, S) == f = [s \in SUBSET S |-> Step(w, s, f)]

\* A set of finite sets has a least one.
LEMMA LeastSubset ==
    ASSUME NEW S, IsFiniteSet(S), NEW T \in SUBSET SUBSET S, T # {}
    PROVE  \E m \in T : \A u \in T : u \subseteq m => u = m
  <1> DEFINE R == StrictSubsetOrdering(S)
  <1>1. IsWellFoundedOn(R, SUBSET S)
    BY FS_StrictSubsetOrderingWellFounded, FS_FiniteSubsetsOfFinite
  <1>2. \A u, m \in T : u \subseteq m /\ u # m => <<u, m>> \in R
    BY DEF StrictSubsetOrdering
  <1> HIDE DEF R
  <1>3. PICK m \in T : \A u \in T : ~(<<u, m>> \in R)
    BY <1>1, WFMin
  <1> QED
    BY <1>2, <1>3

LEMMA PickIn == ASSUME NEW s, s # {} PROVE Pick(s) \in s
  BY DEF Pick

\* Two functions that add up w agree on the sets they share.
LEMMA AddsUnique ==
    ASSUME NEW S, IsFiniteSet(S), NEW U \in SUBSET S, NEW w, NEW f, NEW g,
           Adds(f, w, S), Adds(g, w, U)
    PROVE  \A s \in SUBSET U : f[s] = g[s]
  <1> DEFINE T == {s \in SUBSET U : f[s] # g[s]}
  <1> SUFFICES ASSUME T # {} PROVE FALSE
    OBVIOUS
  <1>1. PICK m \in T : \A u \in T : u \subseteq m => u = m
    <2>1. T \in SUBSET SUBSET S
      OBVIOUS
    <2> HIDE DEF T
    <2> QED
      BY <2>1, LeastSubset
  <1>2. f[m] = Step(w, m, f) /\ g[m] = Step(w, m, g)
    BY DEF Adds
  <1>3. m # {}
    BY <1>2 DEF Step
  <1>4. f[m \ {Pick(m)}] = g[m \ {Pick(m)}]
    BY <1>1, <1>3, PickIn
  <1> QED
    BY <1>2, <1>4 DEF Step

\* The recursive definition of the fold defines a function.
LEMMA AddsExists ==
    ASSUME NEW S, IsFiniteSet(S), NEW w
    PROVE  \E f : Adds(f, w, S)
  <1> DEFINE T == {s \in SUBSET S : ~\E f : Adds(f, w, s)}
  <1> SUFFICES ASSUME T # {} PROVE FALSE
    OBVIOUS
  <1>1. PICK m \in T : \A u \in T : u \subseteq m => u = m
    <2>1. T \in SUBSET SUBSET S
      OBVIOUS
    <2> HIDE DEF T
    <2> QED
      BY <2>1, LeastSubset
  <1>2. IsFiniteSet(m)
    BY FS_Subset
  <1> DEFINE F(u) == CHOOSE f : Adds(f, w, u)
             f == [s \in SUBSET m |-> IF s = {} THEN 0
                                      ELSE w[Pick(s)] + F(s \ {Pick(s)})[s \ {Pick(s)}]]
  <1>3. \A u \in SUBSET m : u # m => Adds(F(u), w, u)
    BY <1>1
  <1>4. ASSUME NEW s \in SUBSET m, s # {}
        PROVE  f[s \ {Pick(s)}] = F(s \ {Pick(s)})[s \ {Pick(s)}]
    <2> DEFINE u == s \ {Pick(s)}
               v == u \ {Pick(u)}
    <2>1. Pick(s) \in s /\ u \in SUBSET m /\ u # m
      BY <1>4, PickIn
    <2>2. Adds(F(u), w, u)
      BY <1>3, <2>1
    <2>3. F(u)[u] = Step(w, u, F(u))
      <3> HIDE DEF F, u
      <3> QED
        BY <2>2 DEF Adds
    <2>4. CASE u = {}
      BY <2>1, <2>3, <2>4 DEF Step
    <2>5. CASE u # {}
      <3>1. Pick(u) \in u /\ v \in SUBSET u /\ v \in SUBSET m /\ v # m
        BY <2>1, <2>5, PickIn
      <3>2. Adds(F(v), w, v)
        BY <1>3, <3>1
      <3>3. IsFiniteSet(u)
        BY <1>2, <2>1, FS_Subset
      <3>4. F(u)[v] = F(v)[v]
        <4>1. v \in SUBSET u /\ v \in SUBSET v
          BY <3>1
        <4> HIDE DEF F, u, v
        <4> QED
          BY <2>2, <3>2, <3>3, <4>1, AddsUnique
      <3>5. f[u] = w[Pick(u)] + F(v)[v]
        BY <2>1, <2>5
      <3>6. F(u)[u] = w[Pick(u)] + F(u)[v]
        BY <2>3, <2>5 DEF Step
      <3> QED
        BY <3>4, <3>5, <3>6
    <2> QED
      BY <2>4, <2>5
  <1>5. Adds(f, w, m)
    <2>1. ASSUME NEW s \in SUBSET m PROVE f[s] = Step(w, s, f)
      <3>1. CASE s = {}
        BY <3>1 DEF Step
      <3>2. CASE s # {}
        <4>1. f[s \ {Pick(s)}] = F(s \ {Pick(s)})[s \ {Pick(s)}]
          BY <1>4, <3>2
        <4>2. f[s] = w[Pick(s)] + F(s \ {Pick(s)})[s \ {Pick(s)}]
          BY <3>2
        <4> HIDE DEF f, F
        <4> QED
          BY <3>2, <4>1, <4>2 DEF Step
      <3> QED
        BY <3>1, <3>2
    <2>2. f = [s \in SUBSET m |-> f[s]]
      OBVIOUS
    <2> HIDE DEF f
    <2> QED
      BY <2>1, <2>2 DEF Adds
  <1> QED
    BY <1>1, <1>5

\* The fold is the function's value at the whole set.
LEMMA SumIsAdds ==
    ASSUME NEW S, NEW w
    PROVE  SumFunctionOnSet(w, S) = (CHOOSE f : Adds(f, w, S))[S]
  BY DEF SumFunctionOnSet, FoldFunctionOnSet, MapThenFoldSet, Adds, Step, Pick

\* One picked element, and the rest.
LEMMA SumPicked ==
    ASSUME NEW S, IsFiniteSet(S), NEW w
    PROVE  SumFunctionOnSet(w, S) =
             IF S = {} THEN 0 ELSE w[Pick(S)] + SumFunctionOnSet(w, S \ {Pick(S)})
  <1> DEFINE F(u) == CHOOSE f : Adds(f, w, u)
             u == S \ {Pick(S)}
  <1>1. Adds(F(S), w, S)
    BY AddsExists
  <1>2. IsFiniteSet(u) /\ u \in SUBSET S
    BY FS_Subset
  <1>3. Adds(F(u), w, u)
    <2> HIDE DEF u
    <2> QED
      BY <1>2, AddsExists
  <1>4. F(S)[u] = F(u)[u]
    <2>1. u \in SUBSET u
      OBVIOUS
    <2> HIDE DEF F, u
    <2> QED
      BY <1>1, <1>2, <1>3, <2>1, AddsUnique
  <1>5. F(S)[S] = Step(w, S, F(S))
    <2> HIDE DEF F
    <2> QED
      BY <1>1 DEF Adds
  <1>6. SumFunctionOnSet(w, S) = F(S)[S] /\ SumFunctionOnSet(w, u) = F(u)[u]
    BY SumIsAdds
  <1> QED
    BY <1>4, <1>5, <1>6 DEF Step

-----------------------------------------------------------------------------
(* The laws the proofs cite *)

LEMMA SumEmpty == ASSUME NEW w PROVE SumFunctionOnSet(w, {}) = 0
  BY SumPicked, FS_EmptySet

\* A sum of integers is an integer, and one of naturals a natural.
LEMMA SumType ==
    ASSUME NEW S, IsFiniteSet(S), NEW w, \A x \in S : w[x] \in Int
    PROVE  /\ SumFunctionOnSet(w, S) \in Int
           /\ (\A x \in S : w[x] \in Nat) => SumFunctionOnSet(w, S) \in Nat
  <1> DEFINE Good(s) == /\ SumFunctionOnSet(w, s) \in Int
                        /\ (\A x \in S : w[x] \in Nat) => SumFunctionOnSet(w, s) \in Nat
             T == {s \in SUBSET S : ~Good(s)}
  <1> SUFFICES ASSUME T # {} PROVE FALSE
    OBVIOUS
  <1>1. PICK m \in T : \A u \in T : u \subseteq m => u = m
    <2>1. T \in SUBSET SUBSET S
      OBVIOUS
    <2> HIDE DEF T
    <2> QED
      BY <2>1, LeastSubset
  <1> DEFINE u == m \ {Pick(m)}
  <1>2. IsFiniteSet(m)
    BY FS_Subset
  <1>3. CASE m = {}
    BY <1>1, <1>3, SumEmpty
  <1>4. CASE m # {}
    <2>1. Pick(m) \in m /\ w[Pick(m)] \in Int
      BY <1>4, PickIn
    <2>2. Good(u)
      BY <1>1, <2>1
    <2>3. SumFunctionOnSet(w, m) = w[Pick(m)] + SumFunctionOnSet(w, u)
      BY <1>2, <1>4, SumPicked
    <2>4. (\A x \in S : w[x] \in Nat) => w[Pick(m)] \in Nat
      BY <2>1
    <2>5. Good(m)
      <3> HIDE DEF u
      <3> QED
        BY <2>1, <2>2, <2>3, <2>4
    <2> QED
      BY <1>1, <2>5
  <1> QED
    BY <1>3, <1>4

\* A new summand is added, whichever element the fold picks first.
LEMMA SumAdd ==
    ASSUME NEW S, IsFiniteSet(S), NEW x, x \notin S, NEW w, w[x] \in Int,
           \A y \in S : w[y] \in Int
    PROVE  SumFunctionOnSet(w, S \cup {x}) = SumFunctionOnSet(w, S) + w[x]
  <1> DEFINE Total(s) == SumFunctionOnSet(w, s)
             Z == S \cup {x}
             T == {s \in SUBSET S : Total(s \cup {x}) # Total(s) + w[x]}
  <1> SUFFICES ASSUME T # {} PROVE FALSE
    OBVIOUS
  <1>1. PICK m \in T : \A u \in T : u \subseteq m => u = m
    <2>1. T \in SUBSET SUBSET S
      OBVIOUS
    <2> HIDE DEF T
    <2> QED
      BY <2>1, LeastSubset
  <1> DEFINE z == m \cup {x}
             y == Pick(z)
  <1>2. IsFiniteSet(m) /\ IsFiniteSet(z)
    BY FS_Subset, FS_AddElement
  <1>3. y \in z /\ Total(z) = w[y] + Total(z \ {y})
    BY <1>2, PickIn, SumPicked
  <1>4. Total(m) \in Int
    BY <1>2, SumType
  <1>5. CASE y = x
    <2>1. z \ {y} = m
      BY <1>5
    <2>2. Total(z) = w[x] + Total(m)
      BY <1>3, <1>5, <2>1
    <2> QED
      BY <1>1, <1>4, <2>2
  <1>6. CASE y # x
    <2> DEFINE v == m \ {y}
    <2>1. y \in m /\ z \ {y} = v \cup {x} /\ v \in SUBSET S /\ v # m
      BY <1>3, <1>6
    <2>2. Total(v \cup {x}) = Total(v) + w[x]
      BY <1>1, <2>1
    <2>3. \A t \in SUBSET S : IsFiniteSet(t) /\ Total(t) \in Int
      BY FS_Subset, SumType
    \* The element picked from m may be another one than y.
    <2>4. Total(m) = w[y] + Total(v)
      <3> DEFINE Q == {s \in SUBSET S : \E e \in s : Total(s) # w[e] + Total(s \ {e})}
      <3> SUFFICES ASSUME Q # {} PROVE FALSE
        BY <2>1
      <3>1. PICK a \in Q : \A u \in Q : u \subseteq a => u = a
        <4>1. Q \in SUBSET SUBSET S
          OBVIOUS
        <4> HIDE DEF Q
        <4> QED
          BY <4>1, LeastSubset
      <3>2. PICK e \in a : Total(a) # w[e] + Total(a \ {e})
        OBVIOUS
      <3> DEFINE p == Pick(a)
      <3>3. p \in a /\ Total(a) = w[p] + Total(a \ {p})
        BY <2>3, <3>2, PickIn, SumPicked
      <3>4. p # e
        BY <3>2, <3>3
      <3>5. a \ {p} \notin Q /\ a \ {e} \notin Q
        BY <3>1, <3>2, <3>3
      <3>6. /\ Total(a \ {p}) = w[e] + Total((a \ {p}) \ {e})
            /\ Total(a \ {e}) = w[p] + Total((a \ {e}) \ {p})
        BY <3>2, <3>3, <3>4, <3>5
      <3>7. (a \ {p}) \ {e} = (a \ {e}) \ {p}
        OBVIOUS
      <3>8. /\ w[e] \in Int /\ w[p] \in Int
            /\ Total((a \ {e}) \ {p}) \in Int
        BY <2>3, <3>2, <3>3
      <3>9. Total(a) = w[p] + (w[e] + Total((a \ {e}) \ {p}))
        BY <3>3, <3>6, <3>7
      <3>10. Total(a) = w[e] + Total(a \ {e})
        <4>1. \A i, j, k \in Int : i + (j + k) = j + (i + k)
          OBVIOUS
        <4> HIDE DEF Total, p, Q, T
        <4> QED
          BY <3>6, <3>8, <3>9, <4>1
      <3> QED
        BY <3>2, <3>10
    <2>5. w[y] \in Int /\ Total(v) \in Int
      BY <2>1, <2>3
    <2>6. Total(z) = w[y] + (Total(v) + w[x])
      BY <1>3, <2>1, <2>2
    <2>7. Total(z) = Total(m) + w[x]
      <3>1. \A i, j, k \in Int : i + (j + k) = (i + j) + k
        OBVIOUS
      <3> HIDE DEF Total, y, z, v, T
      <3> QED
        BY <2>4, <2>5, <2>6, <3>1
    <2> QED
      BY <1>1, <2>7
  <1> QED
    BY <1>5, <1>6

\* The sum depends on the summands only.
LEMMA SumSame ==
    ASSUME NEW S, IsFiniteSet(S), NEW v, NEW w, \A x \in S : v[x] = w[x]
    PROVE  SumFunctionOnSet(v, S) = SumFunctionOnSet(w, S)
  <1> DEFINE T == {s \in SUBSET S : SumFunctionOnSet(v, s) # SumFunctionOnSet(w, s)}
  <1> SUFFICES ASSUME T # {} PROVE FALSE
    OBVIOUS
  <1>1. PICK m \in T : \A u \in T : u \subseteq m => u = m
    <2>1. T \in SUBSET SUBSET S
      OBVIOUS
    <2> HIDE DEF T
    <2> QED
      BY <2>1, LeastSubset
  <1>2. IsFiniteSet(m)
    BY FS_Subset
  <1>3. m # {}
    BY SumEmpty
  <1>4. Pick(m) \in m /\ SumFunctionOnSet(v, m \ {Pick(m)}) = SumFunctionOnSet(w, m \ {Pick(m)})
    BY <1>1, <1>3, PickIn
  <1>5. /\ SumFunctionOnSet(v, m) = v[Pick(m)] + SumFunctionOnSet(v, m \ {Pick(m)})
        /\ SumFunctionOnSet(w, m) = w[Pick(m)] + SumFunctionOnSet(w, m \ {Pick(m)})
    BY <1>2, <1>3, SumPicked
  <1> QED
    BY <1>4, <1>5

\* A removed summand is subtracted.
LEMMA SumRemove ==
    ASSUME NEW S, IsFiniteSet(S), NEW x \in S, NEW w, \A y \in S : w[y] \in Int
    PROVE  SumFunctionOnSet(w, S \ {x}) = SumFunctionOnSet(w, S) - w[x]
  <1> DEFINE U == S \ {x}
  <1>1. IsFiniteSet(U) /\ x \notin U /\ S = U \cup {x}
    BY FS_RemoveElement
  <1>2. SumFunctionOnSet(w, U \cup {x}) = SumFunctionOnSet(w, U) + w[x]
    <2>1. \A y \in U : w[y] \in Int
      OBVIOUS
    <2> HIDE DEF U
    <2> QED
      BY <1>1, <2>1, SumAdd
  <1>3. SumFunctionOnSet(w, U) \in Int
    <2>1. \A y \in U : w[y] \in Int
      OBVIOUS
    <2> HIDE DEF U
    <2> QED
      BY <1>1, <2>1, SumType
  <1>4. SumFunctionOnSet(w, S) = SumFunctionOnSet(w, U) + w[x]
    BY <1>1, <1>2
  <1> HIDE DEF U
  <1>5. SumFunctionOnSet(w, U) = SumFunctionOnSet(w, S) - w[x]
    BY <1>3, <1>4
  <1> QED
    BY <1>5 DEF U

\* Where one summand changes, the sum changes as it does.
LEMMA SumChange ==
    ASSUME NEW S, IsFiniteSet(S), NEW x \in S, NEW v, NEW w,
           \A y \in S : v[y] \in Int /\ w[y] \in Int,
           \A y \in S \ {x} : v[y] = w[y]
    PROVE  SumFunctionOnSet(w, S) = SumFunctionOnSet(v, S) + (w[x] - v[x])
  <1>1. /\ SumFunctionOnSet(w, S \ {x}) = SumFunctionOnSet(w, S) - w[x]
        /\ SumFunctionOnSet(v, S \ {x}) = SumFunctionOnSet(v, S) - v[x]
    BY SumRemove
  <1>2. SumFunctionOnSet(w, S \ {x}) = SumFunctionOnSet(v, S \ {x})
    BY FS_RemoveElement, SumSame
  <1>3. SumFunctionOnSet(w, S) \in Int /\ SumFunctionOnSet(v, S) \in Int
    BY SumType
  <1> QED
    BY <1>1, <1>2, <1>3
=============================================================================
