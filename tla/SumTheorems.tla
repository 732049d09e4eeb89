---------------------------- MODULE SumTheorems ----------------------------
(***************************************************************************)
(* What SumFunctionOnSet of the community modules adds up to.  It is a      *)
(* recursive function that picks the elements in an order of its own; that  *)
(* the function exists, that it is the only one and that the order does not *)
(* matter is shown here, by looking at a least set for which it would not.  *)
(***************************************************************************)
EXTENDS Functions, FiniteSetTheorems, TLAPS

Pick(s) == CHOOSE x \in s : TRUE
Adds(F, w, S) ==
    F = [s \in SUBSET S |-> IF s = {} THEN 0 ELSE w[Pick(s)] + F[s \ {Pick(s)}]]
Adder(w, S) == CHOOSE F : Adds(F, w, S)

(* The sum of the community modules, with a name for its function.          *)
LEMMA SumIsAdder == ASSUME NEW w, NEW S PROVE SumFunctionOnSet(w, S) = Adder(w, S)[S]
BY DEF SumFunctionOnSet, FoldFunctionOnSet, MapThenFoldSet, Adder, Adds, Pick

LEMMA PickIn == ASSUME NEW s, s # {} PROVE Pick(s) \in s
BY DEF Pick

(* A set of subsets of a finite set has a least one. *)
LEMMA LeastSubset ==
    ASSUME NEW S, IsFiniteSet(S), NEW T \in SUBSET SUBSET S, T # {}
    PROVE  \E t \in T : \A s \in SUBSET t : s # t => s \notin T
<1>1. IsWellFoundedOn(StrictSubsetOrdering(S), SUBSET S)
  BY FS_StrictSubsetOrderingWellFounded, FS_FiniteSubsetsOfFinite
<1>2. PICK t \in T : \A s \in T : ~ (<<s, t>> \in StrictSubsetOrdering(S))
  BY <1>1, WFMin
<1>3. ASSUME NEW s \in SUBSET t, s # t PROVE s \notin T
  BY <1>2, <1>3 DEF StrictSubsetOrdering
<1> QED
  BY <1>3

LEMMA AddsAt ==
    ASSUME NEW F, NEW w, NEW S, Adds(F, w, S), NEW s \in SUBSET S
    PROVE  F[s] = IF s = {} THEN 0 ELSE w[Pick(s)] + F[s \ {Pick(s)}]
BY DEF Adds

(* Two such functions agree where both are defined.                         *)
LEMMA OneAdder ==
    ASSUME NEW w, NEW F, NEW G, NEW A, NEW B, Adds(F, w, A), Adds(G, w, B),
           IsFiniteSet(A), NEW s \in SUBSET (A \cap B)
    PROVE  F[s] = G[s]
<1> DEFINE T == {t \in SUBSET (A \cap B) : F[t] # G[t]}
<1>1. SUFFICES ASSUME T # {} PROVE FALSE
  OBVIOUS
<1>2. PICK t \in T : \A u \in SUBSET t : u # t => u \notin T
  <2>1. T \in SUBSET SUBSET A
    OBVIOUS
  <2> HIDE DEF T
  <2> QED
    BY <1>1, <2>1, LeastSubset
<1>3. F[t] = (IF t = {} THEN 0 ELSE w[Pick(t)] + F[t \ {Pick(t)}])
      /\ G[t] = (IF t = {} THEN 0 ELSE w[Pick(t)] + G[t \ {Pick(t)}])
  <2>1. t \in SUBSET A /\ t \in SUBSET B
    OBVIOUS
  <2> QED
    BY <2>1, AddsAt
<1>4. t # {} /\ Pick(t) \in t
  BY <1>3, PickIn
<1>5. F[t \ {Pick(t)}] = G[t \ {Pick(t)}]
  BY <1>2, <1>4
<1> QED
  BY <1>3, <1>4, <1>5

(* Every finite set has one.                                                *)
LEMMA AdderExists ==
    ASSUME NEW w, NEW S, IsFiniteSet(S)
    PROVE  Adds(Adder(w, S), w, S)
<1> DEFINE T == {t \in SUBSET S : ~ \E F : Adds(F, w, t)}
<1>1. SUFFICES ASSUME T # {} PROVE FALSE
  <2>1. S \notin T
    BY <1>1
  <2>2. \E F : Adds(F, w, S)
    BY <2>1
  <2> QED
    BY <2>2 DEF Adder
<1>2. PICK t \in T : \A u \in SUBSET t : u # t => u \notin T
  <2>1. T \in SUBSET SUBSET S
    OBVIOUS
  <2> HIDE DEF T
  <2> QED
    BY <1>1, <2>1, LeastSubset
<1>3. t \in SUBSET S
  OBVIOUS
<1>4. ASSUME NEW u \in SUBSET t, u # t PROVE Adds(Adder(w, u), w, u)
  <2>1. \E F : Adds(F, w, u)
    BY <1>2, <1>3, <1>4
  <2> QED
    BY <2>1 DEF Adder
<1> DEFINE rest(s) == s \ {Pick(s)}
           G == [s \in SUBSET t |-> IF s = {} THEN 0
                                    ELSE w[Pick(s)] + Adder(w, rest(s))[rest(s)]]
<1>5. ASSUME NEW s \in SUBSET t, s # {}
      PROVE  G[rest(s)] = Adder(w, rest(s))[rest(s)]
  <2> DEFINE r == rest(s)
  <2>1. r \in SUBSET t /\ r # t
    BY <1>5, PickIn
  <2>2. Adds(Adder(w, r), w, r)
    BY <1>4, <2>1
  <2>3. Adder(w, r)[r] = IF r = {} THEN 0 ELSE w[Pick(r)] + Adder(w, r)[rest(r)]
    <3>1. r \in SUBSET r
      OBVIOUS
    <3> HIDE DEF r
    <3> QED
      BY <2>2, <3>1, AddsAt
  <2>4. CASE r = {}
    BY <2>1, <2>3, <2>4
  <2>5. CASE r # {}
    <3>1. rest(r) \in SUBSET t /\ rest(r) # t /\ rest(r) \in SUBSET r
      BY <2>1
    <3>2. Adds(Adder(w, rest(r)), w, rest(r))
      BY <1>4, <3>1
    <3>3. IsFiniteSet(r)
      BY <1>3, <2>1, FS_Subset
    <3>4. Adder(w, r)[rest(r)] = Adder(w, rest(r))[rest(r)]
      <4> DEFINE q == rest(r)
      <4>1. q \in SUBSET (r \cap q)
        BY <3>1
      <4> HIDE DEF q, r
      <4> QED
        BY <2>2, <3>2, <3>3, <4>1, OneAdder DEF q
    <3>5. G[r] = w[Pick(r)] + Adder(w, rest(r))[rest(r)]
      BY <2>1, <2>5
    <3> QED
      BY <2>3, <2>5, <3>4, <3>5
  <2> QED
    BY <2>4, <2>5
<1>6. Adds(G, w, t)
  <2>1. ASSUME NEW s \in SUBSET t
        PROVE  G[s] = IF s = {} THEN 0 ELSE w[Pick(s)] + G[rest(s)]
    BY <1>5
  <2>2. G = [s \in SUBSET t |-> G[s]]
    OBVIOUS
  <2> HIDE DEF G
  <2> QED
    BY <2>1, <2>2 DEF Adds
<1> QED
  BY <1>6

(***************************************************************************)
(* The sum itself                                                          *)
(***************************************************************************)
LEMMA SumPicked ==
    ASSUME NEW w, NEW S, IsFiniteSet(S)
    PROVE  /\ S = {} => SumFunctionOnSet(w, S) = 0
           /\ S # {} => SumFunctionOnSet(w, S)
                           = w[Pick(S)] + SumFunctionOnSet(w, S \ {Pick(S)})
<1> DEFINE r == S \ {Pick(S)}
<1>1. /\ Adds(Adder(w, S), w, S) /\ Adds(Adder(w, r), w, r)
  BY AdderExists, FS_Subset
<1>2. Adder(w, S)[S] = IF S = {} THEN 0 ELSE w[Pick(S)] + Adder(w, S)[r]
  <2>1. S \in SUBSET S
    OBVIOUS
  <2> QED
    BY <1>1, <2>1, AddsAt
<1>3. Adder(w, S)[r] = Adder(w, r)[r]
  <2>1. r \in SUBSET (S \cap r)
    OBVIOUS
  <2> HIDE DEF r
  <2> QED
    BY <1>1, <2>1, OneAdder
<1> QED
  BY <1>2, <1>3, SumIsAdder

(* Nothing adds up to nothing.                                              *)
LEMMA SumEmpty == ASSUME NEW w PROVE SumFunctionOnSet(w, {}) = 0
BY SumPicked, FS_EmptySet

(* Integers add up to an integer.                                           *)
LEMMA SumIsInt ==
    ASSUME NEW S, IsFiniteSet(S), NEW w, \A x \in S : w[x] \in Int
    PROVE  SumFunctionOnSet(w, S) \in Int
<1> DEFINE T == {t \in SUBSET S : SumFunctionOnSet(w, t) \notin Int}
<1>1. SUFFICES ASSUME T # {} PROVE FALSE
  OBVIOUS
<1>2. PICK t \in T : \A u \in SUBSET t : u # t => u \notin T
  <2>1. T \in SUBSET SUBSET S
    OBVIOUS
  <2> HIDE DEF T
  <2> QED
    BY <1>1, <2>1, LeastSubset
<1>3. IsFiniteSet(t)
  BY FS_Subset
<1>4. t # {} /\ Pick(t) \in t
  <2>1. SumFunctionOnSet(w, t) \notin Int /\ SumFunctionOnSet(w, {}) = 0 /\ 0 \in Int
    BY SumEmpty
  <2>2. t # {}
    BY <2>1
  <2> QED
    BY <2>2, PickIn
<1>5. SumFunctionOnSet(w, t \ {Pick(t)}) \in Int
  BY <1>2, <1>4
<1> QED
  BY <1>3, <1>4, <1>5, SumPicked

(* Any element may be the first. *)
LEMMA SumAny ==
    ASSUME NEW S, IsFiniteSet(S), NEW w, \A x \in S : w[x] \in Int, NEW a \in S
    PROVE  SumFunctionOnSet(w, S) = w[a] + SumFunctionOnSet(w, S \ {a})
<1> DEFINE T == {t \in SUBSET S : \E x \in t :
                    SumFunctionOnSet(w, t) # w[x] + SumFunctionOnSet(w, t \ {x})}
<1>1. SUFFICES ASSUME T # {} PROVE FALSE
  OBVIOUS
<1>2. PICK t \in T : \A u \in SUBSET t : u # t => u \notin T
  <2>1. T \in SUBSET SUBSET S
    OBVIOUS
  <2> HIDE DEF T
  <2> QED
    BY <1>1, <2>1, LeastSubset
<1>3. PICK x \in t : SumFunctionOnSet(w, t) # w[x] + SumFunctionOnSet(w, t \ {x})
  OBVIOUS
<1> DEFINE c == Pick(t)
           sum(s) == SumFunctionOnSet(w, s)
<1>4. IsFiniteSet(t) /\ t \in SUBSET S
  BY FS_Subset
<1>5. c \in t /\ sum(t) = w[c] + sum(t \ {c})
  BY <1>4, SumPicked, PickIn
<1>6. c # x
  BY <1>3, <1>5
<1>7. sum(t \ {c}) = w[x] + sum((t \ {c}) \ {x})
  BY <1>2, <1>4, <1>5, <1>6
<1>8. sum(t \ {x}) = w[c] + sum((t \ {x}) \ {c})
  BY <1>2, <1>4, <1>5, <1>6
<1>9. sum((t \ {c}) \ {x}) = sum((t \ {x}) \ {c})
  <2>1. (t \ {c}) \ {x} = (t \ {x}) \ {c}
    OBVIOUS
  <2> QED
    BY <2>1
<1>10. sum((t \ {c}) \ {x}) \in Int /\ w[c] \in Int /\ w[x] \in Int
  <2>1. IsFiniteSet((t \ {c}) \ {x})
    BY <1>4, FS_Subset
  <2> QED
    BY <1>4, <1>5, <2>1, SumIsInt
<1> DEFINE all == sum(t)
           less == sum(t \ {c})
           other == sum(t \ {x})
           least == sum((t \ {c}) \ {x})
<1>11. all = w[c] + less /\ less = w[x] + least /\ other = w[c] + least /\ least \in Int
  BY <1>5, <1>7, <1>8, <1>9, <1>10
<1> HIDE DEF sum, c, T, all, less, other, least
<1>12. all = w[x] + other
  BY <1>10, <1>11
<1> QED
  BY <1>3, <1>12 DEF sum, all, other

(* A sum depends only on what it adds. *)
LEMMA SumSame ==
    ASSUME NEW S, IsFiniteSet(S), NEW v, NEW w, \A x \in S : v[x] = w[x]
    PROVE  SumFunctionOnSet(v, S) = SumFunctionOnSet(w, S)
<1> DEFINE T == {t \in SUBSET S : SumFunctionOnSet(v, t) # SumFunctionOnSet(w, t)}
<1>1. SUFFICES ASSUME T # {} PROVE FALSE
  OBVIOUS
<1>2. PICK t \in T : \A u \in SUBSET t : u # t => u \notin T
  <2>1. T \in SUBSET SUBSET S
    OBVIOUS
  <2> HIDE DEF T
  <2> QED
    BY <1>1, <2>1, LeastSubset
<1>3. IsFiniteSet(t)
  BY FS_Subset
<1>4. t # {} /\ Pick(t) \in t
  BY <1>3, SumPicked, PickIn
<1>5. SumFunctionOnSet(v, t \ {Pick(t)}) = SumFunctionOnSet(w, t \ {Pick(t)})
  BY <1>2, <1>4
<1> QED
  BY <1>3, <1>4, <1>5, SumPicked

(* The sums of two parts make the sum of the whole. *)
LEMMA SumOfParts ==
    ASSUME NEW A, NEW B, IsFiniteSet(A), IsFiniteSet(B), A \cap B = {},
           NEW w, \A x \in A \cup B : w[x] \in Int
    PROVE  SumFunctionOnSet(w, A \cup B) = SumFunctionOnSet(w, A) + SumFunctionOnSet(w, B)
<1> DEFINE T == {t \in SUBSET A : SumFunctionOnSet(w, t \cup B)
                                     # SumFunctionOnSet(w, t) + SumFunctionOnSet(w, B)}
<1>1. SUFFICES ASSUME T # {} PROVE FALSE
  OBVIOUS
<1>2. PICK t \in T : \A u \in SUBSET t : u # t => u \notin T
  <2>1. T \in SUBSET SUBSET A
    OBVIOUS
  <2> HIDE DEF T
  <2> QED
    BY <1>1, <2>1, LeastSubset
<1> DEFINE sum(s) == SumFunctionOnSet(w, s)
<1>3. IsFiniteSet(t) /\ IsFiniteSet(t \cup B) /\ t \in SUBSET A
  BY FS_Subset, FS_Union
<1>4. sum(B) \in Int /\ sum({}) = 0
  BY SumIsInt, SumEmpty
<1>5. PICK x : x \in t
  <2>1. {} \cup B = B /\ 0 + sum(B) = sum(B)
    BY <1>4
  <2>2. sum(t \cup B) # sum(t) + sum(B)
    OBVIOUS
  <2>3. t # {}
    BY <1>4, <2>1, <2>2
  <2> QED
    BY <2>3
<1>6. sum(t) = w[x] + sum(t \ {x}) /\ sum(t \ {x}) \in Int /\ w[x] \in Int
  <2>1. IsFiniteSet(t \ {x})
    BY <1>3, FS_Subset
  <2> QED
    BY <1>3, <1>5, <2>1, SumAny, SumIsInt
<1>7. sum(t \cup B) = w[x] + sum((t \cup B) \ {x})
  BY <1>3, <1>5, SumAny
<1>8. (t \cup B) \ {x} = (t \ {x}) \cup B
  BY <1>3, <1>5
<1>9. sum((t \ {x}) \cup B) = sum(t \ {x}) + sum(B)
  <2>1. (t \ {x}) \in SUBSET t /\ t \ {x} # t
    BY <1>5
  <2> QED
    BY <1>2, <1>3, <2>1
<1>10. sum(t \cup B) # sum(t) + sum(B)
  OBVIOUS
<1> DEFINE both == sum(t \cup B)
           one == sum(t)
           less == sum(t \ {x})
           other == sum(B)
<1>11. /\ one = w[x] + less /\ both = w[x] + (less + other)
       /\ less \in Int /\ w[x] \in Int /\ other \in Int
  BY <1>4, <1>6, <1>7, <1>8, <1>9
<1>12. both # one + other
  BY <1>10
<1> HIDE DEF sum, T, both, one, less, other
<1> QED
  BY <1>11, <1>12

(* Natural numbers add up to a natural number.                              *)
LEMMA SumIsNat ==
    ASSUME NEW S, IsFiniteSet(S), NEW w, \A x \in S : w[x] \in Nat
    PROVE  SumFunctionOnSet(w, S) \in Nat
<1> DEFINE T == {t \in SUBSET S : SumFunctionOnSet(w, t) \notin Nat}
<1>1. SUFFICES ASSUME T # {} PROVE FALSE
  OBVIOUS
<1>2. PICK t \in T : \A u \in SUBSET t : u # t => u \notin T
  <2>1. T \in SUBSET SUBSET S
    OBVIOUS
  <2> HIDE DEF T
  <2> QED
    BY <1>1, <2>1, LeastSubset
<1>3. IsFiniteSet(t)
  BY FS_Subset
<1>4. t # {} /\ Pick(t) \in t
  <2>1. SumFunctionOnSet(w, t) \notin Nat /\ SumFunctionOnSet(w, {}) = 0 /\ 0 \in Nat
    BY SumEmpty
  <2>2. t # {}
    BY <2>1
  <2> QED
    BY <2>2, PickIn
<1>5. SumFunctionOnSet(w, t \ {Pick(t)}) \in Nat
  BY <1>2, <1>4
<1> QED
  BY <1>3, <1>4, <1>5, SumPicked

(* More is added to more. *)
LEMMA SumGrows ==
    ASSUME NEW S, IsFiniteSet(S), NEW A \in SUBSET S, NEW w, \A x \in S : w[x] \in Nat
    PROVE  /\ SumFunctionOnSet(w, A) \in Nat /\ SumFunctionOnSet(w, S) \in Nat
           /\ SumFunctionOnSet(w, A) <= SumFunctionOnSet(w, S)
           /\ \A x \in S \ A : SumFunctionOnSet(w, A) + w[x] <= SumFunctionOnSet(w, S)
<1> DEFINE B == S \ A
           sum(s) == SumFunctionOnSet(w, s)
<1>1. IsFiniteSet(A) /\ IsFiniteSet(B) /\ A \cap B = {} /\ A \cup B = S
  BY FS_Subset
<1>2. sum(S) = sum(A) + sum(B)
  BY <1>1, SumOfParts
<1>3. sum(A) \in Nat /\ sum(B) \in Nat
  BY <1>1, SumIsNat
<1>4. ASSUME NEW x \in B PROVE sum(A) + w[x] <= sum(S)
  <2>1. sum(B) = w[x] + sum(B \ {x})
    BY <1>1, SumAny
  <2>2. sum(B \ {x}) \in Nat /\ w[x] \in Nat
    BY <1>1, FS_Subset, SumIsNat
  <2> HIDE DEF sum
  <2> QED
    BY <1>2, <1>3, <2>1, <2>2
<1> HIDE DEF sum
<1>5. sum(A) <= sum(S) /\ sum(S) \in Nat
  BY <1>2, <1>3
<1> QED
  BY <1>3, <1>4, <1>5 DEF sum

(* When the elements come in pairs of the same value, and what is its own   *)
(* partner has an even one, the sum is even.                                *)
LEMMA SumIsEven ==
    ASSUME NEW S, IsFiniteSet(S), NEW w, \A x \in S : w[x] \in Nat,
           NEW partner \in [S -> S],
           \A x \in S : /\ partner[partner[x]] = x /\ w[partner[x]] = w[x]
                        /\ partner[x] = x => \E k \in Nat : w[x] = 2 * k
    PROVE  \E k \in Nat : SumFunctionOnSet(w, S) = 2 * k
<1> DEFINE sum(s) == SumFunctionOnSet(w, s)
           even(n) == \E k \in Nat : n = 2 * k
           closed(t) == \A x \in t : partner[x] \in t
           T == {t \in SUBSET S : closed(t) /\ ~even(sum(t))}
<1>1. SUFFICES ASSUME T # {} PROVE FALSE
  <2>1. closed(S)
    OBVIOUS
  <2>2. S \notin T
    BY <1>1
  <2>3. even(sum(S))
    BY <2>1, <2>2
  <2> QED
    BY <2>3
<1>2. PICK t \in T : \A u \in SUBSET t : u # t => u \notin T
  <2>1. T \in SUBSET SUBSET S
    OBVIOUS
  <2> HIDE DEF T
  <2> QED
    BY <1>1, <2>1, LeastSubset
<1>3. IsFiniteSet(t) /\ t \in SUBSET S /\ closed(t) /\ ~even(sum(t))
  BY FS_Subset
<1>4. PICK x : x \in t
  <2>1. sum({}) = 2 * 0
    BY SumEmpty
  <2>2. even(sum({}))
    BY <2>1
  <2>3. t # {}
    BY <1>3, <2>2
  <2> QED
    BY <2>3
<1> DEFINE y == partner[x]
           rest == (t \ {x}) \ {y}
<1>5. y \in t /\ x \in S /\ y \in S /\ partner[y] = x /\ w[y] = w[x] /\ w[x] \in Nat
  BY <1>3, <1>4
<1>6. rest \in SUBSET S /\ rest \in SUBSET t /\ rest # t
  BY <1>3, <1>4
<1>7. closed(rest)
  BY <1>3, <1>5
<1>8. even(sum(rest))
  BY <1>2, <1>6, <1>7
<1>9. sum(t) = w[x] + sum(t \ {x})
  BY <1>3, <1>4, SumAny
<1>10. CASE y = x
  <2>1. rest = t \ {x} /\ even(w[x])
    BY <1>5, <1>10
  <2>2. even(sum(t))
    <3>1. sum(t) = w[x] + sum(rest)
      BY <1>9, <2>1
    <3> HIDE DEF sum, rest, T
    <3>2. PICK i \in Nat, j \in Nat : w[x] = 2 * i /\ sum(rest) = 2 * j
      BY <1>8, <2>1
    <3>3. sum(t) = 2 * (i + j) /\ i + j \in Nat
      BY <3>1, <3>2
    <3> QED
      BY <3>3
  <2> QED
    BY <1>3, <2>2
<1>11. CASE y # x
  <2>1. sum(t \ {x}) = w[y] + sum(rest)
    <3>1. IsFiniteSet(t \ {x}) /\ y \in t \ {x}
      BY <1>3, <1>5, <1>11, FS_Subset
    <3> QED
      BY <1>3, <3>1, SumAny
  <2>2. even(sum(t))
    <3>1. sum(t) = w[x] + (w[x] + sum(rest))
      BY <1>5, <1>9, <2>1
    <3> HIDE DEF sum, rest, T, y
    <3>2. PICK j \in Nat : sum(rest) = 2 * j
      BY <1>8
    <3>3. sum(t) = 2 * (w[x] + j) /\ w[x] + j \in Nat
      BY <1>5, <3>1, <3>2
    <3> QED
      BY <3>3
  <2> QED
    BY <1>3, <2>2
<1> QED
  BY <1>10, <1>11

(* As many images as arguments, at most.                                    *)
LEMMA ImageFinite ==
    ASSUME NEW S, IsFiniteSet(S), NEW f, DOMAIN f = S
    PROVE  IsFiniteSet({f[x] : x \in S})
<1> DEFINE g == [x \in S |-> f[x]]
           T == {f[x] : x \in S}
<1>1. g \in Surjection(S, T)
  BY DEF Surjection
<1> HIDE DEF g, T
<1>2. IsFiniteSet(T)
  BY <1>1, FS_Surjection
<1> QED
  BY <1>2 DEF T

(* What is nowhere more than the other adds up to no more.                  *)
LEMMA SumBelow ==
    ASSUME NEW S, IsFiniteSet(S), NEW v, NEW w,
           \A x \in S : v[x] \in Int /\ w[x] \in Int /\ v[x] <= w[x]
    PROVE  SumFunctionOnSet(v, S) <= SumFunctionOnSet(w, S)
<1> DEFINE T == {t \in SUBSET S : ~(SumFunctionOnSet(v, t) <= SumFunctionOnSet(w, t))}
<1>1. SUFFICES ASSUME T # {} PROVE FALSE
  OBVIOUS
<1>2. PICK t \in T : \A u \in SUBSET t : u # t => u \notin T
  <2>1. T \in SUBSET SUBSET S
    OBVIOUS
  <2> HIDE DEF T
  <2> QED
    BY <1>1, <2>1, LeastSubset
<1>3. IsFiniteSet(t) /\ IsFiniteSet(t \ {Pick(t)})
  BY FS_Subset
<1>4. t # {} /\ Pick(t) \in t
  <2>1. ~(SumFunctionOnSet(v, t) <= SumFunctionOnSet(w, t))
    OBVIOUS
  <2>2. SumFunctionOnSet(v, {}) = 0 /\ SumFunctionOnSet(w, {}) = 0
    BY SumEmpty
  <2>3. t # {}
    BY <2>1, <2>2
  <2> QED
    BY <2>3, PickIn
<1>5. SumFunctionOnSet(v, t \ {Pick(t)}) <= SumFunctionOnSet(w, t \ {Pick(t)})
  BY <1>2, <1>4
<1> DEFINE p == Pick(t)
           a == SumFunctionOnSet(v, t \ {p})
           b == SumFunctionOnSet(w, t \ {p})
<1>6. a \in Int /\ b \in Int /\ v[p] \in Int /\ w[p] \in Int /\ v[p] <= w[p]
  BY <1>3, <1>4, SumIsInt
<1>7. SumFunctionOnSet(v, t) = v[p] + a /\ SumFunctionOnSet(w, t) = w[p] + b /\ a <= b
  BY <1>3, <1>4, <1>5, SumPicked
<1>8. ~(SumFunctionOnSet(v, t) <= SumFunctionOnSet(w, t))
  OBVIOUS
<1> HIDE DEF a, b, p, T
<1> QED
  BY <1>6, <1>7, <1>8

(* Zeros add up to zero.                                                    *)
LEMMA SumOfZeros ==
    ASSUME NEW S, IsFiniteSet(S), NEW w, \A x \in S : w[x] = 0
    PROVE  SumFunctionOnSet(w, S) = 0
<1> DEFINE T == {t \in SUBSET S : SumFunctionOnSet(w, t) # 0}
<1>1. SUFFICES ASSUME T # {} PROVE FALSE
  OBVIOUS
<1>2. PICK t \in T : \A u \in SUBSET t : u # t => u \notin T
  <2>1. T \in SUBSET SUBSET S
    OBVIOUS
  <2> HIDE DEF T
  <2> QED
    BY <1>1, <2>1, LeastSubset
<1>3. IsFiniteSet(t)
  BY FS_Subset
<1>4. t # {} /\ Pick(t) \in t
  BY SumEmpty, PickIn
<1>5. SumFunctionOnSet(w, t \ {Pick(t)}) = 0
  BY <1>2, <1>4
<1> QED
  BY <1>3, <1>4, <1>5, SumPicked

(* A sum may be counted by another name of each of its elements.            *)
LEMMA SumOfImage ==
    ASSUME NEW S, IsFiniteSet(S), NEW f, DOMAIN f = S, NEW v, NEW w,
           \A x, y \in S : f[x] = f[y] => x = y,
           \A x \in S : v[x] \in Int /\ v[x] = w[f[x]]
    PROVE  SumFunctionOnSet(v, S) = SumFunctionOnSet(w, {f[x] : x \in S})
<1> DEFINE img(t) == {f[x] : x \in t}
           T == {t \in SUBSET S : SumFunctionOnSet(v, t) # SumFunctionOnSet(w, img(t))}
<1>1. SUFFICES ASSUME T # {} PROVE FALSE
  <2>1. S \notin T
    BY <1>1
  <2> QED
    BY <2>1
<1>2. PICK t \in T : \A u \in SUBSET t : u # t => u \notin T
  <2>1. T \in SUBSET SUBSET S
    OBVIOUS
  <2> HIDE DEF T
  <2> QED
    BY <1>1, <2>1, LeastSubset
<1>3. IsFiniteSet(t) /\ t \in SUBSET S
  BY FS_Subset
<1>4. PICK x : x \in t
  <2>1. img({}) = {}
    OBVIOUS
  <2>2. t # {}
    BY <2>1, SumEmpty
  <2> QED
    BY <2>2
<1>5. SumFunctionOnSet(v, t) = v[x] + SumFunctionOnSet(v, t \ {x})
  BY <1>3, <1>4, SumAny
<1>6. IsFiniteSet(img(t)) /\ \A y \in img(t) : w[y] \in Int
  <2>1. IsFiniteSet(img(S))
    BY ImageFinite
  <2>2. img(t) \subseteq img(S)
    BY <1>3
  <2> QED
    BY <1>3, <2>1, <2>2, FS_Subset
<1>7. img(t) \ {f[x]} = img(t \ {x}) /\ f[x] \in img(t)
  BY <1>3, <1>4
<1>8. SumFunctionOnSet(w, img(t)) = w[f[x]] + SumFunctionOnSet(w, img(t \ {x}))
  <2> HIDE DEF img
  <2>1. SumFunctionOnSet(w, img(t)) = w[f[x]] + SumFunctionOnSet(w, img(t) \ {f[x]})
    BY <1>6, <1>7, SumAny
  <2> QED
    BY <1>7, <2>1
<1>9. SumFunctionOnSet(v, t \ {x}) = SumFunctionOnSet(w, img(t \ {x}))
  <2>1. (t \ {x}) \in SUBSET t /\ t \ {x} # t
    BY <1>4
  <2> QED
    BY <1>2, <1>3, <2>1
<1> QED
  BY <1>3, <1>4, <1>5, <1>8, <1>9

(* A set has no more elements than each place may hold, added up.           *)
LEMMA CountByPlace ==
    ASSUME NEW S, IsFiniteSet(S), NEW R, IsFiniteSet(R), NEW f, \A r \in R : f[r] \in S,
           NEW w, \A x \in S : w[x] \in Int /\ Cardinality({r \in R : f[r] = x}) <= w[x]
    PROVE  Cardinality(R) <= SumFunctionOnSet(w, S)
<1> DEFINE held(t) == {r \in R : f[r] \in t}
           T == {t \in SUBSET S : ~(Cardinality(held(t)) <= SumFunctionOnSet(w, t))}
<1>1. SUFFICES ASSUME T # {} PROVE FALSE
  <2>1. held(S) = R /\ S \notin T
    BY <1>1
  <2> HIDE DEF held
  <2> QED
    BY <2>1
<1>2. PICK t \in T : \A u \in SUBSET t : u # t => u \notin T
  <2>1. T \in SUBSET SUBSET S
    OBVIOUS
  <2> HIDE DEF T
  <2> QED
    BY <1>1, <2>1, LeastSubset
<1>3. IsFiniteSet(t) /\ t \in SUBSET S
  BY FS_Subset
<1>4. PICK x : x \in t
  <2>1. held({}) = {}
    OBVIOUS
  <2>2. Cardinality(held({})) = 0 /\ SumFunctionOnSet(w, {}) = 0
    BY <2>1, FS_EmptySet, SumEmpty
  <2>3. t # {}
    BY <2>2
  <2> QED
    BY <2>3
<1>5. SumFunctionOnSet(w, t) = w[x] + SumFunctionOnSet(w, t \ {x})
      /\ SumFunctionOnSet(w, t \ {x}) \in Int
  BY <1>3, <1>4, FS_Subset, SumAny, SumIsInt
<1>6. Cardinality(held(t \ {x})) <= SumFunctionOnSet(w, t \ {x})
  <2>1. (t \ {x}) \in SUBSET t /\ t \ {x} # t
    BY <1>4
  <2> QED
    BY <1>2, <1>3, <2>1
<1> DEFINE mine == {r \in R : f[r] = x}
           rest == held(t \ {x})
<1>7. /\ IsFiniteSet(mine) /\ IsFiniteSet(rest)
      /\ Cardinality(mine) \in Nat /\ Cardinality(rest) \in Nat
  BY FS_Subset, FS_CardinalityType
<1>8. held(t) = mine \cup rest /\ mine \cap rest = {}
  BY <1>4
<1>9. Cardinality(mine \cup rest) = Cardinality(mine) + Cardinality(rest)
  <2> HIDE DEF mine, rest
  <2>1. Cardinality(mine \cup rest)
           = Cardinality(mine) + Cardinality(rest) - Cardinality(mine \cap rest)
    BY <1>7, FS_Union
  <2>2. Cardinality(mine \cap rest) = 0
    BY <1>8, FS_EmptySet
  <2> QED
    BY <1>7, <2>1, <2>2
<1>10. Cardinality(mine) <= w[x] /\ w[x] \in Int
  BY <1>3, <1>4
<1>11. ~(Cardinality(held(t)) <= SumFunctionOnSet(w, t))
  OBVIOUS
<1> DEFINE a == Cardinality(mine)
           b == Cardinality(rest)
           d == SumFunctionOnSet(w, t \ {x})
<1>12. ~(a + b <= w[x] + d) /\ a <= w[x] /\ b <= d
  BY <1>5, <1>6, <1>8, <1>9, <1>10, <1>11
<1>13. a \in Nat /\ b \in Nat /\ d \in Int /\ w[x] \in Int
  BY <1>5, <1>7, <1>10
<1> HIDE DEF a, b, d, T, held, mine, rest
<1> QED
  BY <1>12, <1>13

=============================================================================
