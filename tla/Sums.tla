-------------------------------- MODULE Sums --------------------------------
(***************************************************************************)
(* Sums over finite sets, as FiniteSetsExt defines them with a fold.       *)
(***************************************************************************)
EXTENDS Integers, FiniteSets, FiniteSetTheorems, WellFoundedInduction, TLAPS

\* g adds up, for every subset of T, what w gives to its members, taking
\* away one chosen member at a time: what the fold iterates.
Adds(g, w, T) ==
    g = [s \in SUBSET T |->
            IF s = {} THEN 0
            ELSE w[CHOOSE x \in s : TRUE] + g[s \ {CHOOSE x \in s : TRUE}]]

Sigma(w, T) == (CHOOSE g : Adds(g, w, T))[T]

Sigmas(w, T) == [s \in SUBSET T |-> Sigma(w, s)]

\* The fold of T is defined, and its values are the sums of its subsets.
Summed(w, T) == \A g : Adds(g, w, T) <=> g = Sigmas(w, T)

\* A set of finite sets that is not empty has a smallest member.
LEMMA Smallest ==
    ASSUME NEW F, F # {}, \A T \in F : IsFiniteSet(T)
    PROVE  \E T \in F : \A s \in F : ~ (s \subseteq T /\ s # T)
<1> DEFINE sizes == {Cardinality(T) : T \in F}
<1>1. sizes \subseteq Nat /\ sizes # {}
  BY FS_CardinalityType
<1> HIDE DEF sizes
<1>2. PICK n \in sizes : \A m \in sizes : ~ (<<m, n>> \in OpToRel(<, Nat))
  BY <1>1, NatLessThanWellFounded, WFMin, Zenon
<1>3. \A m \in sizes : ~ (m < n)
  BY <1>1, <1>2 DEF OpToRel
<1>4. PICK T \in F : n = Cardinality(T)
  BY <1>2 DEF sizes
<1>5. ASSUME NEW s \in F, s \subseteq T, s # T PROVE FALSE
  <2>1. Cardinality(s) < Cardinality(T)
    <3>1. Cardinality(s) <= Cardinality(T) /\ (Cardinality(s) = Cardinality(T) => s = T)
      BY <1>5, FS_Subset
    <3>2. Cardinality(s) \in Nat /\ Cardinality(T) \in Nat
      BY <1>1 DEF sizes
    <3> QED BY <1>5, <3>1, <3>2
  <2>2. Cardinality(s) \in sizes
    BY DEF sizes
  <2> QED BY <1>3, <1>4, <2>1, <2>2
<1> QED BY <1>4, <1>5

LEMMA SumsDefined ==
    ASSUME NEW w, NEW T, IsFiniteSet(T)
    PROVE  Summed(w, T)
<1> SUFFICES ASSUME ~ Summed(w, T) PROVE FALSE
  OBVIOUS
<1> DEFINE F == {s \in SUBSET T : ~ Summed(w, s)}
<1>1. \A s \in F : IsFiniteSet(s)
  BY FS_Subset
<1>2. T \in F
  OBVIOUS
<1>a. \A s : s \in F <=> s \in SUBSET T /\ ~ Summed(w, s)
  OBVIOUS
<1> HIDE DEF F
<1>3. PICK s \in F : \A t \in F : ~ (t \subseteq s /\ t # s)
  <2>1. F # {}
    BY <1>2
  <2> QED BY <1>1, <2>1, Smallest
<1>4. \A t \in SUBSET s : t # s => Summed(w, t)
  BY <1>3, <1>a
<1>5. ~ Summed(w, s)
  BY <1>3, <1>a
<1>6. \A t \in SUBSET s : t # s => Adds(Sigmas(w, t), w, t)
  BY <1>4 DEF Summed
\* What a sum of a smaller set is.
<1>7. ASSUME NEW t \in SUBSET s, t # s
      PROVE  Sigma(w, t) = IF t = {} THEN 0
                ELSE w[CHOOSE x \in t : TRUE] + Sigma(w, t \ {CHOOSE x \in t : TRUE})
  <2>1. Adds(Sigmas(w, t), w, t)
    BY <1>6, <1>7
  <2>2. Sigmas(w, t)[t] = IF t = {} THEN 0
           ELSE w[CHOOSE x \in t : TRUE] + Sigmas(w, t)[t \ {CHOOSE x \in t : TRUE}]
    BY <2>1 DEF Adds
  <2>3. t \in SUBSET t /\ t \ {CHOOSE x \in t : TRUE} \in SUBSET t
    OBVIOUS
  <2> QED BY <2>2, <2>3 DEF Sigmas
<1> DEFINE top == IF s = {} THEN 0
                  ELSE w[CHOOSE x \in s : TRUE] + Sigma(w, s \ {CHOOSE x \in s : TRUE})
           G == [t \in SUBSET s |-> IF t = s THEN top ELSE Sigma(w, t)]
<1>8. \A t \in SUBSET s : t # {} => /\ t \ {CHOOSE x \in t : TRUE} \in SUBSET s
                                    /\ t \ {CHOOSE x \in t : TRUE} # s
  OBVIOUS
<1>9. Adds(G, w, s)
  <2>1. ASSUME NEW t \in SUBSET s
        PROVE  G[t] = IF t = {} THEN 0
                  ELSE w[CHOOSE x \in t : TRUE] + G[t \ {CHOOSE x \in t : TRUE}]
    <3>1. CASE t = s
      BY <3>1, <1>8
    <3>2. CASE t # s
      BY <3>2, <1>7, <1>8
    <3> QED BY <3>1, <3>2
  <2>2. G = [t \in SUBSET s |-> G[t]]
    OBVIOUS
  <2> HIDE DEF G
  <2> QED BY <2>1, <2>2 DEF Adds
<1>10. ASSUME NEW g, Adds(g, w, s) PROVE g = G
  <2>1. g = [t \in SUBSET s |-> g[t]]
    BY <1>10 DEF Adds
  <2>2. \A t \in SUBSET s : g[t] = IF t = {} THEN 0
                  ELSE w[CHOOSE x \in t : TRUE] + g[t \ {CHOOSE x \in t : TRUE}]
    BY <1>10 DEF Adds
  <2>3. ASSUME NEW t \in SUBSET s, t # s PROVE g[t] = Sigma(w, t)
    <3> DEFINE f == [u \in SUBSET t |-> g[u]]
    <3>1. \A u \in SUBSET t : u \in SUBSET s /\ u \ {CHOOSE x \in u : TRUE} \in SUBSET t
      OBVIOUS
    <3>2. Adds(f, w, t)
      <4>1. \A u \in SUBSET t : f[u] = IF u = {} THEN 0
                  ELSE w[CHOOSE x \in u : TRUE] + f[u \ {CHOOSE x \in u : TRUE}]
        BY <2>2, <3>1
      <4>2. f = [u \in SUBSET t |-> f[u]]
        OBVIOUS
      <4> HIDE DEF f
      <4> QED BY <4>1, <4>2 DEF Adds
    <3>3. f = Sigmas(w, t)
      BY <1>4, <2>3, <3>2 DEF Summed
    <3>4. t \in SUBSET t
      OBVIOUS
    <3> QED BY <3>3, <3>4 DEF Sigmas
  <2>4. g[s] = top
    BY <2>2, <2>3, <1>8
  <2> HIDE DEF top
  <2> QED BY <2>1, <2>3, <2>4
<1> HIDE DEF G
<1>11. (CHOOSE g : Adds(g, w, s)) = G
  BY <1>9, <1>10
<1>12. Sigmas(w, s) = G
  <2>1. Sigma(w, s) = G[s]
    BY <1>11 DEF Sigma
  <2>2. G = [t \in SUBSET s |-> G[t]] /\ \A t \in SUBSET s : t # s => G[t] = Sigma(w, t)
    BY DEF G
  <2>3. \A t \in SUBSET s : G[t] = Sigma(w, t)
    BY <2>1, <2>2
  <2> QED BY <2>2, <2>3 DEF Sigmas
<1> QED BY <1>5, <1>9, <1>10, <1>12 DEF Summed

LEMMA SumOfNone ==
    ASSUME NEW w
    PROVE  Sigma(w, {}) = 0
<1>1. Adds(Sigmas(w, {}), w, {})
  BY SumsDefined, FS_EmptySet DEF Summed
<1>2. {} \in SUBSET {}
  OBVIOUS
<1> QED BY <1>1, <1>2 DEF Adds, Sigmas

LEMMA SumOfChosen ==
    ASSUME NEW w, NEW T, IsFiniteSet(T), T # {}
    PROVE  LET x == CHOOSE z \in T : TRUE
           IN  Sigma(w, T) = w[x] + Sigma(w, T \ {x})
<1>1. Adds(Sigmas(w, T), w, T)
  BY SumsDefined DEF Summed
<1>2. T \in SUBSET T /\ T \ {CHOOSE x \in T : TRUE} \in SUBSET T
  OBVIOUS
<1>3. Sigmas(w, T)[T] = w[CHOOSE x \in T : TRUE] + Sigmas(w, T)[T \ {CHOOSE x \in T : TRUE}]
  BY <1>1, <1>2 DEF Adds
<1> QED BY <1>2, <1>3 DEF Sigmas

LEMMA SumIsInt ==
    ASSUME NEW w, NEW T, IsFiniteSet(T), \A x \in T : w[x] \in Int
    PROVE  Sigma(w, T) \in Int
<1> SUFFICES ASSUME Sigma(w, T) \notin Int PROVE FALSE
  OBVIOUS
<1> DEFINE F == {s \in SUBSET T : Sigma(w, s) \notin Int}
<1>1. T \in F /\ \A s \in F : IsFiniteSet(s)
  BY FS_Subset
<1>a. \A s : s \in F <=> s \in SUBSET T /\ Sigma(w, s) \notin Int
  OBVIOUS
<1> HIDE DEF F
<1>2. PICK s \in F : \A t \in F : ~ (t \subseteq s /\ t # s)
  <2>1. F # {}
    BY <1>1
  <2> QED BY <1>1, <2>1, Smallest
<1>3. IsFiniteSet(s)
  BY <1>1
<1>4. CASE s = {}
  BY <1>4, <1>a, SumOfNone
<1>5. CASE s # {}
  <2> PICK x : x = CHOOSE z \in s : TRUE
    OBVIOUS
  <2>1. x \in s
    BY <1>5
  <2>2. Sigma(w, s) = w[x] + Sigma(w, s \ {x})
    BY <1>3, <1>5, SumOfChosen
  <2>3. Sigma(w, s \ {x}) \in Int
    BY <1>2, <1>a, <2>1
  <2> QED BY <1>a, <2>1, <2>2, <2>3
<1> QED BY <1>4, <1>5

\* Whatever member is taken away first.
LEMMA SumWithout ==
    ASSUME NEW w, NEW T, IsFiniteSet(T), \A x \in T : w[x] \in Int, NEW y \in T
    PROVE  Sigma(w, T) = w[y] + Sigma(w, T \ {y})
<1> DEFINE Splits(s) == \A z \in s : Sigma(w, s) = w[z] + Sigma(w, s \ {z})
<1> SUFFICES ASSUME ~ Splits(T) PROVE FALSE
  OBVIOUS
<1> DEFINE F == {s \in SUBSET T : ~ Splits(s)}
<1>1. T \in F /\ \A s \in F : IsFiniteSet(s)
  BY FS_Subset
<1> HIDE DEF Splits
<1>a. \A s : s \in F <=> s \in SUBSET T /\ ~ Splits(s)
  OBVIOUS
<1> HIDE DEF F
<1>2. PICK s \in F : \A t \in F : ~ (t \subseteq s /\ t # s)
  <2>1. F # {}
    BY <1>1
  <2> QED BY <1>1, <2>1, Smallest
<1>3. IsFiniteSet(s) /\ \A t \in SUBSET s : t # s => Splits(t)
  BY <1>1, <1>2, <1>a
<1>b. s \subseteq T
  BY <1>a
<1>4. ASSUME NEW z \in s PROVE Sigma(w, s) = w[z] + Sigma(w, s \ {z})
  <2> PICK x : x = CHOOSE u \in s : TRUE
    OBVIOUS
  <2>1. x \in s
    BY <1>4
  <2>2. Sigma(w, s) = w[x] + Sigma(w, s \ {x})
    <3>1. s # {}
      BY <1>4
    <3> QED BY <1>3, <3>1, SumOfChosen
  <2>3. CASE x = z
    BY <2>2, <2>3
  <2>4. CASE x # z
    <3>1. Splits(s \ {x}) /\ Splits(s \ {z})
      BY <1>3, <1>4, <2>1
    <3>2. Sigma(w, s \ {x}) = w[z] + Sigma(w, (s \ {x}) \ {z})
      BY <3>1, <1>4, <2>4 DEF Splits
    <3>3. Sigma(w, s \ {z}) = w[x] + Sigma(w, (s \ {z}) \ {x})
      BY <3>1, <2>1, <2>4 DEF Splits
    <3>4. (s \ {z}) \ {x} = (s \ {x}) \ {z}
      OBVIOUS
    <3> PICK rest : rest = (s \ {x}) \ {z}
      OBVIOUS
    <3>5. w[x] \in Int /\ w[z] \in Int /\ Sigma(w, rest) \in Int
      <4>1. IsFiniteSet(rest) /\ rest \subseteq T
        BY <1>3, <1>b, FS_Subset
      <4> QED BY <4>1, <1>b, <2>1, SumIsInt
    <3>6. /\ Sigma(w, s) = w[x] + Sigma(w, s \ {x})
          /\ Sigma(w, s \ {x}) = w[z] + Sigma(w, rest)
          /\ Sigma(w, s \ {z}) = w[x] + Sigma(w, rest)
      BY <2>2, <3>2, <3>3, <3>4
    <3> QED BY <3>5, <3>6
  <2> QED BY <2>3, <2>4
<1> QED BY <1>2, <1>4, <1>a DEF Splits

\* Only what the members are given matters.
LEMMA SumOfSame ==
    ASSUME NEW v, NEW w, NEW T, \A x \in T : v[x] = w[x], IsFiniteSet(T)
    PROVE  Sigma(v, T) = Sigma(w, T)
<1>1. ASSUME NEW g, Adds(g, v, T) PROVE Adds(g, w, T)
  <2>1. \A s \in SUBSET T : s # {} => v[CHOOSE x \in s : TRUE] = w[CHOOSE x \in s : TRUE]
    OBVIOUS
  <2> QED BY <1>1, <2>1 DEF Adds
<1>2. Adds(Sigmas(v, T), v, T)
  BY SumsDefined DEF Summed
<1>3. Sigmas(v, T) = Sigmas(w, T)
  BY <1>1, <1>2, SumsDefined DEF Summed
<1> QED BY <1>3, Zenon DEF Sigmas

\* Of two sums that differ in what one member is given.
LEMMA SumOfOneChanged ==
    ASSUME NEW v, NEW w, NEW T, IsFiniteSet(T), NEW y \in T,
           \A x \in T : v[x] \in Int /\ w[x] \in Int,
           \A x \in T : x # y => v[x] = w[x]
    PROVE  Sigma(w, T) = Sigma(v, T) + (w[y] - v[y])
<1>1. IsFiniteSet(T \ {y})
  BY FS_Subset
<1> PICK rest : rest = Sigma(v, T \ {y})
  OBVIOUS
<1>2. rest \in Int /\ rest = Sigma(w, T \ {y})
  BY <1>1, SumIsInt, SumOfSame
<1>3. Sigma(v, T) = v[y] + Sigma(v, T \ {y})
  BY SumWithout
<1>4. Sigma(w, T) = w[y] + Sigma(w, T \ {y})
  BY SumWithout
<1>5. v[y] \in Int /\ w[y] \in Int
  OBVIOUS
<1> QED BY <1>2, <1>3, <1>4, <1>5

\* Of a sum to which a member is added.
LEMMA SumWithOneMore ==
    ASSUME NEW v, NEW w, NEW T, IsFiniteSet(T), NEW y, y \notin T,
           \A x \in T : v[x] \in Int, \A x \in T : v[x] = w[x], w[y] \in Int
    PROVE  Sigma(w, T \cup {y}) = Sigma(v, T) + w[y]
<1>1. IsFiniteSet(T \cup {y}) /\ (T \cup {y}) \ {y} = T /\ \A x \in T \cup {y} : w[x] \in Int
  BY FS_AddElement
<1>2. Sigma(w, T \cup {y}) = w[y] + Sigma(w, (T \cup {y}) \ {y})
  BY <1>1, SumWithout
<1>3. Sigma(w, T) = Sigma(v, T) /\ Sigma(v, T) \in Int
  BY SumOfSame, SumIsInt
<1> PICK sum : sum = Sigma(v, T)
  OBVIOUS
<1>4. sum \in Int /\ Sigma(w, T \cup {y}) = w[y] + sum
  BY <1>1, <1>2, <1>3
<1> QED BY <1>4

\* A sum of numbers that are not negative is none.
LEMMA SumIsNat ==
    ASSUME NEW w, NEW T, IsFiniteSet(T), \A x \in T : w[x] \in Nat
    PROVE  Sigma(w, T) \in Nat
<1> SUFFICES ASSUME Sigma(w, T) \notin Nat PROVE FALSE
  OBVIOUS
<1> DEFINE F == {s \in SUBSET T : Sigma(w, s) \notin Nat}
<1>1. T \in F /\ \A s \in F : IsFiniteSet(s)
  BY FS_Subset
<1>2. \A s : s \in F <=> s \in SUBSET T /\ Sigma(w, s) \notin Nat
  OBVIOUS
<1> HIDE DEF F
<1>3. PICK s \in F : \A t \in F : ~ (t \subseteq s /\ t # s)
  <2>1. F # {}
    BY <1>1
  <2> QED BY <1>1, <2>1, Smallest
<1>4. CASE s = {}
  BY <1>2, <1>4, SumOfNone
<1>5. ASSUME NEW x \in s PROVE FALSE
  <2>1. IsFiniteSet(s) /\ \A y \in s : w[y] \in Nat
    BY <1>1, <1>2
  <2>2. Sigma(w, s) = w[x] + Sigma(w, s \ {x})
    BY <2>1, SumWithout
  <2>3. Sigma(w, s \ {x}) \in Nat
    BY <1>2, <1>3
  <2> QED BY <1>2, <2>1, <2>2, <2>3
<1> QED BY <1>4, <1>5

\* Sums are taken apart member by member.
LEMMA SumOfDifferences ==
    ASSUME NEW u, NEW v, NEW w, NEW T, IsFiniteSet(T),
           \A x \in T : v[x] \in Int /\ w[x] \in Int /\ u[x] = v[x] - w[x]
    PROVE  Sigma(u, T) = Sigma(v, T) - Sigma(w, T)
<1> DEFINE Apart(s) == Sigma(u, s) = Sigma(v, s) - Sigma(w, s)
<1> SUFFICES ASSUME ~ Apart(T) PROVE FALSE
  OBVIOUS
<1> DEFINE F == {s \in SUBSET T : ~ Apart(s)}
<1>1. T \in F /\ \A s \in F : IsFiniteSet(s)
  BY FS_Subset
<1> HIDE DEF Apart
<1>2. \A s : s \in F <=> s \in SUBSET T /\ ~ Apart(s)
  OBVIOUS
<1> HIDE DEF F
<1>3. PICK s \in F : \A t \in F : ~ (t \subseteq s /\ t # s)
  <2>1. F # {}
    BY <1>1
  <2> QED BY <1>1, <2>1, Smallest
<1>4. CASE s = {}
  BY <1>2, <1>4, SumOfNone DEF Apart
<1>5. ASSUME NEW x \in s PROVE FALSE
  <2>1. IsFiniteSet(s) /\ s \subseteq T /\ x \in T
    BY <1>1, <1>2
  <2>2. /\ Sigma(u, s) = u[x] + Sigma(u, s \ {x})
        /\ Sigma(v, s) = v[x] + Sigma(v, s \ {x})
        /\ Sigma(w, s) = w[x] + Sigma(w, s \ {x})
    BY <2>1, SumWithout
  <2> PICK rest : rest = s \ {x}
    OBVIOUS
  <2>3. IsFiniteSet(rest) /\ rest \subseteq T /\ Apart(rest)
    BY <1>2, <1>3, <2>1, FS_Subset
  <2>4. Sigma(v, rest) \in Int /\ Sigma(w, rest) \in Int
    BY <2>3, SumIsInt
  <2>5. Sigma(u, rest) = Sigma(v, rest) - Sigma(w, rest)
    BY <2>3 DEF Apart
  <2>6. v[x] \in Int /\ w[x] \in Int /\ u[x] = v[x] - w[x]
    BY <2>1
  <2>7. Sigma(u, s) = Sigma(v, s) - Sigma(w, s)
    BY <2>2, <2>4, <2>5, <2>6
  <2> QED BY <1>2, <2>7 DEF Apart
<1> QED BY <1>4, <1>5
=============================================================================
